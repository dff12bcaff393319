---------------------------- MODULE WalReadProofs ----------------------------
(***************************************************************************)
(* Reads racing puts: a read that began after a put was answered finds it, *)
(* and a read that asked a store and cannot decide met a failing one; for  *)
(* any numbers of keys, stores, puts, readers and faults and any settings  *)
(* of the knob.                                                            *)
(***************************************************************************)
EXTENDS WalReads, WalMultiplexProofs

-----------------------------------------------------------------------------
(* The inductive invariant.  Of one reader: which stores it asked, and that *)
(* what it concluded is what the answers it has say.                        *)
Consistent(t) ==
    /\ \A s \in Stores : t.reply[s] = "unasked" <=> s \notin t.asked
    /\ t.state = "idle" => t.asked = {}
    /\ t.op # "scrub" => t.asked \subseteq MainStores
    /\ t.op = "is_present" /\ t.state # "idle" => t.asked = MainStores

Concluded(t) ==
    /\ t.state = "repairing" => t.op = "scrub"
    /\ t.state = "done" /\ t.op # "scrub" =>
         /\ LoopDone(t.op, t.asked, t.reply)
         /\ t.result = LoopResult(t.op, t.asked, t.reply)
    /\ t.state = "done" /\ t.op = "scrub" /\ t.result = "absent" =>
         /\ ScrubAbsent(t.asked, t.reply) = "absent"
         /\ \A s \in t.asked : t.reply[s] \in {"none", "err"}

ReaderOK(t) == Consistent(t) /\ Concluded(t)

(* A read that began after the answer has a write quorum of main stores     *)
(* that hold the key and have not denied it: each of them held it before    *)
(* the read could ask, and nothing removes it.                              *)
Backed(t, held) ==
    t.sure => \E Q \in SUBSET MainStores :
                /\ Cardinality(Q) >= WriteQuorum
                /\ \A s \in Q : t.key \in held[s] /\ t.reply[s] # "none"

(* The counter counts the requests that were never answered, those of reads *)
(* that did not wait for them included.                                     *)
Waiting == {w \in Readers \X Stores : reader[w[1]].reply[w[2]] = "asked"}

Counted == IsFiniteSet(Waiting) /\ inflight = Cardinality(Waiting)

ReadersTypeOK == disabled \in KnobSettings /\ reader \in [Readers -> ReaderRecord]

ReadsInv ==
    /\ PutTypes /\ PutsOK
    /\ ReadersTypeOK /\ Counted
    /\ \A r \in Readers : ReaderOK(reader[r]) /\ Backed(reader[r], blobs)

-----------------------------------------------------------------------------
(* Sets of stores, and counting. *)

(* Any set of stores can be counted. *)
LEMMA FiniteStores ==
    ASSUME NEW S \in SUBSET Stores
    PROVE  IsFiniteSet(S) /\ Cardinality(S) \in Nat
<1>1. IsFiniteSet(Stores)
  BY StorageAssumption, FS_Union, Zenon DEF Stores
<1>2. IsFiniteSet(S)
  BY <1>1, FS_Subset, Zenon
<1> QED
  BY <1>2, FS_CardinalityType, Zenon

(* read_quorum and write_quorum of the multiplex overlap in one main       *)
(* store.                                                                  *)
LEMMA QuorumNumbers ==
    /\ Cardinality(MainStores) \in Nat /\ WriteQuorum \in Nat /\ ReadQuorum \in Nat
    /\ WriteQuorum >= 1 /\ ReadQuorum >= 1
    /\ WriteQuorum + ReadQuorum = Cardinality(MainStores) + 1
    /\ ReadQuorum <= Cardinality(MainStores)
<1>1. Cardinality(MainStores) \in Nat
  BY FiniteStores, Zenon DEF Stores
<1> QED
  BY <1>1, MultiplexAssumption DEF ReadQuorum

(* MultiplexQuorum::new: a read quorum and a write quorum have a store in   *)
(* common.                                                                  *)
LEMMA QuorumsMeet ==
    ASSUME NEW Q \in SUBSET MainStores, Cardinality(Q) >= WriteQuorum,
           NEW R \in SUBSET MainStores, Cardinality(R) >= ReadQuorum
    PROVE  Q \cap R # {}
<1>1. Cardinality(Q) \in Nat /\ Cardinality(R) \in Nat
  BY FiniteStores, Zenon DEF Stores
<1>2. Cardinality(Q) + Cardinality(R) > Cardinality(MainStores)
  BY <1>1, QuorumNumbers
<1> QED
  BY <1>2, StorageAssumption, FS_MajoritiesIntersect, Zenon

(* One reader asks the stores of A: V has one pair for each of them that W  *)
(* has not.                                                                 *)
Adds(V, W, r, A) ==
    /\ W \subseteq V
    /\ \A a \in A : <<r, a>> \in V /\ <<r, a>> \notin W
    /\ \A v \in V : v \notin W => \E a \in A : v = <<r, a>>

(* A reader that asks the stores A waits for that many more answers. *)
LEMMA CountAdd ==
    ASSUME NEW W, IsFiniteSet(W), NEW r, NEW A, IsFiniteSet(A), NEW V, Adds(V, W, r, A)
    PROVE  IsFiniteSet(V) /\ Cardinality(V) = Cardinality(W) + Cardinality(A)
<1> DEFINE f == [a \in A |-> <<r, a>>]
           B == V \ W
<1>1. /\ f \in [A -> B]
      /\ \A a, b \in A : f[a] = f[b] => a = b
      /\ \A v \in B : \E a \in A : f[a] = v
  BY Zenon DEF Adds
<1> HIDE DEF f
<1>2. f \in Bijection(A, B)
  BY <1>1, Zenon DEF Bijection, Injection, Surjection, IsInjective
<1>3. IsFiniteSet(B) /\ Cardinality(B) = Cardinality(A)
  BY <1>2, FS_Bijection, Zenon DEF ExistsBijection
<1>4. V = W \cup B /\ W \cap B = {}
  BY Zenon DEF Adds
<1>5. Cardinality(W) \in Nat /\ Cardinality(A) \in Nat /\ Cardinality({}) = 0
  BY FS_CardinalityType, FS_EmptySet, Zenon
<1> HIDE DEF B
<1>6. /\ IsFiniteSet(W \cup B)
      /\ Cardinality(W \cup B) = Cardinality(W) + Cardinality(B) - Cardinality(W \cap B)
  BY <1>3, FS_Union, Zenon
<1>7. /\ IsFiniteSet(V)
      /\ Cardinality(V) = Cardinality(W) + Cardinality(A) - Cardinality({})
  BY <1>3, <1>4, <1>6, Zenon
<1> QED
  BY <1>5, <1>7

-----------------------------------------------------------------------------
(* What one step makes of the reader that takes it. *)

(* The fields of a reader. *)
LEMMA ReaderFields ==
    ASSUME ReadersTypeOK, NEW r \in Readers
    PROVE  /\ reader[r] \in ReaderRecord
           /\ reader[r].reply \in [Stores -> ReadReplies]
           /\ reader[r].asked \in SUBSET Stores /\ reader[r].repair \in SUBSET Stores
           /\ reader[r].key \in Keys
BY Zenon DEF ReadersTypeOK, ReaderRecord

(* A round of questions. *)
LEMMA AskType ==
    ASSUME NEW group
    PROVE  /\ Ask(group) \in [Stores -> ReadReplies]
           /\ \A s \in Stores : Ask(group)[s] = IF s \in group THEN "asked" ELSE "unasked"
BY Zenon DEF Ask, ReadReplies

(* The stores an operation asks first. *)
LEMMA FirstRoundStores ==
    ASSUME NEW op \in {"get", "is_present", "scrub"}, NEW mode
    PROVE  /\ FirstRound(op, mode) \in SUBSET Stores
           /\ op # "scrub" => FirstRound(op, mode) \subseteq MainStores
           /\ op = "is_present" => FirstRound(op, mode) = MainStores
BY Zenon DEF FirstRound, Stores

(* An acknowledged put has a write quorum of stores behind it. *)
LEMMA AckedBehind ==
    ASSUME PutTypes, PutsOK, NEW p \in Puts, Acked(p)
    PROVE  \E Q \in SUBSET MainStores :
              Cardinality(Q) >= WriteQuorum /\ \A s \in Q : Present(put[p].key, s)
<1> DEFINE Q == Acknowledged(put[p].reply)
<1>1. Q \in SUBSET MainStores /\ Cardinality(Q) >= WriteQuorum
  BY Zenon DEF PutsOK, Acknowledged
<1>2. \A s \in Q : Present(put[p].key, s)
  BY Zenon DEF PutsOK, Acknowledged, Stores
<1> QED
  BY <1>1, <1>2, Zenon

(* The state and the result of a reader that sent a round. *)
LEMMA RoundRecord ==
    ASSUME NEW op, NEW asked
    PROVE  RoundState(asked) \in {"reading", "done"} /\ RoundResult(op, asked) \in Results
BY Zenon DEF RoundState, RoundResult, Results

(* A round that asks no store ends at once, and so do the loops over no    *)
(* answers: with an error for a get, with None for a scrub.                *)
LEMMA SentRound ==
    ASSUME NEW t, t.state = RoundState(t.asked), t.result = RoundResult(t.op, t.asked)
    PROVE  Concluded(t)
<1>1. CASE t.asked # {}
  BY <1>1, Zenon DEF RoundState, Concluded
<1>2. CASE t.asked = {}
  <2>1. t.state = "done" /\ t.result = IF t.op = "scrub" THEN "absent" ELSE "error"
    BY <1>2, Zenon DEF RoundState, RoundResult
  <2>2. {s \in {} : t.reply[s] = "none"} = {} /\ {s \in {} : t.reply[s] = "err"} = {}
    BY Zenon
  <2>3. LoopDone(t.op, {}, t.reply) /\ LoopResult(t.op, {}, t.reply) = "error"
    BY <2>2, Zenon DEF LoopDone, LoopResult
  <2>4. ScrubAbsent({}, t.reply) = "absent"
    BY <2>2, Zenon DEF ScrubAbsent
  <2> QED
    BY <1>2, <2>1, <2>3, <2>4, Zenon DEF Concluded
<1> QED
  BY <1>1, <1>2, Zenon

(* A read begins: its record says whom it asks, and that it is sure of an  *)
(* acknowledged put.                                                       *)
LEMMA StartReader ==
    ASSUME ReadsInv, NEW r \in Readers, NEW op \in {"get", "is_present", "scrub"},
           NEW mode \in {"SkipMissing", "Scrub", "PopulateIfAbsent", "ScrubIfAbsent"},
           NEW k \in Keys, Start(r, op, mode, k)
    PROVE  \E t \in ReaderRecord :
             /\ reader' = [reader EXCEPT ![r] = t]
             /\ ReaderOK(t) /\ Backed(t, blobs)
             /\ t.reply = Ask(FirstRound(op, mode))
<1> DEFINE asked == FirstRound(op, mode)
           sure == \E p \in Puts : put[p].key = k /\ Acked(p)
           t == [state |-> RoundState(asked), op |-> op, mode |-> mode, key |-> k, sure |-> sure,
                 asked |-> asked, reply |-> Ask(asked), repair |-> {}, result |-> RoundResult(op, asked)]
<1>1. reader' = [reader EXCEPT ![r] = t]
  BY Zenon DEF Start
<1>2. /\ asked \in SUBSET Stores
      /\ op # "scrub" => asked \subseteq MainStores
      /\ op = "is_present" => asked = MainStores
  BY FirstRoundStores, Zenon
<1>3. /\ Ask(asked) \in [Stores -> ReadReplies]
      /\ \A s \in Stores : Ask(asked)[s] = IF s \in asked THEN "asked" ELSE "unasked"
  BY AskType, Zenon
<1>4. sure \in BOOLEAN
  BY Zenon
<1>5. sure => \E Q \in SUBSET MainStores :
                Cardinality(Q) >= WriteQuorum /\ \A s \in Q : k \in blobs[s]
  BY AckedBehind, Zenon DEF ReadsInv, Present
<1> HIDE DEF asked, sure
<1>6. t \in ReaderRecord
  BY <1>2, <1>3, <1>4, RoundRecord, Zenon DEF ReaderRecord
<1>7. ReaderOK(t)
  <2>1. Consistent(t)
    BY <1>2, <1>3, RoundRecord, Zenon DEF Consistent
  <2>2. t.state = RoundState(t.asked) /\ t.result = RoundResult(t.op, t.asked)
    BY Zenon
  <2> HIDE DEF t
  <2>3. Concluded(t)
    BY <2>2, SentRound, Zenon
  <2> QED
    BY <2>1, <2>3, Zenon DEF ReaderOK
<1>8. Backed(t, blobs)
  BY <1>3, <1>5, Zenon DEF Backed, Stores
<1> QED
  BY <1>1, <1>6, <1>7, <1>8, Zenon DEF asked

(* The answer of one store is added to the ones there are; or it was the    *)
(* last one and the main stores are asked in a second round.                *)
Noticed(r, s, reply, t) ==
    /\ t.asked = reader[r].asked /\ t.reply = reply
    /\ inflight' = inflight - 1

AsksMain(r, s, t) ==
    /\ t.asked = MainStores \ disabled /\ t.reply = Ask(t.asked)
    /\ \A u \in Stores \ {s} : reader[r].reply[u] # "asked"
    /\ inflight' = inflight - 1 + Cardinality(t.asked)

SameRead(t, u) == t.op = u.op /\ t.mode = u.mode /\ t.key = u.key /\ t.sure = u.sure

(* An answer arrives: the reader notes it, returns, or goes on to the main *)
(* stores.                                                                 *)
LEMMA AnswerReader ==
    ASSUME ReadsInv, NEW r \in Readers, NEW s \in Stores, NEW said \in {"some", "none", "err"},
           reader[r].state = "reading", reader[r].reply[s] = "asked",
           Answer(r, s, [reader[r].reply EXCEPT ![s] = said])
    PROVE  \E t \in ReaderRecord :
             /\ reader' = [reader EXCEPT ![r] = t]
             /\ ReaderOK(t) /\ SameRead(t, reader[r])
             /\ \/ Noticed(r, s, [reader[r].reply EXCEPT ![s] = said], t)
                \/ AsksMain(r, s, t)
<1> DEFINE reply == [reader[r].reply EXCEPT ![s] = said]
           asked == reader[r].asked
           op == reader[r].op
           main == MainStores \ disabled
           old == reader[r]
<1>1. /\ old \in ReaderRecord /\ old.reply \in [Stores -> ReadReplies] /\ asked \in SUBSET Stores
      /\ reader \in [Readers -> ReaderRecord]
  BY ReaderFields, Zenon DEF ReadsInv, ReadersTypeOK
<1>2. reply \in [Stores -> ReadReplies]
  BY <1>1, Zenon DEF ReadReplies
<1>3. Consistent(old) /\ old.state = "reading"
  BY Zenon DEF ReadsInv, ReaderOK
<1>4. \A u \in Stores : reply[u] = "unasked" <=> u \notin asked
  BY <1>1, <1>3, Zenon DEF Consistent
<1> HIDE DEF reply
<1>5. ASSUME NEW t, SameRead(t, old), t.asked = asked, t.reply = reply, t.state # "idle"
      PROVE  Consistent(t)
  BY <1>3, <1>4, <1>5, Zenon DEF SameRead, Consistent
<1>6. ASSUME NEW t \in ReaderRecord, reader' = [reader EXCEPT ![r] = t], SameRead(t, old),
             t.asked = asked, t.reply = reply, t.state # "idle", Concluded(t), inflight' = inflight - 1
      PROVE  \E x \in ReaderRecord :
               /\ reader' = [reader EXCEPT ![r] = x]
               /\ ReaderOK(x) /\ SameRead(x, old)
               /\ Noticed(r, s, reply, x) \/ AsksMain(r, s, x)
  BY <1>5, <1>6, Zenon DEF ReaderOK, Noticed
<1>7. CASE op # "scrub"
  <2> DEFINE over == LoopDone(op, asked, reply)
             state == IF over THEN "done" ELSE "reading"
             result == IF over THEN LoopResult(op, asked, reply) ELSE "error"
             t == [old EXCEPT !.reply = reply, !.state = state, !.result = result]
  <2>1. reader' = [reader EXCEPT ![r] = t] /\ inflight' = inflight - 1
    BY <1>1, <1>7, Zenon DEF Answer, reply
  <2>2. LoopResult(op, asked, reply) \in Results
    BY Zenon DEF LoopResult, Results
  <2>3. state \in {"reading", "done"} /\ result \in Results
    BY <2>2, Zenon DEF Results
  <2>4. state = "done" => over /\ result = LoopResult(op, asked, reply)
    BY Zenon
  <2> HIDE DEF state, result, over
  <2>5. /\ t \in ReaderRecord /\ SameRead(t, old)
        /\ t.asked = asked /\ t.reply = reply /\ t.state = state /\ t.result = result
    BY <1>1, <1>2, <2>3, Zenon DEF ReaderRecord, SameRead
  <2> HIDE DEF t
  <2>6. Concluded(t)
    BY <1>7, <2>3, <2>4, <2>5, Zenon DEF Concluded, SameRead, over
  <2> QED
    BY <1>6, <2>1, <2>3, <2>5, <2>6, Zenon DEF reply
<1>8. CASE op = "scrub" /\ ~ \A u \in asked : reply[u] # "asked"
  <2> DEFINE t == [old EXCEPT !.reply = reply]
  <2>1. reader' = [reader EXCEPT ![r] = t] /\ inflight' = inflight - 1
    BY <1>1, <1>8, Zenon DEF Answer, reply
  <2>2. /\ t \in ReaderRecord /\ SameRead(t, old)
        /\ t.asked = asked /\ t.reply = reply /\ t.state = "reading"
    BY <1>1, <1>2, <1>3, Zenon DEF ReaderRecord, SameRead
  <2> HIDE DEF t
  <2> QED
    BY <1>6, <2>1, <2>2, Zenon DEF reply, Concluded
<1>9. CASE op = "scrub" /\ (\A u \in asked : reply[u] # "asked") /\ SecondRound(r, reply)
  <2> DEFINE t == [old EXCEPT !.asked = main, !.reply = Ask(main),
                              !.state = RoundState(main), !.result = RoundResult(op, main)]
  <2>1. reader' = [reader EXCEPT ![r] = t] /\ inflight' = inflight - 1 + Cardinality(main)
    BY <1>1, <1>9, Zenon DEF Answer, reply
  <2>2. /\ Ask(main) \in [Stores -> ReadReplies] /\ main \in SUBSET Stores
        /\ \A u \in Stores : Ask(main)[u] = IF u \in main THEN "asked" ELSE "unasked"
    BY AskType, Zenon DEF Stores
  <2>3. \A u \in Stores \ {s} : old.reply[u] # "asked"
    BY <1>1, <1>3, <1>9, Zenon DEF Consistent, reply
  <2> HIDE DEF main
  <2>4. /\ t \in ReaderRecord /\ SameRead(t, old)
        /\ t.asked = main /\ t.reply = Ask(main)
        /\ t.state = RoundState(t.asked) /\ t.result = RoundResult(t.op, t.asked)
    BY <1>1, <1>3, <2>2, RoundRecord, Zenon DEF ReaderRecord, SameRead
  <2> HIDE DEF t
  <2>5. ReaderOK(t)
    <3>1. Consistent(t)
      BY <1>9, <2>2, <2>4, RoundRecord, Zenon DEF Consistent, SameRead
    <3>2. Concluded(t)
      BY <2>4, SentRound, Zenon
    <3> QED
      BY <3>1, <3>2, Zenon DEF ReaderOK
  <2>6. AsksMain(r, s, t)
    BY <2>1, <2>3, <2>4, Zenon DEF AsksMain, main
  <2> QED
    BY <2>1, <2>4, <2>5, <2>6, Zenon
<1>10. CASE op = "scrub" /\ (\A u \in asked : reply[u] # "asked") /\ ~SecondRound(r, reply)
  <2>1. ScrubFinish(r, asked, reply) /\ inflight' = inflight - 1
    BY <1>10, Zenon DEF Answer, reply
  <2> DEFINE found == \E u \in asked : reply[u] = "some"
             end(result) == [old EXCEPT !.state = "done", !.reply = reply, !.result = result]
             repair == NeedsRepair(old.mode, ScrubMissing(old.mode, asked, reply))
  <2>2. ASSUME NEW result \in Results, reader' = [reader EXCEPT ![r] = end(result)],
               result = "absent" => /\ ScrubAbsent(asked, reply) = "absent"
                                    /\ \A u \in asked : reply[u] \in {"none", "err"}
        PROVE  \E t \in ReaderRecord :
                 /\ reader' = [reader EXCEPT ![r] = t]
                 /\ ReaderOK(t) /\ SameRead(t, old)
                 /\ Noticed(r, s, reply, t) \/ AsksMain(r, s, t)
    <3> DEFINE t == end(result)
    <3>1. /\ t \in ReaderRecord /\ SameRead(t, old)
          /\ t.asked = asked /\ t.reply = reply /\ t.state = "done" /\ t.result = result
      BY <1>1, <1>2, Zenon DEF ReaderRecord, SameRead
    <3>2. reader' = [reader EXCEPT ![r] = t]
      BY <2>2, Zenon
    <3> HIDE DEF t
    <3>3. Concluded(t)
      BY <2>2, <3>1, <1>10, Zenon DEF Concluded, SameRead
    <3> QED
      BY <1>6, <2>1, <3>1, <3>2, <3>3, Zenon
  <2> HIDE DEF end
  <2>3. CASE found /\ reader' = [reader EXCEPT ![r] = end("value")]
    <3>1. "value" \in Results /\ "value" # "absent"
      BY Zenon DEF Results
    <3> QED
      BY <2>2, <2>3, <3>1, Zenon DEF reply
  <2>4. CASE found /\ reader' = [reader EXCEPT ![r] =
                        [old EXCEPT !.state = "repairing", !.reply = reply, !.repair = repair]]
    <3> DEFINE t == [old EXCEPT !.state = "repairing", !.reply = reply, !.repair = repair]
    <3>1. repair \in SUBSET Stores
      BY <1>1, Zenon DEF NeedsRepair, ScrubMissing, Stores
    <3> HIDE DEF repair
    <3>2. /\ t \in ReaderRecord /\ SameRead(t, old)
          /\ t.asked = asked /\ t.reply = reply /\ t.state = "repairing"
      BY <1>1, <1>2, <3>1, Zenon DEF ReaderRecord, SameRead
    <3>3. reader' = [reader EXCEPT ![r] = t]
      BY <2>4, Zenon
    <3> HIDE DEF t
    <3>4. Concluded(t)
      BY <1>10, <3>2, Zenon DEF Concluded, SameRead
    <3>5. t.state # "idle"
      BY <3>2, Zenon
    <3> QED
      BY <1>6, <2>1, <3>2, <3>3, <3>4, <3>5, Zenon DEF reply
  <2>5. CASE ~found /\ reader' = [reader EXCEPT ![r] = end(ScrubAbsent(asked, reply))]
    <3>1. \A u \in asked : reply[u] \in {"none", "err"}
      BY <1>1, <1>2, <1>4, <1>10, <2>5, Zenon DEF ReadReplies
    <3>2. ScrubAbsent(asked, reply) \in Results
      BY Zenon DEF ScrubAbsent, Results
    <3> QED
      BY <2>2, <2>5, <3>1, <3>2, Zenon DEF reply
  <2>6. \/ found /\ reader' = [reader EXCEPT ![r] = end("value")]
        \/ found /\ reader' = [reader EXCEPT ![r] =
              [old EXCEPT !.state = "repairing", !.reply = reply, !.repair = repair]]
        \/ ~found /\ reader' = [reader EXCEPT ![r] = end(ScrubAbsent(asked, reply))]
    BY <2>1, Zenon DEF ScrubFinish, end
  <2> QED
    BY <2>3, <2>4, <2>5, <2>6, Zenon DEF reply
<1> QED
  BY <1>7, <1>8, <1>9, <1>10, Zenon DEF reply

(* A repair changes nothing that a reader concluded but its last step. *)
LEMMA RepairReader ==
    ASSUME ReadsInv, NEW r \in Readers, (\E s \in Stores : Repair(r, s)) \/ RepairErr(r)
    PROVE  \E t \in ReaderRecord :
             /\ reader' = [reader EXCEPT ![r] = t]
             /\ ReaderOK(t) /\ SameRead(t, reader[r]) /\ t.reply = reader[r].reply
             /\ inflight' = inflight
<1> DEFINE old == reader[r]
<1>1. /\ old \in ReaderRecord /\ old.repair \in SUBSET Stores /\ old.state = "repairing"
      /\ reader \in [Readers -> ReaderRecord] /\ old.result \in Results
  BY ReaderFields, Zenon DEF ReadsInv, ReadersTypeOK, Repair, RepairErr, ReaderRecord
<1>2. Consistent(old) /\ old.op = "scrub"
  BY <1>1, Zenon DEF ReadsInv, ReaderOK, Concluded
<1>3. ASSUME NEW repair \in SUBSET Stores, NEW state \in {"repairing", "done"},
             NEW result \in Results, state = "done" => result \in {"value", "error"},
             reader' = [reader EXCEPT ![r] =
               [old EXCEPT !.repair = repair, !.state = state, !.result = result]]
      PROVE  \E t \in ReaderRecord :
               /\ reader' = [reader EXCEPT ![r] = t]
               /\ ReaderOK(t) /\ SameRead(t, reader[r]) /\ t.reply = reader[r].reply
  <2> DEFINE t == [old EXCEPT !.repair = repair, !.state = state, !.result = result]
  <2>1. /\ t \in ReaderRecord /\ SameRead(t, old) /\ t.reply = old.reply /\ t.asked = old.asked
        /\ t.state = state /\ t.result = result
    BY <1>1, <1>3, Zenon DEF ReaderRecord, SameRead
  <2>2. reader' = [reader EXCEPT ![r] = t]
    BY <1>3, Zenon
  <2> HIDE DEF t
  <2>3. ReaderOK(t)
    BY <1>2, <1>3, <2>1, Zenon DEF ReaderOK, Consistent, Concluded, SameRead
  <2> QED
    BY <2>1, <2>2, <2>3, Zenon
<1>4. ASSUME NEW s \in Stores, Repair(r, s)
      PROVE  \E t \in ReaderRecord :
               /\ reader' = [reader EXCEPT ![r] = t]
               /\ ReaderOK(t) /\ SameRead(t, reader[r]) /\ t.reply = reader[r].reply
  <2> DEFINE repair == old.repair \ {s}
             state == IF old.repair = {s} THEN "done" ELSE "repairing"
             result == IF old.repair = {s} THEN "value" ELSE old.result
  <2>1. reader' = [reader EXCEPT ![r] =
          [old EXCEPT !.repair = repair, !.state = state, !.result = result]]
    BY <1>1, <1>4, Zenon DEF Repair
  <2>2. /\ repair \in SUBSET Stores /\ state \in {"repairing", "done"} /\ result \in Results
        /\ state = "done" => result \in {"value", "error"}
    BY <1>1, Zenon DEF Results
  <2> HIDE DEF repair, state, result
  <2> QED
    BY <2>1, <2>2, <1>3, Zenon
<1>5. ASSUME RepairErr(r)
      PROVE  \E t \in ReaderRecord :
               /\ reader' = [reader EXCEPT ![r] = t]
               /\ ReaderOK(t) /\ SameRead(t, reader[r]) /\ t.reply = reader[r].reply
  <2>1. reader' = [reader EXCEPT ![r] =
          [old EXCEPT !.repair = {}, !.state = "done", !.result = "error"]]
    BY <1>1, <1>5, Zenon DEF RepairErr
  <2>2. "error" \in Results /\ {} \in SUBSET Stores
    BY Zenon DEF Results
  <2> QED
    BY <2>1, <2>2, <1>3, Zenon
<1>6. inflight' = inflight
  BY Zenon DEF Repair, RepairErr
<1> QED
  BY <1>4, <1>5, <1>6, Zenon

-----------------------------------------------------------------------------
(* The steps. *)

(* What a step of one reader leaves to show about it. *)
LEMMA OneReader ==
    ASSUME ReadsInv, NEW r \in Readers, NEW t \in ReaderRecord,
           reader' = [reader EXCEPT ![r] = t], ReaderOK(t), Backed(t, blobs'),
           disabled' \in KnobSettings, \A s \in Stores : blobs[s] \subseteq blobs'[s]
    PROVE  /\ ReadersTypeOK'
           /\ \A q \in Readers : ReaderOK(reader'[q]) /\ Backed(reader'[q], blobs')
<1>1. reader \in [Readers -> ReaderRecord]
  BY Zenon DEF ReadsInv, ReadersTypeOK
<1>2. ReadersTypeOK'
  BY <1>1, Zenon DEF ReadersTypeOK
<1>3. ASSUME NEW q \in Readers, q # r PROVE ReaderOK(reader'[q]) /\ Backed(reader'[q], blobs')
  BY <1>1, <1>3, Zenon DEF ReadsInv, Backed, Stores
<1>4. ReaderOK(reader'[r]) /\ Backed(reader'[r], blobs')
  BY <1>1, Zenon
<1> QED
  BY <1>2, <1>3, <1>4, Zenon

(* Only what the reader itself waits for changes with its step. *)
LEMMA WaitingOf ==
    ASSUME ReadsInv, NEW r \in Readers, NEW t \in ReaderRecord, reader' = [reader EXCEPT ![r] = t]
    PROVE  /\ Waiting \subseteq Readers \X Stores /\ Waiting' \subseteq Readers \X Stores
           /\ \A q \in Readers \ {r}, s \in Stores : <<q, s>> \in Waiting' <=> <<q, s>> \in Waiting
           /\ \A s \in Stores : <<r, s>> \in Waiting <=> reader[r].reply[s] = "asked"
           /\ \A s \in Stores : <<r, s>> \in Waiting' <=> t.reply[s] = "asked"
<1>1. reader \in [Readers -> ReaderRecord]
  BY Zenon DEF ReadsInv, ReadersTypeOK
<1>2. ASSUME NEW q \in Readers, NEW s \in Stores
      PROVE  /\ <<q, s>> \in Waiting <=> reader[q].reply[s] = "asked"
             /\ <<q, s>> \in Waiting' <=> reader'[q].reply[s] = "asked"
  BY Zenon DEF Waiting
<1>3. Waiting \subseteq Readers \X Stores /\ Waiting' \subseteq Readers \X Stores
  BY Zenon DEF Waiting
<1>4. reader'[r] = t /\ \A q \in Readers \ {r} : reader'[q] = reader[q]
  BY <1>1, Zenon
<1> QED
  BY <1>2, <1>3, <1>4, ZenonT(30)

(* The counter follows the requests that are waited for. *)
LEMMA CountAsked ==
    ASSUME ReadsInv, NEW r \in Readers, NEW t \in ReaderRecord, NEW A \in SUBSET Stores,
           reader' = [reader EXCEPT ![r] = t], t.reply = Ask(A),
           \A s \in Stores : reader[r].reply[s] # "asked", inflight' = inflight + Cardinality(A)
    PROVE  Counted'
<1>1. reader \in [Readers -> ReaderRecord]
  BY Zenon DEF ReadsInv, ReadersTypeOK
<1>2. \A s \in Stores : t.reply[s] = IF s \in A THEN "asked" ELSE "unasked"
  BY AskType, Zenon
<1>w. /\ Waiting \subseteq Readers \X Stores /\ Waiting' \subseteq Readers \X Stores
      /\ \A q \in Readers \ {r}, u \in Stores : <<q, u>> \in Waiting' <=> <<q, u>> \in Waiting
      /\ \A u \in Stores : <<r, u>> \in Waiting <=> reader[r].reply[u] = "asked"
      /\ \A u \in Stores : <<r, u>> \in Waiting' <=> t.reply[u] = "asked"
  BY WaitingOf, Zenon
<1>3. Waiting \subseteq Waiting'
  BY <1>w
<1>4. \A a \in A : <<r, a>> \in Waiting' /\ <<r, a>> \notin Waiting
  BY <1>2, <1>w, Zenon
<1>5. \A v \in Waiting' : v \notin Waiting => \E a \in A : v = <<r, a>>
  BY <1>2, <1>w
<1>6. IsFiniteSet(A) /\ IsFiniteSet(Waiting) /\ inflight = Cardinality(Waiting)
  BY FiniteStores, Zenon DEF ReadsInv, Counted
<1>7. IsFiniteSet(Waiting') /\ Cardinality(Waiting') = Cardinality(Waiting) + Cardinality(A)
  <2>1. Adds(Waiting', Waiting, r, A)
    BY <1>3, <1>4, <1>5, Zenon DEF Adds
  <2> QED
    BY <1>6, <2>1, CountAdd, Zenon
<1> QED
  BY <1>6, <1>7, Zenon DEF Counted

(* ... and inflight_ops_counter still counts the answers to come, and      *)
(* those dropped.                                                          *)
LEMMA CountAnswered ==
    ASSUME ReadsInv, NEW r \in Readers, NEW t \in ReaderRecord, NEW s \in Stores,
           NEW said \in {"some", "none", "err"}, reader[r].reply[s] = "asked",
           reader' = [reader EXCEPT ![r] = t],
           \/ Noticed(r, s, [reader[r].reply EXCEPT ![s] = said], t)
           \/ AsksMain(r, s, t)
    PROVE  Counted'
<1>1. /\ reader \in [Readers -> ReaderRecord] /\ reader[r].reply \in [Stores -> ReadReplies]
      /\ IsFiniteSet(Waiting) /\ inflight = Cardinality(Waiting)
  BY ReaderFields, Zenon DEF ReadsInv, ReadersTypeOK, Counted
<1>w. /\ Waiting \subseteq Readers \X Stores /\ Waiting' \subseteq Readers \X Stores
      /\ \A q \in Readers \ {r}, u \in Stores : <<q, u>> \in Waiting' <=> <<q, u>> \in Waiting
      /\ \A u \in Stores : <<r, u>> \in Waiting <=> reader[r].reply[u] = "asked"
      /\ \A u \in Stores : <<r, u>> \in Waiting' <=> t.reply[u] = "asked"
  BY WaitingOf, Zenon
<1>2. <<r, s>> \in Waiting
  BY Zenon DEF Waiting
<1> DEFINE rest == Waiting \ {<<r, s>>}
<1>3. IsFiniteSet(rest) /\ Cardinality(rest) = Cardinality(Waiting) - 1
  BY <1>1, <1>2, FS_RemoveElement, Zenon
<1>4. CASE Noticed(r, s, [reader[r].reply EXCEPT ![s] = said], t)
  <2>1. Waiting' = rest
    <3> DEFINE reply == [reader[r].reply EXCEPT ![s] = said]
    <3>1. t.reply = reply /\ \A u \in Stores : reply[u] = "asked" <=> reader[r].reply[u] = "asked" /\ u # s
      BY <1>1, <1>4, Zenon DEF Noticed
    <3> HIDE DEF reply
    <3>2. Waiting' \subseteq Readers \X Stores /\ rest \subseteq Readers \X Stores
      BY <1>w, Zenon
    <3>3. ASSUME NEW q \in Readers, NEW u \in Stores
          PROVE  <<q, u>> \in Waiting' <=> <<q, u>> \in rest
      BY <3>1, <1>w, Zenon
    <3> HIDE DEF rest
    <3> QED
      BY <3>2, <3>3
  <2> QED
    BY <1>1, <1>3, <1>4, <2>1, Zenon DEF Counted, Noticed
<1>5. CASE AsksMain(r, s, t)
  <2> DEFINE A == t.asked
  <2>1. A \in SUBSET Stores /\ IsFiniteSet(A)
    BY <1>5, FiniteStores, Zenon DEF AsksMain, Stores
  <2>2. \A u \in Stores : t.reply[u] = IF u \in A THEN "asked" ELSE "unasked"
    BY <1>5, AskType DEF AsksMain
  <2>3. \A u \in Stores : reader[r].reply[u] = "asked" <=> u = s
    BY <1>5, Zenon DEF AsksMain
  <2>4. rest \subseteq Waiting'
    BY <2>3, <1>w
  <2>5. inflight' = inflight - 1 + Cardinality(A)
    BY <1>5, Zenon DEF AsksMain
  <2> HIDE DEF A
  <2>6. /\ \A a \in A : <<r, a>> \in Waiting' /\ <<r, a>> \notin rest
        /\ \A v \in Waiting' : v \notin rest => \E a \in A : v = <<r, a>>
    BY <2>1, <2>2, <2>3, <1>w
  <2> HIDE DEF rest
  <2>7. Adds(Waiting', rest, r, A)
    BY <2>4, <2>6, Zenon DEF Adds
  <2>8. IsFiniteSet(Waiting') /\ Cardinality(Waiting') = Cardinality(rest) + Cardinality(A)
    BY <1>3, <2>1, <2>7, CountAdd, Zenon
  <2>9. Cardinality(Waiting) \in Nat /\ Cardinality(A) \in Nat
    BY <1>1, <2>1, FS_CardinalityType, Zenon
  <2> QED
    BY <1>1, <1>3, <2>5, <2>8, <2>9, Zenon DEF Counted
<1> QED
  BY <1>4, <1>5, Zenon

(* What holds of a reader's quorum holds after its step: the stores of the  *)
(* quorum have the key, so the one that answers does not deny it.           *)
LEMMA BackedStays ==
    ASSUME ReadsInv, NEW r \in Readers, NEW t \in ReaderRecord, SameRead(t, reader[r]),
           \A s \in Stores : blobs[s] \subseteq blobs'[s],
           \A s \in Stores : t.reply[s] = "none" => reader[r].reply[s] = "none" \/ ~Present(t.key, s)
    PROVE  Backed(t, blobs')
<1> SUFFICES ASSUME t.sure PROVE Backed(t, blobs')
  BY Zenon DEF Backed
<1>1. PICK Q \in SUBSET MainStores :
        /\ Cardinality(Q) >= WriteQuorum
        /\ \A s \in Q : t.key \in blobs[s] /\ reader[r].reply[s] # "none"
  BY Zenon DEF ReadsInv, Backed, SameRead
<1>2. \A s \in Q : t.key \in blobs'[s] /\ t.reply[s] # "none"
  BY <1>1, Zenon DEF Present, Stores
<1> QED
  BY <1>1, <1>2, Zenon DEF Backed

(* One step of one reader. *)
LEMMA ReadStepInv ==
    ASSUME ReadsInv, NEW r \in Readers, ReadStep(r)
    PROVE  ReadsInv'
<1>1. /\ PutTypes /\ PutsOK /\ ReadersTypeOK
      /\ blobs \in [Stores -> SUBSET Keys] /\ disabled \in KnobSettings
      /\ reader[r] \in ReaderRecord /\ reader[r].reply \in [Stores -> ReadReplies]
      /\ reader[r].key \in Keys /\ reader[r].repair \in SUBSET Stores
  BY ReaderFields, Zenon DEF ReadsInv, PutTypes, StorageTypeOK, ReadersTypeOK
<1>2. ASSUME UNCHANGED <<wal, put, disabled>>, faults' \in 0 .. MaxFaults,
             blobs' \in [Stores -> SUBSET Keys], \A s \in Stores : blobs[s] \subseteq blobs'[s],
             NEW t \in ReaderRecord, reader' = [reader EXCEPT ![r] = t],
             ReaderOK(t), Backed(t, blobs'), Counted'
      PROVE  ReadsInv'
  <2>1. PutTypes'
    BY <1>1, <1>2, Zenon DEF PutTypes, StorageTypeOK, PutTypeOK
  <2>2. \A p \in Puts : put[p].landed \subseteq Stores
    BY <1>1, Zenon DEF PutTypes, PutTypeOK, PutRecord
  <2>3. PutsOK'
    BY <1>1, <1>2, <2>2, Zenon DEF PutsOK, Present, Acked
  <2>4. ReadersTypeOK' /\ \A q \in Readers : ReaderOK(reader'[q]) /\ Backed(reader'[q], blobs')
    BY <1>1, <1>2, OneReader, Zenon
  <2> QED
    BY <1>2, <2>1, <2>3, <2>4, Zenon DEF ReadsInv
<1>3. faults \in 0 .. MaxFaults /\ (Fault => faults' \in 0 .. MaxFaults)
  BY <1>1, StorageAssumption DEF PutTypes, StorageTypeOK, Fault
<1>4. ASSUME NEW op \in {"get", "is_present", "scrub"}, NEW k \in Keys,
             NEW mode \in {"SkipMissing", "Scrub", "PopulateIfAbsent", "ScrubIfAbsent"},
             Start(r, op, mode, k)
      PROVE  ReadsInv'
  <2>1. PICK t \in ReaderRecord :
          /\ reader' = [reader EXCEPT ![r] = t]
          /\ ReaderOK(t) /\ Backed(t, blobs)
          /\ t.reply = Ask(FirstRound(op, mode))
    BY <1>4, StartReader
  <2>2. UNCHANGED <<blobs, wal, faults, put, disabled>>
    BY <1>4, Zenon DEF Start
  <2>3. \A s \in Stores : reader[r].reply[s] # "asked"
    BY <1>4, Zenon DEF Start, ReadsInv, ReaderOK, Consistent
  <2>4. inflight' = inflight + Cardinality(FirstRound(op, mode)) /\ FirstRound(op, mode) \in SUBSET Stores
    BY <1>4, FirstRoundStores, Zenon DEF Start
  <2>5. Counted'
    BY <2>1, <2>3, <2>4, CountAsked, Zenon
  <2> QED
    BY <1>1, <1>2, <1>3, <2>1, <2>2, <2>5, Zenon
<1>5. ASSUME NEW s \in Stores, NEW said \in {"some", "none", "err"},
             reader[r].state = "reading", reader[r].reply[s] = "asked",
             said = "none" => ~Present(reader[r].key, s),
             Answer(r, s, [reader[r].reply EXCEPT ![s] = said]),
             UNCHANGED <<blobs, wal, put, disabled>>, faults' \in 0 .. MaxFaults
      PROVE  ReadsInv'
  <2> DEFINE reply == [reader[r].reply EXCEPT ![s] = said]
  <2>1. PICK t \in ReaderRecord :
          /\ reader' = [reader EXCEPT ![r] = t]
          /\ ReaderOK(t) /\ SameRead(t, reader[r])
          /\ Noticed(r, s, reply, t) \/ AsksMain(r, s, t)
    BY <1>5, AnswerReader, Zenon
  <2>2. Counted'
    BY <1>5, <2>1, CountAnswered, Zenon
  <2>3. \A u \in Stores : t.reply[u] = "none" => reader[r].reply[u] = "none" \/ ~Present(t.key, u)
    <3>1. CASE Noticed(r, s, reply, t)
      BY <1>1, <1>5, <2>1, <3>1, Zenon DEF Noticed, SameRead
    <3>2. CASE AsksMain(r, s, t)
      BY <3>2, AskType DEF AsksMain
    <3> QED
      BY <2>1, <3>1, <3>2, Zenon
  <2>4. Backed(t, blobs')
    BY <1>5, <2>1, <2>3, BackedStays, Zenon
  <2> QED
    BY <1>1, <1>2, <1>5, <2>1, <2>2, <2>4, Zenon
<1>6. ASSUME (\E s \in Stores : Repair(r, s)) \/ RepairErr(r) PROVE ReadsInv'
  <2>1. PICK t \in ReaderRecord :
          /\ reader' = [reader EXCEPT ![r] = t]
          /\ ReaderOK(t) /\ SameRead(t, reader[r]) /\ t.reply = reader[r].reply
          /\ inflight' = inflight
    BY <1>6, RepairReader, Zenon
  <2>2. /\ UNCHANGED <<wal, put, disabled>> /\ faults' \in 0 .. MaxFaults
        /\ blobs' \in [Stores -> SUBSET Keys] /\ \A s \in Stores : blobs[s] \subseteq blobs'[s]
    <3>1. ASSUME NEW s \in Stores, Repair(r, s)
          PROVE  /\ UNCHANGED <<wal, put, disabled, faults>>
                 /\ blobs' = [blobs EXCEPT ![s] = @ \cup {reader[r].key}]
      BY <3>1, Zenon DEF Repair
    <3>2. ASSUME RepairErr(r)
          PROVE  /\ UNCHANGED <<wal, put, disabled>> /\ Fault
                 /\ \E done \in SUBSET reader[r].repair :
                      blobs' = [s \in Stores |-> IF s \in done THEN blobs[s] \cup {reader[r].key}
                                                             ELSE blobs[s]]
      BY <3>2, Zenon DEF RepairErr
    <3>3. CASE \E s \in Stores : Repair(r, s)
      BY <1>1, <1>3, <3>1, <3>3
    <3>4. CASE RepairErr(r)
      BY <1>1, <1>3, <3>2, <3>4, Zenon
    <3> QED
      BY <1>6, <3>3, <3>4, Zenon
  <2>3. Waiting' = Waiting
    <3>1. \A q \in Readers : reader'[q].reply = reader[q].reply
      BY <1>1, <2>1, Zenon DEF ReadersTypeOK
    <3> QED
      BY <3>1, Zenon DEF Waiting
  <2>4. Counted'
    BY <2>1, <2>3, Zenon DEF Counted, ReadsInv
  <2>5. Backed(t, blobs')
    BY <2>1, <2>2, BackedStays, Zenon
  <2> QED
    BY <1>2, <2>1, <2>2, <2>4, <2>5, Zenon
<1>7. ASSUME NEW s \in Stores, ReadReply(r, s) PROVE ReadsInv'
  <2> DEFINE said == IF Present(reader[r].key, s) THEN "some" ELSE "none"
  <2>1. /\ reader[r].state = "reading" /\ reader[r].reply[s] = "asked"
        /\ Answer(r, s, [reader[r].reply EXCEPT ![s] = said])
        /\ UNCHANGED <<blobs, wal, faults, put, disabled>>
    BY <1>7, Zenon DEF ReadReply
  <2>2. said \in {"some", "none", "err"} /\ (said = "none" => ~Present(reader[r].key, s))
    BY Zenon
  <2> HIDE DEF said
  <2> QED
    BY <1>3, <1>5, <2>1, <2>2, Zenon
<1>8. ASSUME NEW s \in Stores, ReadErr(r, s) PROVE ReadsInv'
  BY <1>3, <1>5, <1>8, Zenon DEF ReadErr
<1> QED
  BY <1>4, <1>6, <1>7, <1>8, ReadsAssumption DEF ReadStep

(* A step of a put. *)
LEMMA PutStepInv ==
    ASSUME ReadsInv, NEW p \in Puts, PutStep(p, {}), UNCHANGED <<disabled, reader, inflight>>
    PROVE  ReadsInv'
<1>1. PutTypes' /\ PutsOK'
  BY PutStepTypes, PutsOKStep, Zenon DEF ReadsInv
<1>2. \A s \in Stores : blobs[s] \subseteq blobs'[s]
  BY PutBlobsGrow, Zenon DEF ReadsInv
<1>3. \A r \in Readers : Backed(reader[r], blobs')
  BY <1>2, Zenon DEF ReadsInv, Backed, Stores
<1> QED
  BY <1>1, <1>3, Zenon DEF ReadsInv, ReadersTypeOK, Counted, Waiting

(* Nothing is written and nobody reads. *)
LEMMA ReadsInitInv == ReadsInit => ReadsInv
<1> SUFFICES ASSUME ReadsInit PROVE ReadsInv
  BY Zenon
<1> USE StorageAssumption, MultiplexAssumption DEF ReadsInit
<1>1. PutTypes /\ PutsOK
  BY PutInitTypes, PutInitOK, Zenon
<1> DEFINE t == [state |-> "idle", op |-> "get", mode |-> "Scrub", key |-> CHOOSE k \in Keys : TRUE,
                 sure |-> FALSE, asked |-> {}, reply |-> Ask({}), repair |-> {}, result |-> "error"]
<1>2. reader = [r \in Readers |-> t]
  BY Zenon
<1>3. /\ Ask({}) \in [Stores -> ReadReplies] /\ \A s \in Stores : Ask({})[s] = "unasked"
      /\ (CHOOSE k \in Keys : TRUE) \in Keys
  BY AskType, Zenon
<1>4. t \in ReaderRecord /\ ReaderOK(t) /\ Backed(t, blobs)
  BY <1>3, Zenon DEF ReaderRecord, Results, ReaderOK, Consistent, Concluded, Backed
<1>5. t.reply = Ask({})
  BY Zenon
<1> HIDE DEF t
<1>6. Waiting = {}
  <2>1. ASSUME NEW w \in Waiting PROVE FALSE
    <3>1. w[1] \in Readers /\ w[2] \in Stores /\ reader[w[1]].reply[w[2]] = "asked"
      BY Zenon DEF Waiting
    <3> QED
      BY <1>2, <1>3, <1>5, <3>1, Zenon
  <2> QED
    BY <2>1, Zenon
<1>7. Counted
  BY <1>6, FS_EmptySet, Zenon DEF Counted
<1> QED
  BY <1>1, <1>2, <1>4, <1>7, Zenon DEF ReadsInv, ReadersTypeOK

(* The invariant of reads next to puts, on which the four theorems rest. *)
LEMMA ReadsInvariant == ReadsSpec => []ReadsInv
<1>1. ReadsInv /\ [ReadsNext]_readsVars => ReadsInv'
  <2> SUFFICES ASSUME ReadsInv, [ReadsNext]_readsVars PROVE ReadsInv'
    BY Zenon
  <2>1. ASSUME NEW p \in Puts, PutStep(p, {}) /\ UNCHANGED <<disabled, reader, inflight>>
        PROVE  ReadsInv'
    BY <2>1, PutStepInv, Zenon
  <2>2. ASSUME NEW r \in Readers, ReadStep(r) PROVE ReadsInv'
    BY <2>2, ReadStepInv, Zenon
  <2>3. ASSUME SetKnob \/ UNCHANGED readsVars PROVE ReadsInv'
    BY <2>3, Zenon DEF SetKnob, readsVars, ReadsInv, PutTypes, StorageTypeOK, PutTypeOK, PutsOK, Present,
                Acked, ReadersTypeOK, Counted, Waiting
  <2> QED
    BY <2>1, <2>2, <2>3, Zenon DEF ReadsNext
<1> QED
  BY ReadsInitInv, <1>1, PTL DEF ReadsSpec

-----------------------------------------------------------------------------
(* The theorems. *)

(* What the answers say, and what the loops make of them. *)
LEMMA LoopValues ==
    ASSUME NEW op, NEW asked, NEW reply
    PROVE  /\ (\E s \in asked : reply[s] = "some") => LoopResult(op, asked, reply) = "value"
           /\ LoopResult(op, asked, reply) = "absent" =>
                Cardinality({s \in asked : reply[s] = "none"}) >= AbsentQuorum(asked, op)
           /\ Cardinality({s \in asked : reply[s] = "none"}) >= AbsentQuorum(asked, op) =>
                {s \in asked : reply[s] = "none"} = {} \/ LoopResult(op, asked, reply) \in {"value", "absent"}
BY Zenon DEF LoopResult

(* The fields of puts and reads keep their types; in particular the count   *)
(* of requests in flight never falls below zero, although reads return      *)
(* without waiting for every answer.                                        *)
THEOREM ReadsTypeCorrect == ReadsSpec => []ReadsTypeOK
<1>1. ReadsInv => ReadsTypeOK
  BY FS_CardinalityType, Zenon DEF ReadsInv, PutTypes, ReadersTypeOK, Counted, ReadsTypeOK
<1> QED
  BY ReadsInvariant, <1>1, PTL

(* A get or is_present that began after a put of its key was answered Ok,   *)
(* and asked at least a read quorum of stores, never reports the key        *)
(* absent, however many stores there are, whatever the quorum configured.   *)
THEOREM ReadsFindWrites == ReadsSpec => []ReadYourWrites
<1>1. ReadsInv => ReadYourWrites
  <2> SUFFICES ASSUME ReadsInv, NEW r \in Readers, reader[r].state = "done", reader[r].sure,
                      reader[r].op \in {"get", "is_present"},
                      Cardinality(reader[r].asked) >= ReadQuorum, reader[r].result = "absent"
               PROVE  FALSE
    BY Zenon DEF ReadYourWrites
  <2> DEFINE t == reader[r]
             R == {s \in t.asked : t.reply[s] = "none"}
  <2>1. t.asked \subseteq MainStores /\ LoopResult(t.op, t.asked, t.reply) = "absent"
    BY Zenon DEF ReadsInv, ReaderOK, Consistent, Concluded
  <2>2. Cardinality(R) >= AbsentQuorum(t.asked, t.op)
    BY <2>1, LoopValues, Zenon
  <2>3. R \in SUBSET MainStores /\ Cardinality(t.asked) \in Nat
    BY <2>1, FiniteStores, Zenon DEF Stores
  <2>4. AbsentQuorum(t.asked, t.op) = ReadQuorum
    BY <2>3, QuorumNumbers DEF AbsentQuorum
  <2>5. PICK Q \in SUBSET MainStores :
          Cardinality(Q) >= WriteQuorum /\ \A s \in Q : t.reply[s] # "none"
    BY Zenon DEF ReadsInv, Backed
  <2>6. Cardinality(R) >= ReadQuorum
    BY <2>2, <2>4, Zenon
  <2>7. Q \cap R # {}
    <3> HIDE DEF R
    <3> QED BY <2>3, <2>5, <2>6, QuorumsMeet, Zenon
  <2> QED
    BY <2>5, <2>7, Zenon
<1> QED
  BY ReadsInvariant, <1>1, PTL

(* A get or is_present that returns an error, or "unknown", met a store     *)
(* that failed, however many stores disable_blobstore_reads names, unless   *)
(* it names every main store and there was none to ask.                     *)
THEOREM UndecidedMetFailure == ReadsSpec => []UndecidedOnlyOnFailure
<1>1. ReadsInv => UndecidedOnlyOnFailure
  <2> SUFFICES ASSUME ReadsInv, NEW r \in Readers, reader[r].state = "done",
                      reader[r].op \in {"get", "is_present"},
                      reader[r].result \in {"error", "unknown"}, Said(r, Stores, "err") = {},
                      reader[r].asked # {}
               PROVE  FALSE
    BY Zenon DEF UndecidedOnlyOnFailure
  <2> DEFINE t == reader[r]
             R == {s \in t.asked : t.reply[s] = "none"}
  <2>1. /\ t.reply \in [Stores -> ReadReplies] /\ t.asked \subseteq Stores
        /\ t.op = "is_present" => t.asked = MainStores
        /\ \A s \in Stores : t.reply[s] = "unasked" <=> s \notin t.asked
        /\ LoopDone(t.op, t.asked, t.reply) /\ t.result = LoopResult(t.op, t.asked, t.reply)
    BY ReaderFields, Zenon DEF ReadsInv, ReaderOK, Consistent, Concluded
  <2>2. \A s \in t.asked : t.reply[s] # "asked" /\ t.reply[s] # "err"
    BY <2>1, Zenon DEF LoopDone, Said
  <2>3. \A s \in t.asked : t.reply[s] # "some"
    <3>1. (\E s \in t.asked : t.reply[s] = "some") => LoopResult(t.op, t.asked, t.reply) = "value"
      BY LoopValues, ZenonT(30)
    <3> QED
      BY <2>1, <3>1, Zenon
  <2>4. R = t.asked
    BY <2>1, <2>2, <2>3, Zenon DEF ReadReplies
  <2>5. ~(Cardinality(t.asked) >= AbsentQuorum(t.asked, t.op))
    BY <2>1, <2>4, LoopValues
  <2>6. Cardinality(t.asked) \in Nat
    BY <2>1, FiniteStores, Zenon
  <2> QED
    BY <2>1, <2>5, <2>6, QuorumNumbers DEF AbsentQuorum
<1> QED
  BY ReadsInvariant, <1>1, PTL

(* A scrub that began after a put of its key was answered Ok and asked all  *)
(* the main stores never answers None, whatever stores failed: fewer than a *)
(* write quorum of errors cannot hide the key.                              *)
THEOREM ScrubsFindWrites == ReadsSpec => []ScrubFindsAcked
<1>1. ReadsInv => ScrubFindsAcked
  <2> SUFFICES ASSUME ReadsInv, NEW r \in Readers, reader[r].state = "done", reader[r].sure,
                      reader[r].op = "scrub", MainStores \subseteq reader[r].asked,
                      reader[r].result = "absent"
               PROVE  FALSE
    BY Zenon DEF ScrubFindsAcked
  <2> DEFINE t == reader[r]
             E == {s \in t.asked \cap MainStores : t.reply[s] = "err"}
  <2>1. ScrubAbsent(t.asked, t.reply) = "absent" /\ \A s \in t.asked : t.reply[s] \in {"none", "err"}
    BY Zenon DEF ReadsInv, ReaderOK, Concluded
  <2>2. PICK Q \in SUBSET MainStores :
          Cardinality(Q) >= WriteQuorum /\ \A s \in Q : t.reply[s] # "none"
    BY Zenon DEF ReadsInv, Backed
  <2>3. Q \subseteq E /\ E \in SUBSET MainStores
    BY <2>1, <2>2, Zenon
  <2>4. /\ Cardinality(Q) \in Nat /\ Cardinality(E) \in Nat /\ IsFiniteSet(E)
    BY <2>3, FiniteStores, Zenon DEF Stores
  <2>5. Cardinality(Q) <= Cardinality(E)
    <3> HIDE DEF E
    <3> QED BY <2>3, <2>4, FS_Subset, Zenon
  <2>6. Q # {}
    <3>1. ~(0 >= WriteQuorum)
      BY QuorumNumbers
    <3>2. Cardinality({}) = 0
      BY FS_EmptySet, Zenon
    <3> QED
      BY <2>2, <3>1, <3>2, Zenon
  <2>7. Cardinality(MainStores) - Cardinality(E) >= ReadQuorum
    <3>1. {s \in t.asked : t.reply[s] = "err"} # {}
      BY <2>3, <2>6, Zenon
    <3>2. ~(Cardinality(MainStores) - Cardinality(E) < ReadQuorum)
      BY <2>1, <3>1, Zenon DEF ScrubAbsent
    <3> HIDE DEF E
    <3> QED
      BY <3>2, <2>4, QuorumNumbers
  <2> HIDE DEF E
  <2> QED
    BY <2>2, <2>4, <2>5, <2>7, QuorumNumbers
<1> QED
  BY ReadsInvariant, <1>1, PTL
=============================================================================
