-------------------------- MODULE WalMultiplexProofs --------------------------
(***************************************************************************)
(* What is known of puts and of the blobs they wrote, whatever else works  *)
(* on the same stores: healers, readers or an unlink.                      *)
(***************************************************************************)
EXTENDS WalMultiplex, FiniteSetTheorems, TLAPS

PutTypes == StorageTypeOK /\ PutTypeOK

(* A write that was acknowledged is in its store, and a put that was        *)
(* answered Ok has a write quorum of acknowledgements.                      *)
PutsOK ==
    \A p \in Puts :
        /\ put[p].state = "idle" => put[p].reply = NoReplies /\ put[p].landed = {}
        /\ \A s \in put[p].landed : Present(put[p].key, s)
        /\ \A s \in Stores : put[p].reply[s] = "ok" => s \in put[p].landed
        /\ Acked(p) => Cardinality(Acknowledged(put[p].reply)) >= WriteQuorum

(* Nothing is in a store that no put wrote. *)
BlobsOK ==
    \A s \in Stores : \A k \in blobs[s] :
        \E p \in Puts : put[p].key = k /\ put[p].landed # {}

-----------------------------------------------------------------------------
(* Types. *)

(* The INSERT of a well-typed entry gives a well-typed table. *)
LEMMA LogEntryType ==
    ASSUME wal \subseteq Row, NEW sh \in Shards, NEW k \in Keys, NEW age \in 0 .. MinAge,
           NEW retry \in 0 .. MaxRetries, NEW heldIds, LogEntry(sh, k, age, retry, heldIds)
    PROVE  wal' \subseteq Row
<1> DEFINE i == CHOOSE i \in FreeIds(sh, heldIds) : TRUE
<1>1. i \in FreeIds(sh, heldIds)
  BY Zenon DEF LogEntry
<1>2. i \in RowIds
  BY <1>1, Zenon DEF FreeIds
<1>3. [shard |-> sh, key |-> k, age |-> age, retry |-> retry, id |-> i] \in Row
  BY <1>2, Zenon DEF Row
<1> QED
  BY <1>3, Zenon DEF LogEntry

(* No put has begun: the types hold. *)
LEMMA PutInitTypes == StorageInit /\ PutInit => PutTypes
<1> SUFFICES ASSUME StorageInit, PutInit PROVE PutTypes
  BY Zenon
<1> USE StorageAssumption, MultiplexAssumption
<1>1. StorageTypeOK
  BY DEF StorageInit, StorageTypeOK
<1>2. (CHOOSE k \in Keys : TRUE) \in Keys /\ 0 \in Shards /\ 0 \in PutAges
  BY DEF Shards, PutAges, TooOld
<1>3. PutTypeOK
  BY <1>2, Zenon DEF PutInit, PutTypeOK, PutRecord, PutStates, Replies, NoReplies
<1> QED
  BY <1>1, <1>3, Zenon DEF PutTypes

(* ... and no put has a reply that could be wrong. *)
LEMMA PutInitOK == PutInit => PutsOK
BY DEF PutInit, PutsOK, NoReplies, Acked

(* Every step of a put keeps the types. *)
LEMMA PutStepTypes ==
    ASSUME PutTypes, NEW p \in Puts, NEW heldIds, PutStep(p, heldIds)
    PROVE  PutTypes'
<1> USE StorageAssumption, MultiplexAssumption DEF PutTypes, StorageTypeOK, PutTypeOK
<1>a. /\ put[p].key \in Keys
      /\ put[p].landed \in SUBSET Stores
      /\ put[p].reply \in [Stores -> Replies]
      /\ put[p].age \in PutAges
  BY Zenon DEF PutRecord
<1>c. 0 \in PutAges /\ TooOld \in PutAges
  BY DEF PutAges, TooOld
<1>b. /\ \A group : \A reply \in [Stores -> Replies] : Send(reply, group) \in [Stores -> Replies]
      /\ \A group : \A reply \in [Stores -> Replies] : Drop(reply, group) \in [Stores -> Replies]
      /\ NoReplies \in [Stores -> Replies]
  BY Zenon DEF Send, Drop, NoReplies, Replies
<1>1. CASE PutLog(p, heldIds)
  <2>1. PICK k \in Keys, sh \in Shards, age \in 0 .. MinAge :
          /\ LogEntry(sh, k, age, 0, heldIds)
          /\ put' = [put EXCEPT ![p] =
                     [state |-> "writing", key |-> k, shard |-> sh, age |-> 0, clean |-> FALSE,
                      reply |-> Send(NoReplies, MainStores), landed |-> {}]]
          /\ UNCHANGED <<blobs, faults>>
    BY <1>1, Zenon DEF PutLog
  <2>2. wal' \subseteq Row
    BY <2>1, LogEntryType
  <2>3. [state |-> "writing", key |-> k, shard |-> sh, age |-> 0, clean |-> FALSE,
         reply |-> Send(NoReplies, MainStores), landed |-> {}] \in PutRecord
    BY <1>b, <1>c, Zenon DEF PutRecord, PutStates
  <2> QED
    BY <2>1, <2>2, <2>3, Zenon
<1>2. CASE PutLogErr(p, heldIds)
  <2>1. PICK k \in Keys, sh \in Shards, age \in 0 .. MinAge :
          /\ Fault
          /\ LogEntry(sh, k, age, 0, heldIds) \/ UNCHANGED wal
          /\ put' = [put EXCEPT ![p] =
                       [@ EXCEPT !.state = "failed", !.key = k, !.age = TooOld]]
          /\ UNCHANGED blobs
    BY <1>2, Zenon DEF PutLogErr
  <2>2. wal' \subseteq Row
    BY <2>1, LogEntryType
  <2>3. [put[p] EXCEPT !.state = "failed", !.key = k, !.age = TooOld] \in PutRecord
    BY <1>c, ZenonT(30) DEF PutRecord, PutStates
  <2> QED
    BY <2>1, <2>2, <2>3 DEF Fault
<1>3. ASSUME NEW s \in Stores, PutLand(p, s) PROVE PutTypes'
  <2>1. put' \in [Puts -> PutRecord]
    BY <1>3, <1>a DEF PutLand, PutRecord
  <2>2. blobs' \in [Stores -> SUBSET Keys]
    BY <1>3, <1>a, Zenon DEF PutLand
  <2> QED
    BY <2>1, <2>2, <1>3, Zenon DEF PutLand
<1>4. ASSUME NEW s \in Stores, PutOk(p, s) PROVE PutTypes'
  <2> DEFINE reply == [put[p].reply EXCEPT ![s] = "ok"]
  <2>1. reply \in [Stores -> Replies]
    BY <1>a, Zenon DEF Replies
  <2>2. put' \in [Puts -> PutRecord]
    <3>1. Quorate(put[p], reply) \in PutRecord
      <4>1. (\A m \in MainStores : reply[m] # "err") \in BOOLEAN
        BY Zenon
      <4>2. Send(reply, WriteOnlyStores) \in [Stores -> Replies]
        BY <2>1, <1>b, Zenon
      <4> HIDE DEF reply
      <4> QED
        BY <4>1, <4>2, <1>c, ZenonT(30) DEF Quorate, PutRecord, PutStates
    <3>2. Recorded(put[p], reply) \in PutRecord
      BY <2>1, ZenonT(30) DEF Recorded, PutRecord, PutStates
    <3>3. [put[p] EXCEPT !.reply = reply] \in PutRecord
      BY <2>1, Zenon DEF PutRecord
    <3> QED
      BY <3>1, <3>2, <3>3, <1>4, Zenon DEF PutOk
  <2> QED
    BY <2>2, <1>4, Zenon DEF PutOk, storageVars
<1>5. ASSUME NEW s \in Stores, PutErr(p, s) PROVE PutTypes'
  <2> DEFINE reply == [put[p].reply EXCEPT ![s] = "err"]
  <2>1. reply \in [Stores -> Replies]
    BY <1>a, Zenon DEF Replies
  <2>2. put' \in [Puts -> PutRecord]
    <3>1. Recorded(put[p], reply) \in PutRecord
      BY <2>1, ZenonT(30) DEF Recorded, PutRecord, PutStates
    <3>2. [put[p] EXCEPT !.reply = Drop(reply, Group(s))] \in PutRecord
      BY <2>1, <1>b, ZenonT(30) DEF PutRecord
    <3> QED
      BY <3>1, <3>2, <1>5, Zenon DEF PutErr
  <2> QED
    BY <2>2, <1>5 DEF PutErr, Fault
<1>6. CASE PutDelete(p)
  <2>1. [put[p] EXCEPT !.state = "done"] \in PutRecord
    BY Zenon DEF PutRecord, PutStates
  <2> QED
    BY <2>1, <1>6, Zenon DEF PutDelete, DeleteByKey
<1>7. CASE PutDeleteErr(p)
  <2>1. [put[p] EXCEPT !.state = "done"] \in PutRecord
    BY Zenon DEF PutRecord, PutStates
  <2> QED
    BY <2>1, <1>7 DEF PutDeleteErr, Fault
<1>8. CASE PutCrash(p)
  <2>1. Drop(put[p].reply, Stores) \in [Stores -> Replies]
    BY <1>a, <1>b, Zenon
  <2>2. Crashed(put[p]) \in PutRecord
    BY <2>1, ZenonT(30) DEF Crashed, PutRecord, PutStates
  <2> QED
    BY <2>2, <1>8 DEF PutCrash, Fault
<1> QED
  BY <1>1, <1>2, <1>3, <1>4, <1>5, <1>6, <1>7, <1>8, Zenon DEF PutStep

(* TooOld is the first age beyond the timeout. *)
LEMMA Ages ==
    PutTimeout \in Int /\ TooOld \in Int /\ TooOld = PutTimeout + 1 /\ ~(TooOld <= PutTimeout)
BY MultiplexAssumption DEF TooOld

(* The fields of a put, as the arithmetic of the proofs needs them. *)
LEMMA PutFields ==
    ASSUME PutTypes, NEW p \in Puts
    PROVE  /\ put[p].age \in Int /\ 0 <= put[p].age /\ put[p].age <= TooOld
           /\ put[p].landed \subseteq Stores /\ put[p].key \in Keys
<1>1. put[p] \in PutRecord
  BY Zenon DEF PutTypes, PutTypeOK
<1>2. put[p].age \in 0 .. TooOld /\ put[p].landed \subseteq Stores /\ put[p].key \in Keys
  BY <1>1, Zenon DEF PutRecord, PutAges
<1> QED
  BY <1>2, Ages

-----------------------------------------------------------------------------
(* Acknowledgements. *)

(* Adding an acknowledgement only enlarges the set of acknowledgements. *)
LEMMA AcknowledgedGrows ==
    ASSUME NEW old, NEW new, \A s \in MainStores : old[s] = "ok" => new[s] = "ok",
           Cardinality(Acknowledged(old)) >= WriteQuorum
    PROVE  Cardinality(Acknowledged(new)) >= WriteQuorum
<1>1. IsFiniteSet(Acknowledged(new)) /\ IsFiniteSet(Acknowledged(old))
  BY StorageAssumption, FS_Subset, Zenon DEF Acknowledged
<1>2. Acknowledged(old) \subseteq Acknowledged(new)
  BY Zenon DEF Acknowledged
<1>3. /\ Cardinality(Acknowledged(old)) \in Nat /\ Cardinality(Acknowledged(new)) \in Nat
      /\ Cardinality(Acknowledged(old)) <= Cardinality(Acknowledged(new))
  BY <1>1, <1>2, FS_Subset, FS_CardinalityType, Zenon
<1>4. WriteQuorum \in Int
  BY MultiplexAssumption
<1> QED
  BY <1>3, <1>4

(* A quorum of acknowledgements is not empty. *)
LEMMA QuorumLanded ==
    ASSUME PutsOK, PutTypes, NEW p \in Puts, Acked(p)
    PROVE  put[p].landed # {}
<1>1. Cardinality(Acknowledged(put[p].reply)) >= WriteQuorum
  BY Zenon DEF PutsOK
<1>2. WriteQuorum >= 1 /\ WriteQuorum \in Int
  BY MultiplexAssumption
<1>3. Acknowledged(put[p].reply) # {}
  BY <1>1, <1>2, FS_EmptySet
<1> QED
  BY <1>3, Zenon DEF PutsOK, Acknowledged, Stores

(* The steps of a put that only note what is known of its writes. *)
Notes(p) ==
    \/ \E s \in Stores : PutOk(p, s) \/ PutErr(p, s)
    \/ PutDelete(p) \/ PutDeleteErr(p) \/ PutCrash(p)

Noted(p) ==
    /\ \A q \in Puts \ {p} : put'[q] = put[q]
    /\ put[p].state # "idle" /\ put'[p].state # "idle"
    /\ put'[p].key = put[p].key /\ put'[p].landed = put[p].landed
    /\ put[p].landed = {} => put'[p].age = put[p].age
    /\ \A s \in Stores : put'[p].reply[s] = "ok" => s \in put[p].landed
    /\ Acked(p)' => Cardinality(Acknowledged(put'[p].reply)) >= WriteQuorum
    /\ blobs' = blobs

(* A reply is noted: what the put record and the blobs are afterwards. *)
LEMMA NotesEffect ==
    ASSUME PutTypes, PutsOK, NEW p \in Puts, Notes(p)
    PROVE  Noted(p)
<1> USE DEF PutTypes, StorageTypeOK, PutTypeOK
<1>a. /\ put[p] \in PutRecord
      /\ put[p].reply \in [Stores -> Replies]
      /\ put[p].state \in PutStates
  BY Zenon DEF PutRecord
<1>b. \A s \in Stores : put[p].reply[s] = "ok" => s \in put[p].landed
  BY Zenon DEF PutsOK
<1>c. \A s \in Stores : put[p].reply[s] = "inflight" => put[p].state # "idle"
  BY Zenon DEF PutsOK, NoReplies
<1>1. ASSUME NEW s \in Stores, PutOk(p, s) PROVE Noted(p)
  <2> DEFINE reply == [put[p].reply EXCEPT ![s] = "ok"]
             new == CASE put[p].state = "writing" /\ Cardinality(Acknowledged(reply)) = WriteQuorum
                           -> Quorate(put[p], reply)
                      [] put[p].state = "writing" /\ Cardinality(Acknowledged(reply)) # WriteQuorum
                           -> Recorded(put[p], reply)
                      [] OTHER -> [put[p] EXCEPT !.reply = reply]
  <2>1. put' = [put EXCEPT ![p] = new] /\ blobs' = blobs
    BY <1>1, Zenon DEF PutOk, storageVars
  <2>2. \A t \in Stores : reply[t] = "ok" => t \in put[p].landed
    BY <1>1, <1>a, <1>b, Zenon DEF PutOk
  <2>3. \A t \in MainStores : put[p].reply[t] = "ok" => reply[t] = "ok"
    BY <1>a, Zenon DEF Stores
  <2>4. s \in put[p].landed /\ put[p].state # "idle"
    BY <1>1, <1>c, Zenon DEF PutOk
  <2> HIDE DEF reply
  <2>5. CASE put[p].state = "writing" /\ Cardinality(Acknowledged(reply)) = WriteQuorum
    <3>1. new = Quorate(put[p], reply)
      BY <2>5, Zenon
    <3>2. /\ new.state = "acked" /\ new.key = put[p].key /\ new.landed = put[p].landed
          /\ new.reply = Send(reply, WriteOnlyStores)
      BY <3>1, <1>a, Zenon DEF Quorate, PutRecord
    <3>3. \A t \in Stores : new.reply[t] = "ok" => reply[t] = "ok"
      BY <3>2 DEF Send
    <3>4. Acknowledged(new.reply) = Acknowledged(reply)
      BY <3>2, StorageAssumption, Zenon DEF Acknowledged, Send, Stores
    <3>5. WriteQuorum \in Int
      BY MultiplexAssumption
    <3>6. Cardinality(Acknowledged(new.reply)) >= WriteQuorum
      BY <3>4, <3>5, <2>5
    <3> HIDE DEF new
    <3> QED
      BY <2>1, <2>2, <2>4, <3>2, <3>3, <3>6, Zenon DEF Noted
  <2>6. CASE put[p].state = "writing" /\ Cardinality(Acknowledged(reply)) # WriteQuorum
    <3>1. new = Recorded(put[p], reply)
      BY <2>6, Zenon
    <3>2. /\ new.state \in {"failed", "writing"} /\ new.key = put[p].key
          /\ new.landed = put[p].landed /\ new.reply = reply /\ new.age = put[p].age
      BY <3>1, <1>a, Zenon DEF Recorded, PutRecord
    <3> HIDE DEF new
    <3> QED
      BY <2>1, <2>2, <2>4, <3>2, Zenon DEF Noted, Acked
  <2>7. CASE put[p].state # "writing"
    <3>1. new = [put[p] EXCEPT !.reply = reply]
      BY <2>7, Zenon
    <3>2. /\ new.state = put[p].state /\ new.key = put[p].key
          /\ new.landed = put[p].landed /\ new.reply = reply /\ new.age = put[p].age
      BY <3>1, <1>a, Zenon DEF PutRecord
    <3>3. Acked(p) => Cardinality(Acknowledged(reply)) >= WriteQuorum
      BY <2>3, AcknowledgedGrows, Zenon DEF PutsOK
    <3> HIDE DEF new
    <3> QED
      BY <2>1, <2>2, <2>4, <3>2, <3>3, Zenon DEF Noted, Acked
  <2> QED
    BY <2>5, <2>6, <2>7, Zenon
<1>2. ASSUME NEW s \in Stores, PutErr(p, s) PROVE Noted(p)
  <2> DEFINE reply == [put[p].reply EXCEPT ![s] = "err"]
             new == IF put[p].state = "writing" THEN Recorded(put[p], reply)
                    ELSE [put[p] EXCEPT !.reply = Drop(reply, Group(s))]
  <2>1. put' = [put EXCEPT ![p] = new] /\ blobs' = blobs
    BY <1>2, Zenon DEF PutErr
  <2>2. \A t \in Stores : reply[t] = "ok" <=> put[p].reply[t] = "ok"
    BY <1>2, <1>a, Zenon DEF PutErr
  <2>3. put[p].state # "idle"
    BY <1>2, <1>c, Zenon DEF PutErr
  <2> HIDE DEF reply
  <2>4. CASE put[p].state = "writing"
    <3>1. /\ new.state \in {"failed", "writing"} /\ new.key = put[p].key
          /\ new.landed = put[p].landed /\ new.reply = reply /\ new.age = put[p].age
      BY <2>4, <1>a, Zenon DEF Recorded, PutRecord
    <3> HIDE DEF new
    <3> QED
      BY <2>1, <2>2, <2>3, <3>1, <1>b, Zenon DEF Noted, Acked
  <2>5. CASE put[p].state # "writing"
    <3>1. /\ new.state = put[p].state /\ new.key = put[p].key /\ new.age = put[p].age
          /\ new.landed = put[p].landed /\ new.reply = Drop(reply, Group(s))
      BY <2>5, <1>a, Zenon DEF PutRecord
    <3>2. \A t \in Stores : new.reply[t] = "ok" <=> put[p].reply[t] = "ok"
      BY <3>1, <2>2 DEF Drop
    <3> HIDE DEF new
    <3>3. Acked(p) => Cardinality(Acknowledged(new.reply)) >= WriteQuorum
      BY <3>2, AcknowledgedGrows, Zenon DEF PutsOK, Stores
    <3> QED
      BY <2>1, <2>3, <3>1, <3>2, <3>3, <1>b, Zenon DEF Noted, Acked
  <2> QED
    BY <2>4, <2>5, Zenon
<1>3. ASSUME PutDelete(p) \/ PutDeleteErr(p) PROVE Noted(p)
  <2>1. /\ put' = [put EXCEPT ![p].state = "done"] /\ blobs' = blobs /\ put[p].state = "acked"
    BY <1>3, Zenon DEF PutDelete, PutDeleteErr
  <2>2. Cardinality(Acknowledged(put[p].reply)) >= WriteQuorum
    BY <2>1, Zenon DEF PutsOK, Acked
  <2> QED
    BY <2>1, <2>2, <1>a, <1>b, Zenon DEF Noted, PutRecord
<1>4. ASSUME PutCrash(p) PROVE Noted(p)
  <2>1. /\ put' = [put EXCEPT ![p] = Crashed(put[p])] /\ blobs' = blobs
        /\ put[p].state \in {"writing", "acked"}
    BY <1>4, Zenon DEF PutCrash
  <2> DEFINE new == Crashed(put[p])
  <2>2. /\ new.state = IF put[p].state = "acked" THEN "done" ELSE "dead"
        /\ new.key = put[p].key /\ new.landed = put[p].landed /\ new.age = put[p].age
        /\ new.reply = Drop(put[p].reply, Stores)
    BY <1>a, Zenon DEF Crashed, PutRecord
  <2>3. \A t \in Stores : new.reply[t] = "ok" <=> put[p].reply[t] = "ok"
    BY <2>2, Zenon DEF Drop
  <2> HIDE DEF new
  <2>4. put[p].state = "acked" => Cardinality(Acknowledged(new.reply)) >= WriteQuorum
    BY <2>3, AcknowledgedGrows, Zenon DEF PutsOK, Acked, Stores
  <2>5. put' = [put EXCEPT ![p] = new]
    BY <2>1, Zenon DEF new
  <2> QED
    BY <2>1, <2>2, <2>3, <2>4, <2>5, <1>b, Zenon DEF Noted, Acked
<1> QED
  BY <1>1, <1>2, <1>3, <1>4, Zenon DEF Notes

(* What a put does when it starts, fails to start, or lands somewhere. *)
LEMMA PutLogEffect ==
    ASSUME PutTypes, PutsOK, NEW p \in Puts, NEW heldIds,
           PutLog(p, heldIds) \/ PutLogErr(p, heldIds)
    PROVE  /\ \A q \in Puts \ {p} : put'[q] = put[q]
           /\ put[p].landed = {} /\ put'[p].landed = {}
           /\ put'[p].state \in {"writing", "failed"}
           /\ put'[p].state = "failed" => put'[p].age = TooOld
           /\ \A s \in Stores : put'[p].reply[s] # "ok"
           /\ blobs' = blobs
<1> USE DEF PutTypes, PutTypeOK
<1>a. put[p] \in PutRecord
  BY Zenon
<1>1. CASE PutLog(p, heldIds)
  <2>1. PICK k \in Keys, sh \in Shards :
          /\ put[p].state = "idle"
          /\ put' = [put EXCEPT ![p] =
                     [state |-> "writing", key |-> k, shard |-> sh, age |-> 0, clean |-> FALSE,
                      reply |-> Send(NoReplies, MainStores), landed |-> {}]]
          /\ blobs' = blobs
    BY <1>1, Zenon DEF PutLog
  <2> QED
    BY <2>1, <1>a, Zenon DEF PutsOK, Send, NoReplies
<1>2. CASE PutLogErr(p, heldIds)
  <2>1. PICK k \in Keys :
          /\ put[p].state = "idle"
          /\ put' = [put EXCEPT ![p] =
                       [@ EXCEPT !.state = "failed", !.key = k, !.age = TooOld]]
          /\ blobs' = blobs
    BY <1>2, Zenon DEF PutLogErr
  <2>2. put[p].landed = {} /\ put[p].reply = NoReplies
    BY <2>1, Zenon DEF PutsOK
  <2>3. /\ put'[p].landed = {} /\ put'[p].reply = NoReplies
        /\ put'[p].state = "failed" /\ put'[p].age = TooOld
    BY <2>1, <2>2, <1>a, Zenon DEF PutRecord
  <2> QED
    BY <2>1, <2>2, <2>3, Zenon DEF NoReplies
<1> QED
  BY <1>1, <1>2, Zenon

(* A write takes effect, in time: one store and nothing else changes. *)
LEMMA PutLandEffect ==
    ASSUME PutTypes, PutsOK, NEW p \in Puts, NEW s \in Stores, PutLand(p, s)
    PROVE  /\ \A q \in Puts \ {p} : put'[q] = put[q]
           /\ put[p].state # "idle" /\ put[p].age <= PutTimeout
           /\ put'[p].state = put[p].state /\ put'[p].key = put[p].key
           /\ put'[p].reply = put[p].reply /\ put'[p].age = put[p].age
           /\ put'[p].landed = put[p].landed \cup {s}
           /\ blobs' = [blobs EXCEPT ![s] = @ \cup {put[p].key}]
           /\ put[p].key \in Keys
<1> USE DEF PutTypes, PutTypeOK, PutLand, CanLand
<1>1. put[p] \in PutRecord
  BY Zenon
<1>2. put[p].state # "idle"
  BY Zenon DEF PutsOK, NoReplies
<1> QED
  BY <1>1, <1>2, Zenon DEF PutRecord

(* A step of a put keeps what is known of puts and blobs. *)
LEMMA PutsOKStep ==
    ASSUME PutTypes, PutsOK, NEW p \in Puts, NEW heldIds, PutStep(p, heldIds)
    PROVE  PutsOK' /\ (BlobsOK => BlobsOK')
<1> USE DEF PutsOK, BlobsOK, Present, Acked
<1>1. ASSUME PutLog(p, heldIds) \/ PutLogErr(p, heldIds) PROVE PutsOK' /\ (BlobsOK => BlobsOK')
  <2>1. /\ \A q \in Puts \ {p} : put'[q] = put[q]
        /\ put[p].landed = {} /\ put'[p].landed = {}
        /\ put'[p].state \in {"writing", "failed"}
        /\ \A s \in Stores : put'[p].reply[s] # "ok"
        /\ blobs' = blobs
    BY <1>1, PutLogEffect, Zenon
  <2> QED
    BY <2>1
<1>2. ASSUME NEW s \in Stores, PutLand(p, s) PROVE PutsOK' /\ (BlobsOK => BlobsOK')
  <2>1. /\ \A q \in Puts \ {p} : put'[q] = put[q]
        /\ put[p].state # "idle"
        /\ put'[p].state = put[p].state /\ put'[p].key = put[p].key
        /\ put'[p].reply = put[p].reply
        /\ put'[p].landed = put[p].landed \cup {s}
        /\ blobs' = [blobs EXCEPT ![s] = @ \cup {put[p].key}]
    BY <1>2, PutLandEffect, Zenon
  <2>2. blobs \in [Stores -> SUBSET Keys] /\ \A q \in Puts : put[q].landed \subseteq Stores
    BY Zenon DEF PutTypes, StorageTypeOK, PutTypeOK, PutRecord
  <2>3. PutsOK'
    BY <2>1, <2>2
  <2>4. BlobsOK => BlobsOK'
    BY <2>1, <2>2
  <2> QED
    BY <2>3, <2>4, Zenon
<1>3. ASSUME Notes(p) PROVE PutsOK' /\ (BlobsOK => BlobsOK')
  <2>1. Noted(p)
    BY <1>3, NotesEffect, Zenon
  <2> QED
    BY <2>1 DEF Noted
<1> QED
  BY <1>1, <1>2, <1>3, Zenon DEF PutStep, Notes

(* A put only adds to the stores. *)
LEMMA PutBlobsGrow ==
    ASSUME PutTypes, NEW p \in Puts, NEW heldIds, PutStep(p, heldIds)
    PROVE  \A s \in Stores : blobs[s] \subseteq blobs'[s]
<1> USE DEF PutTypes, StorageTypeOK
<1>1. ASSUME NEW s \in Stores, PutLand(p, s) PROVE \A t \in Stores : blobs[t] \subseteq blobs'[t]
  BY <1>1, Zenon DEF PutLand
<1>2. ASSUME NEW s \in Stores, PutOk(p, s) \/ PutErr(p, s) PROVE blobs' = blobs
  BY <1>2, Zenon DEF PutOk, PutErr, storageVars
<1>3. ASSUME PutLog(p, heldIds) \/ PutLogErr(p, heldIds) PROVE blobs' = blobs
  BY <1>3, Zenon DEF PutLog, PutLogErr
<1>4. ASSUME PutDelete(p) \/ PutDeleteErr(p) \/ PutCrash(p) PROVE blobs' = blobs
  BY <1>4, Zenon DEF PutDelete, PutDeleteErr, PutCrash
<1> QED
  BY <1>1, <1>2, <1>3, <1>4, Zenon DEF PutStep
=============================================================================
