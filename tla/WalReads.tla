------------------------------ MODULE WalReads ------------------------------
(***************************************************************************)
(* The read paths over the same stores, racing puts: get_impl and          *)
(* is_present_impl of WalMultiplexedBlobstore, and the get of              *)
(* WalScrubBlobstore (multiplexedblob_wal/src/scrub.rs,                    *)
(* multiplexedblob/src/base.rs and scrub.rs), which asks every store and   *)
(* repairs the ones that miss the blob.                                    *)
(***************************************************************************)
EXTENDS WalMultiplex

CONSTANTS
    Readers,       \* read operations of a behaviour
    ReadOps,       \* which of "get", "is_present", "scrub" they are
    ScrubModes,    \* SrubWriteOnly: the modes scrubs run in
    KnobSettings   \* the sets of stores disable_blobstore_reads may name

ASSUME ReadsAssumption ==
    /\ ReadOps \subseteq {"get", "is_present", "scrub"}
    /\ ScrubModes \subseteq {"SkipMissing", "Scrub", "PopulateIfAbsent", "ScrubIfAbsent"}
    /\ KnobSettings \subseteq SUBSET Stores

VARIABLES
    disabled,   \* the stores disable_blobstore_reads names now
    reader,     \* reader[r]: one read operation
    inflight    \* inflight_ops_counter, the part the reads contribute

readsVars == <<blobs, wal, faults, put, disabled, reader, inflight>>

ReadReplies == {"unasked", "asked", "some", "none", "err"}

Results == {"value", "absent", "unknown", "error"}

ReaderRecord ==
    [state  : {"idle", "reading", "repairing", "done"},
     op     : {"get", "is_present", "scrub"},
     mode   : {"SkipMissing", "Scrub", "PopulateIfAbsent", "ScrubIfAbsent"},
     key    : Keys,
     sure   : BOOLEAN,                     \* a put of the key was answered Ok before
     asked  : SUBSET Stores,               \* the stores this round sends a get to
     reply  : [Stores -> ReadReplies],
     repair : SUBSET Stores,               \* needs_repair, not yet written
     result : Results]

Said(r, group, answer) == {s \in group : reader[r].reply[s] = answer}

Ask(group) == [s \in Stores |-> IF s \in group THEN "asked" ELSE "unasked"]

-----------------------------------------------------------------------------
(* The stores the first round of an operation asks: inner_multi_get leaves *)
(* the disabled ones out, inner_multi_is_present does not.                 *)
FirstRound(op, mode) ==
    CASE op = "is_present" -> MainStores
      [] op = "get" -> MainStores \ disabled
      [] op = "scrub" /\ mode \in {"SkipMissing", "Scrub"} -> Stores \ disabled
      [] op = "scrub" /\ mode = "PopulateIfAbsent" -> MainStores \ disabled
      [] op = "scrub" /\ mode = "ScrubIfAbsent" /\ WriteOnlyStores \subseteq disabled ->
            MainStores \ disabled
      [] OTHER -> WriteOnlyStores \ disabled

(* The state after a round was sent, and what is answered when it asked no  *)
(* store because all are disabled: a get fails with AllFailed of no errors, *)
(* a scrub has seen no error and answers None.                              *)
RoundState(asked) == IF asked = {} THEN "done" ELSE "reading"
RoundResult(op, asked) == IF asked = {} /\ op = "scrub" THEN "absent" ELSE "error"

(* Mutant: the counter grows by the enabled main stores, not by those asked. *)
StartMiscounted(r, op, mode, k) ==
    LET asked == FirstRound(op, mode)
    IN  /\ reader[r].state = "idle"
        /\ reader' = [reader EXCEPT ![r] =
             [state |-> RoundState(asked), op |-> op, mode |-> mode, key |-> k,
              sure |-> \E p \in Puts : put[p].key = k /\ Acked(p),
              asked |-> asked, reply |-> Ask(asked), repair |-> {}, result |-> RoundResult(op, asked)]]
        /\ inflight' = inflight + Cardinality(MainStores \ disabled)
        /\ UNCHANGED <<blobs, wal, faults, put, disabled>>

Start(r, op, mode, k) ==
    LET asked == FirstRound(op, mode)
    IN  /\ reader[r].state = "idle"
        /\ reader' = [reader EXCEPT ![r] =
             [state |-> RoundState(asked), op |-> op, mode |-> mode, key |-> k,
              sure |-> \E p \in Puts : put[p].key = k /\ Acked(p),
              asked |-> asked, reply |-> Ask(asked), repair |-> {}, result |-> RoundResult(op, asked)]]
        /\ inflight' = inflight + Cardinality(asked)
        /\ UNCHANGED <<blobs, wal, faults, put, disabled>>

(* Mutant: the quorum does not shrink with the stores that are asked. *)
AbsentQuorumFixed(asked, op) == ReadQuorum

(* The quorum of "not found" answers at which the loops stop. *)
AbsentQuorum(asked, op) ==
    IF op = "get" /\ Cardinality(asked) < ReadQuorum THEN Cardinality(asked) ELSE ReadQuorum

(* get_impl and is_present_impl: the loop returns at the first "found", at *)
(* the quorum of "not found", or when every answer is in.  The quorum is   *)
(* compared after a "not found" only, so no answers are not an absence.    *)
LoopResult(op, asked, reply) ==
    LET nones == {s \in asked : reply[s] = "none"}
        errs  == {s \in asked : reply[s] = "err"}
    IN  IF \E s \in asked : reply[s] = "some" THEN "value"
        ELSE IF nones # {} /\ Cardinality(nones) >= AbsentQuorum(asked, op) THEN "absent"
        ELSE IF op = "is_present" /\ errs # asked THEN "unknown"
        ELSE "error"

LoopDone(op, asked, reply) ==
    \/ LoopResult(op, asked, reply) \in {"value", "absent"}
    \/ \A s \in asked : reply[s] # "asked"

(* The stores scrub_parse_results counts as missing: the modes that assume *)
(* the write-only stores empty answer None for them when they ask the main *)
(* ones.                                                                   *)
ScrubMissing(mode, asked, reply) ==
    {s \in asked : reply[s] = "none"}
      \cup IF /\ mode \in {"PopulateIfAbsent", "ScrubIfAbsent"}
              /\ asked \subseteq MainStores
           THEN WriteOnlyStores ELSE {}

(* maybe_repair: what it writes to; nothing within the grace period, or    *)
(* with the action ReportOnly.                                             *)
NeedsRepair(mode, missing) ==
    IF mode = "SkipMissing" THEN missing \cap MainStores ELSE missing

(* Mutant: any store that answered is enough to say that the key is absent. *)
ScrubAbsentUnchecked(asked, reply) ==
    IF \A s \in asked \cap MainStores : reply[s] = "err" THEN "error" ELSE "absent"

(* WalScrubBlobstore::get when no store has the value. *)
ScrubAbsent(asked, reply) ==
    LET mainErrors == {s \in asked \cap MainStores : reply[s] = "err"}
        errors     == {s \in asked : reply[s] = "err"}
    IN  IF errors = {} THEN "absent"
        ELSE IF mainErrors = MainStores THEN "error"
        ELSE IF Cardinality(MainStores) - Cardinality(mainErrors) < ReadQuorum THEN "error"
        ELSE "absent"

(* All answers of a scrub are in. *)
ScrubFinish(r, asked, reply) ==
    LET mode    == reader[r].mode
        missing == ScrubMissing(mode, asked, reply)
        found   == \E s \in asked : reply[s] = "some"
        finished(result) == [reader[r] EXCEPT !.state = "done", !.reply = reply, !.result = result]
    IN  IF found
        THEN \/ reader' = [reader EXCEPT ![r] = finished("value")]
             \/ /\ NeedsRepair(mode, missing) # {}
                /\ reader' = [reader EXCEPT ![r] =
                     [reader[r] EXCEPT !.state = "repairing", !.reply = reply,
                                       !.repair = NeedsRepair(mode, missing)]]
        ELSE reader' = [reader EXCEPT ![r] = finished(ScrubAbsent(asked, reply))]

(* scrub_get_results, ScrubIfAbsent: if not every write-only store has the *)
(* blob, the main stores are asked and the write-only ones taken as empty. *)
SecondRound(r, reply) ==
    /\ reader[r].mode = "ScrubIfAbsent"
    /\ reader[r].asked \subseteq WriteOnlyStores
    /\ \E s \in reader[r].asked : reply[s] # "some"

Answer(r, s, reply) ==
    LET asked == reader[r].asked
        op    == reader[r].op
        all   == \A t \in asked : reply[t] # "asked"
        main  == MainStores \ disabled
    IN  IF op # "scrub"
        THEN /\ reader' = [reader EXCEPT ![r].reply = reply,
                   ![r].state  = IF LoopDone(op, asked, reply) THEN "done" ELSE "reading",
                   ![r].result = IF LoopDone(op, asked, reply)
                                 THEN LoopResult(op, asked, reply) ELSE "error"]
             /\ inflight' = inflight - 1
        ELSE IF ~all
        THEN reader' = [reader EXCEPT ![r].reply = reply] /\ inflight' = inflight - 1
        ELSE IF SecondRound(r, reply)
        THEN /\ reader' = [reader EXCEPT ![r].asked = main, ![r].reply = Ask(main),
                   ![r].state = RoundState(main), ![r].result = RoundResult(op, main)]
             /\ inflight' = inflight - 1 + Cardinality(main)
        ELSE ScrubFinish(r, asked, reply) /\ inflight' = inflight - 1

(* One store answers what it holds at that moment, or fails. *)
ReadReply(r, s) ==
    /\ reader[r].state = "reading"
    /\ reader[r].reply[s] = "asked"
    /\ Answer(r, s, [reader[r].reply EXCEPT ![s] =
                        IF Present(reader[r].key, s) THEN "some" ELSE "none"])
    /\ UNCHANGED <<blobs, wal, faults, put, disabled>>

ReadErr(r, s) ==
    /\ reader[r].state = "reading"
    /\ reader[r].reply[s] = "asked"
    /\ Fault
    /\ Answer(r, s, [reader[r].reply EXCEPT ![s] = "err"])
    /\ UNCHANGED <<blobs, wal, put, disabled>>

(* put_and_mark_repaired into one store; the first error ends the scrub. *)
Repair(r, s) ==
    /\ reader[r].state = "repairing"
    /\ s \in reader[r].repair
    /\ blobs' = [blobs EXCEPT ![s] = @ \cup {reader[r].key}]
    /\ reader' = [reader EXCEPT ![r].repair = @ \ {s},
                    ![r].state  = IF reader[r].repair = {s} THEN "done" ELSE "repairing",
                    ![r].result = IF reader[r].repair = {s} THEN "value" ELSE @]
    /\ UNCHANGED <<wal, faults, put, disabled, inflight>>

(* try_for_each drops the other repairs; any of them may have taken effect. *)
RepairErr(r) ==
    /\ reader[r].state = "repairing"
    /\ Fault
    /\ \E done \in SUBSET reader[r].repair :
         blobs' = [s \in Stores |-> IF s \in done THEN blobs[s] \cup {reader[r].key} ELSE blobs[s]]
    /\ reader' = [reader EXCEPT ![r].repair = {}, ![r].state = "done", ![r].result = "error"]
    /\ UNCHANGED <<wal, put, disabled, inflight>>

SetKnob ==
    /\ disabled' \in KnobSettings
    /\ UNCHANGED <<blobs, wal, faults, put, reader, inflight>>

ReadStep(r) ==
    \/ \E op \in ReadOps \ {"scrub"}, k \in Keys : Start(r, op, "Scrub", k)
    \/ \E op \in ReadOps \cap {"scrub"}, mode \in ScrubModes, k \in Keys : Start(r, op, mode, k)
    \/ \E s \in Stores : ReadReply(r, s) \/ ReadErr(r, s) \/ Repair(r, s)
    \/ RepairErr(r)

ReadsInit ==
    /\ StorageInit /\ PutInit
    /\ disabled \in KnobSettings
    /\ inflight = 0
    /\ reader = [r \in Readers |->
         [state |-> "idle", op |-> "get", mode |-> "Scrub", key |-> CHOOSE k \in Keys : TRUE,
          sure |-> FALSE, asked |-> {}, reply |-> Ask({}), repair |-> {}, result |-> "error"]]

ReadsNext ==
    \/ \E p \in Puts : PutStep(p, {}) /\ UNCHANGED <<disabled, reader, inflight>>
    \/ \E r \in Readers : ReadStep(r)
    \/ SetKnob

ReadsSpec == ReadsInit /\ [][ReadsNext]_readsVars

-----------------------------------------------------------------------------
ReadsTypeOK ==
    /\ StorageTypeOK /\ PutTypeOK
    /\ disabled \in KnobSettings
    /\ reader \in [Readers -> ReaderRecord]
    /\ inflight \in Nat

(* A read that began after a put of the key was answered Ok never reports   *)
(* the key absent, whatever stores fail and however puts and answers        *)
(* interleave, as long as the justknob left a read quorum of main stores to *)
(* ask: the read quorum and the write quorum of MultiplexQuorum meet.       *)
ReadYourWrites ==
    \A r \in Readers :
        /\ reader[r].state = "done"
        /\ reader[r].sure
        /\ reader[r].op \in {"get", "is_present"}
        /\ Cardinality(reader[r].asked) >= ReadQuorum
        => reader[r].result # "absent"

(* With stores disabled, get_impl shrinks its quorum to the stores it asks, *)
(* so that a get or is_present that cannot decide has met a failing store:  *)
(* taking stores out of rotation makes reads fail by itself only when it    *)
(* takes all of the main ones, which the knob does not exclude.             *)
UndecidedOnlyOnFailure ==
    \A r \in Readers :
        /\ reader[r].state = "done"
        /\ reader[r].op \in {"get", "is_present"}
        /\ reader[r].result \in {"error", "unknown"}
        => Said(r, Stores, "err") # {} \/ reader[r].asked = {}

(* A scrub never reports absent a key whose put was answered Ok before the  *)
(* scrub began, when it asks the main stores and none of them is disabled.  *)
ScrubFindsAcked ==
    \A r \in Readers :
        /\ reader[r].state = "done"
        /\ reader[r].sure
        /\ reader[r].op = "scrub"
        /\ MainStores \subseteq reader[r].asked
        => reader[r].result # "absent"

(* What the comment in WalScrubBlobstore::get says of the answer None after *)
(* errors: "We have a quorum of blobstores saying the key doesn't exist."   *)
ScrubAbsentHasQuorum ==
    \A r \in Readers :
        /\ reader[r].state = "done"
        /\ reader[r].op = "scrub"
        /\ reader[r].result = "absent"
        /\ Said(r, MainStores, "err") # {}
        => Cardinality(Said(r, MainStores, "none")) >= ReadQuorum

(* What the field's comment says of inflight_ops_counter: it counts the     *)
(* operations that are yet to complete.                                     *)
InflightCountsPending ==
    (\A r \in Readers : reader[r].state \in {"idle", "repairing", "done"}) => inflight = 0
=============================================================================
