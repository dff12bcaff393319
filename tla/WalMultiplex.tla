---------------------------- MODULE WalMultiplex ----------------------------
(***************************************************************************)
(* The put path of WalMultiplexedBlobstore                                 *)
(* (blobstore/multiplexedblob_wal/src/multiplex.rs, put_impl): log the key *)
(* in the WAL, write to all main stores, answer at the write quorum, leave *)
(* the remaining writes to background tasks, and drop the WAL entry when   *)
(* every store acknowledged.                                               *)
(*                                                                         *)
(* A write to one store is three events: it is sent, it takes effect       *)
(* (PutLand), its outcome comes back (PutOk, PutErr).  An error may come   *)
(* back for a write that took effect, and a write that failed, timed out   *)
(* or was dropped may still take effect later.  Of a put that was never    *)
(* answered Ok, it does so within PutTimeout of the log, or never.         *)
(***************************************************************************)
EXTENDS BlobStorage

CONSTANTS
    Puts,         \* the put operations of a behaviour
    WriteQuorum,  \* minimum_successful_writes of the configuration
    PutTimeout    \* PUT_REQUEST_TIMEOUT of TimedStore, in ticks

(* MultiplexQuorum::new refuses any other write quorum.  The last conjunct *)
(* holds of the defaults: 20 retries, 120 seconds of age, 600 of timeout.  *)
ASSUME MultiplexAssumption ==
    /\ WriteQuorum \in 1 .. Cardinality(MainStores)
    /\ PutTimeout \in Nat
    /\ PutTimeout < MaxRetries * MinAge

(* Mutant: the off-by-one that lets a read miss a write quorum. *)
ReadQuorumShort == Cardinality(MainStores) - WriteQuorum

(* MultiplexQuorum::new *)
ReadQuorum == Cardinality(MainStores) - WriteQuorum + 1

VARIABLE put   \* put[p]: the state of one put_impl and of the tasks it spawned

PutStates == {"idle", "writing", "acked", "failed", "done", "dead"}

(* What is known of the write to one store: not sent, in flight, answered, *)
(* or dropped with the stream or the process that waited for it.           *)
Replies == {"unsent", "inflight", "ok", "err", "dropped"}

(* The ages of a put: beyond PutTimeout they are all the same. *)
TooOld == PutTimeout + 1
PutAges == 0 .. TooOld

PutRecord ==
    [state  : PutStates,
     key    : Keys,
     shard  : Shards,                \* shard_id of the entry `log` returned
     age    : PutAges,               \* of the main writes
     reply  : [Stores -> Replies],
     landed : SUBSET Stores,         \* stores where this write took effect
     clean  : BOOLEAN]               \* put_errors was empty at the quorum

NoReplies == [s \in Stores |-> "unsent"]

Send(reply, group) == [s \in Stores |-> IF s \in group THEN "inflight" ELSE reply[s]]

(* Dropping a FuturesUnordered drops the writes it still waits for. *)
Drop(reply, group) ==
    [s \in Stores |-> IF s \in group /\ reply[s] = "inflight" THEN "dropped" ELSE reply[s]]

Group(s) == IF s \in MainStores THEN MainStores ELSE WriteOnlyStores

Acknowledged(reply) == {s \in MainStores : reply[s] = "ok"}

(* An answer was given to the caller, and it was Ok. *)
Acked(p) == put[p].state \in {"acked", "done"}

-----------------------------------------------------------------------------
(* `log` succeeded: the main writes are prepared and polled. *)
PutLog(p, heldIds) ==
    \E k \in Keys, sh \in Shards, age \in 0 .. MinAge :
        /\ put[p].state = "idle"
        /\ LogEntry(sh, k, age, 0, heldIds)
        /\ put' = [put EXCEPT ![p] =
                     [state |-> "writing", key |-> k, shard |-> sh, age |-> 0, clean |-> FALSE,
                      reply |-> Send(NoReplies, MainStores), landed |-> {}]]
        /\ UNCHANGED <<blobs, faults>>

(* Mutant: the error of `log` is ignored and the writes go out. *)
PutLogErrIgnored(p, heldIds) ==
    \E k \in Keys, sh \in Shards :
        /\ put[p].state = "idle"
        /\ Fault
        /\ put' = [put EXCEPT ![p] =
                     [state |-> "writing", key |-> k, shard |-> sh, age |-> 0, clean |-> FALSE,
                      reply |-> Send(NoReplies, MainStores), landed |-> {}]]
        /\ UNCHANGED <<blobs, wal>>

(* `log` failed: put_impl returns the error; the INSERT may have happened. *)
PutLogErr(p, heldIds) ==
    \E k \in Keys, sh \in Shards, age \in 0 .. MinAge :
        /\ put[p].state = "idle"
        /\ Fault
        /\ LogEntry(sh, k, age, 0, heldIds) \/ UNCHANGED wal
        /\ put' = [put EXCEPT ![p] = [@ EXCEPT !.state = "failed", !.key = k, !.age = TooOld]]
        /\ UNCHANGED blobs

(* The write to one store takes effect, possibly after the put gave it up. *)
CanLand(p, s) ==
    /\ put[p].reply[s] \in {"inflight", "err", "dropped"}
    /\ s \notin put[p].landed
    /\ put[p].age <= PutTimeout

PutLand(p, s) ==
    /\ CanLand(p, s)
    /\ blobs' = [blobs EXCEPT ![s] = @ \cup {put[p].key}]
    /\ put' = [put EXCEPT ![p].landed = @ \cup {s}]
    /\ UNCHANGED <<wal, faults>>

(* The stream of main writes is exhausted without a quorum: put_impl fails. *)
Exhausted(reply) == \A m \in MainStores : reply[m] # "inflight"

Recorded(old, reply) ==
    [old EXCEPT !.reply = reply, !.state = IF Exhausted(reply) THEN "failed" ELSE "writing"]

(* The quorum is reached: Ok to the caller, and the write-only writes go out. *)
Quorate(old, reply) ==
    [old EXCEPT !.state = "acked", !.age = 0,
                !.reply = Send(reply, WriteOnlyStores),
                !.clean = \A m \in MainStores : reply[m] # "err"]

(* The loop of put_impl sees Ok.  The quorum-th one answers the caller, *)
(* hands the rest to spawn_stream_completion and sends the write-only   *)
(* writes; afterwards the spawned tasks collect the outcomes.           *)
PutOk(p, s) ==
    /\ put[p].reply[s] = "inflight"
    /\ s \in put[p].landed
    /\ LET reply  == [put[p].reply EXCEPT ![s] = "ok"]
           quorum == Cardinality(Acknowledged(reply)) = WriteQuorum
       IN  put' = [put EXCEPT ![p] =
                     CASE @.state = "writing" /\ quorum -> Quorate(@, reply)
                       [] @.state = "writing" /\ ~quorum -> Recorded(@, reply)
                       [] OTHER -> [@ EXCEPT !.reply = reply]]
    /\ UNCHANGED storageVars

(* Mutant: the quorum counts answers, whatever they say. *)
PutErrCounted(p, s) ==
    /\ put[p].reply[s] = "inflight"
    /\ Fault
    /\ LET reply    == [put[p].reply EXCEPT ![s] = "err"]
           answered == {m \in MainStores : reply[m] # "inflight"}
       IN  put' = [put EXCEPT ![p] =
                     CASE @.state = "writing" /\ Cardinality(answered) = WriteQuorum -> Quorate(@, reply)
                       [] @.state = "writing" /\ Cardinality(answered) # WriteQuorum -> Recorded(@, reply)
                       [] OTHER -> [@ EXCEPT !.reply = Drop(reply, Group(s))]]
    /\ UNCHANGED <<blobs, wal>>

(* An error (or the timeout of TimedStore) comes back.  Before the quorum   *)
(* it is recorded, and the put fails when no write is left; after it the    *)
(* try_for_each of its group ends and drops the group's other writes.       *)
PutErr(p, s) ==
    /\ put[p].reply[s] = "inflight"
    /\ Fault
    /\ LET reply == [put[p].reply EXCEPT ![s] = "err"]
       IN  put' = [put EXCEPT ![p] =
                     IF @.state = "writing" THEN Recorded(@, reply)
                     ELSE [@ EXCEPT !.reply = Drop(reply, Group(s))]]
    /\ UNCHANGED <<blobs, wal>>

(* Mutant: delete_by_key although some store did not acknowledge. *)
PutDeleteUnclean(p) ==
    /\ put[p].state = "acked"
    /\ \A s \in Stores : put[p].reply[s] # "inflight"
    /\ DeleteByKey(put[p].shard, put[p].key)
    /\ put' = [put EXCEPT ![p].state = "done"]
    /\ UNCHANGED <<blobs, faults>>

(* The spawned task joined both groups without an error: delete_by_key. *)
PutDelete(p) ==
    /\ put[p].state = "acked"
    /\ put[p].clean
    /\ \A s \in Stores : put[p].reply[s] = "ok"
    /\ DeleteByKey(put[p].shard, put[p].key)
    /\ put' = [put EXCEPT ![p].state = "done"]
    /\ UNCHANGED <<blobs, faults>>

(* delete_by_key failed: the task ends, the entry stays for the healer. *)
PutDeleteErr(p) ==
    /\ put[p].state = "acked"
    /\ put[p].clean
    /\ \A s \in Stores : put[p].reply[s] = "ok"
    /\ Fault
    /\ put' = [put EXCEPT ![p].state = "done"]
    /\ UNCHANGED <<blobs, wal>>

Crashed(old) ==
    [old EXCEPT !.state = IF @ = "acked" THEN "done" ELSE "dead", !.reply = Drop(@, Stores)]

(* The server dies, or the caller drops put_impl before it answered.  A *)
(* caller that had its answer keeps it.                                  *)
PutCrash(p) ==
    /\ put[p].state \in {"writing", "acked"}
    /\ Fault
    /\ put' = [put EXCEPT ![p] = Crashed(@)]
    /\ UNCHANGED <<blobs, wal>>

PutStep(p, heldIds) ==
    \/ PutLog(p, heldIds)
    \/ PutLogErr(p, heldIds)
    \/ \E s \in Stores : PutLand(p, s) \/ PutOk(p, s) \/ PutErr(p, s)
    \/ PutDelete(p)
    \/ PutDeleteErr(p)
    \/ PutCrash(p)

PutInit ==
    put = [p \in Puts |-> [state |-> "idle", key |-> CHOOSE k \in Keys : TRUE, shard |-> 0,
                          age |-> 0, clean |-> FALSE, reply |-> NoReplies, landed |-> {}]]

PutTypeOK == put \in [Puts -> PutRecord]
=============================================================================
