------------------------------ MODULE WalHealer ------------------------------
(***************************************************************************)
(* The blobstore healer (jobs/blobstore_healer/src/wal_healer.rs, main.rs):*)
(* read a batch of old WAL rows, look each key up in every store, copy it  *)
(* where it is missing, log again what could not be healed, delete the     *)
(* rows that were read.                                                    *)
(*                                                                         *)
(* Any error ends the process (schedule_healing returns it); a supervisor  *)
(* starts it again.  That is HealerCrash, which may happen between any two *)
(* steps.                                                                  *)
(***************************************************************************)
EXTENDS BlobStorage

CONSTANTS
    Healers,       \* healer processes
    FirstShard,    \* --shard-range of each healer: its first shard ...
    LastShard,     \* ... and its last
    BatchSize,     \* sync_queue_limit
    DrainOnly      \* --drain-only

ASSUME HealerAssumption ==
    /\ FirstShard \in [Healers -> Shards]
    /\ LastShard \in [Healers -> Shards]
    /\ \A h \in Healers : FirstShard[h] <= LastShard[h]
    /\ BatchSize \in Nat \ {0}
    /\ DrainOnly \in BOOLEAN

VARIABLE healer   \* healer[h]: one process running heal_impl in a loop

(* What heal_blob knows of a key in one store: the answer to its get, then *)
(* that of the put that heals it.                                          *)
Looks == {"asked", "some", "none", "err", "healed", "failed"}

Phases == {"fetch", "heal", "requeue", "cleanup"}

HealerRecord ==
    [phase   : Phases,
     current : 1 .. BatchSize,             \* current_fetch_size
     fetch   : 1 .. BatchSize,             \* fetch_size of the running fetch_entries
     batch   : SUBSET Row,                 \* the rows read and not yet deleted
     look    : [Keys -> [Stores -> Looks]],
     requeue : SUBSET Row]                 \* to_enqueue, not yet logged

Unasked == [k \in Keys |-> [s \in Stores |-> "asked"]]

Started == [phase |-> "fetch", current |-> BatchSize, fetch |-> BatchSize,
            batch |-> {}, look |-> Unasked, requeue |-> {}]

ReadRange(h) == FirstShard[h] .. LastShard[h]

(* from_row: the shard_id of an entry is its shard's index in the slice of *)
(* connections that with_read_range kept.                                  *)
ReadShardId(h, r) == r.shard - FirstShard[h]

BatchKeys(h) == {r.key : r \in healer[h].batch}

HeldIds == UNION {{r.id : r \in healer[h].batch} : h \in Healers}

-----------------------------------------------------------------------------
(* Mutant: growth of a tenth, without the `+ 1`. *)
GrownFetchSlow(fetch, current) ==
    LET grown == fetch + (fetch \div 10)
    IN  IF fetch # current THEN fetch ELSE IF grown < BatchSize THEN grown ELSE BatchSize

(* fetch_entries, Ok: the next fetch is larger if this one succeeded at once. *)
GrownFetch(fetch, current) ==
    LET grown == fetch + (fetch \div 10) + 1
    IN  IF fetch # current THEN fetch ELSE IF grown < BatchSize THEN grown ELSE BatchSize

(* heal_impl: nothing to do, --drain-only, or heal. *)
ReadPhase(batch) ==
    IF batch = {} THEN "fetch" ELSE IF DrainOnly THEN "cleanup" ELSE "heal"

HealerRead(h) ==
    \E batch \in ReadEntries(ReadRange(h), healer[h].fetch) :
        LET size == GrownFetch(healer[h].fetch, healer[h].current)
        IN  /\ healer[h].phase = "fetch"
            /\ healer' = [healer EXCEPT ![h] =
                 [phase |-> ReadPhase(batch), current |-> size, fetch |-> size,
                  batch |-> batch, look |-> Unasked, requeue |-> {}]]
            /\ UNCHANGED storageVars

Shrunk(old) == [old EXCEPT !.fetch = @ \div 2]

(* fetch_entries, Err: fall in size fast, give up below one. *)
HealerReadErr(h) ==
    /\ healer[h].phase = "fetch"
    /\ Fault
    /\ healer' = [healer EXCEPT ![h] =
         IF @.fetch \div 2 < 1 THEN Started ELSE Shrunk(@)]
    /\ UNCHANGED <<blobs, wal>>

(* fetch_blob: the get of one key from one store. *)
HealerGet(h, k, s) ==
    /\ healer[h].phase = "heal"
    /\ k \in BatchKeys(h)
    /\ healer[h].look[k][s] = "asked"
    /\ \/ /\ healer' = [healer EXCEPT ![h].look[k][s] = IF Present(k, s) THEN "some" ELSE "none"]
          /\ UNCHANGED storageVars
       \/ /\ Fault
          /\ healer' = [healer EXCEPT ![h].look[k][s] = "err"]
          /\ UNCHANGED <<blobs, wal>>

Fetched(h, k) == \A s \in Stores : healer[h].look[k][s] # "asked"

Found(h, k) == \E s \in Stores : healer[h].look[k][s] = "some"

(* try_heal: the put into one store that misses the key or failed to say. *)
HealerPut(h, k, s) ==
    /\ healer[h].phase = "heal"
    /\ k \in BatchKeys(h)
    /\ Fetched(h, k) /\ Found(h, k)
    /\ healer[h].look[k][s] \in {"none", "err"}
    /\ \/ /\ blobs' = [blobs EXCEPT ![s] = @ \cup {k}]
          /\ healer' = [healer EXCEPT ![h].look[k][s] = "healed"]
          /\ UNCHANGED <<wal, faults>>
       \/ /\ Fault
          /\ blobs' = [blobs EXCEPT ![s] = @ \cup {k}] \/ UNCHANGED blobs
          /\ healer' = [healer EXCEPT ![h].look[k][s] = "failed"]
          /\ UNCHANGED wal

(* HealBlobOutcome: the key is healed when neither of these holds. *)
MissingBlob(h, k) == \A s \in Stores : healer[h].look[k][s] = "none"

MissingBlobstores(h, k) ==
    IF Found(h, k) THEN \E s \in Stores : healer[h].look[k][s] = "failed"
                   ELSE \E s \in Stores : healer[h].look[k][s] = "err"

Settled(h, k) ==
    /\ Fetched(h, k)
    /\ Found(h, k) => \A s \in Stores : healer[h].look[k][s] \in {"some", "healed", "failed"}

(* Mutants: one retry more, and one less, than MAX_WAL_RETRIES. *)
ToEnqueueOneMore(h) ==
    {r \in healer[h].batch : MissingBlobstores(h, r.key)}
      \cup {r \in healer[h].batch : MissingBlob(h, r.key) /\ r.retry <= MaxRetries}

ToEnqueueOneLess(h) ==
    {r \in healer[h].batch : MissingBlobstores(h, r.key)}
      \cup {r \in healer[h].batch : MissingBlob(h, r.key) /\ r.retry + 1 < MaxRetries}

(* The entries heal_impl logs again, with the retry count it gives them. *)
ToEnqueue(h) ==
    {r \in healer[h].batch : MissingBlobstores(h, r.key)}
      \cup {r \in healer[h].batch : MissingBlob(h, r.key) /\ r.retry < MaxRetries}

Requeuing(old, entries) ==
    [old EXCEPT !.requeue = entries,
                !.phase = IF entries = {} THEN "cleanup" ELSE "requeue"]

HealerOutcome(h) ==
    /\ healer[h].phase = "heal"
    /\ \A k \in BatchKeys(h) : Settled(h, k)
    /\ healer' = [healer EXCEPT ![h] = Requeuing(@, ToEnqueue(h))]
    /\ UNCHANGED storageVars

(* Mutant: the retry count is never incremented. *)
HealerRequeueForever(h) ==
    \E r \in healer[h].requeue, sh \in Shards :
        /\ healer[h].phase = "requeue"
        /\ LogEntry(sh, r.key, 0, r.retry, HeldIds)
        /\ healer' = [healer EXCEPT ![h] = Requeuing(@, @.requeue \ {r})]
        /\ UNCHANGED <<blobs, faults>>

(* enqueue_entries: one entry of the log_many, with a fresh timestamp. *)
HealerRequeue(h) ==
    \E r \in healer[h].requeue, sh \in Shards :
        /\ healer[h].phase = "requeue"
        /\ LogEntry(sh, r.key, 0, IF MissingBlob(h, r.key) THEN r.retry + 1 ELSE r.retry, HeldIds)
        /\ healer' = [healer EXCEPT ![h] = Requeuing(@, @.requeue \ {r})]
        /\ UNCHANGED <<blobs, faults>>

Deleted(old, sent) ==
    IF old.batch = sent
    THEN [old EXCEPT !.batch = {}, !.phase = "fetch", !.look = Unasked]
    ELSE [old EXCEPT !.batch = @ \ sent]

(* cleanup_after_healing: `delete` sends the ids of each shard_id to that  *)
(* index of write_connections.                                             *)
HealerDelete(h) ==
    \E sh \in {ReadShardId(h, r) : r \in healer[h].batch} :
        LET sent == {r \in healer[h].batch : ReadShardId(h, r) = sh}
        IN  /\ healer[h].phase = "cleanup"
            /\ DeleteIds(sh, {r.id : r \in sent})
            /\ healer' = [healer EXCEPT ![h] = Deleted(@, sent)]
            /\ UNCHANGED <<blobs, faults>>

(* A failed query, or the end of the process; it starts again from nothing. *)
HealerCrash(h) ==
    /\ Fault
    /\ healer' = [healer EXCEPT ![h] = Started]
    /\ UNCHANGED <<blobs, wal>>

HealerStep(h) ==
    \/ HealerRead(h)
    \/ HealerReadErr(h)
    \/ \E k \in Keys, s \in Stores : HealerGet(h, k, s) \/ HealerPut(h, k, s)
    \/ HealerOutcome(h)
    \/ HealerRequeue(h)
    \/ HealerDelete(h)
    \/ HealerCrash(h)

HealerInit == healer = [h \in Healers |-> Started]

HealerTypeOK == healer \in [Healers -> HealerRecord]
=============================================================================
