---------------------------- MODULE BlobStorage ----------------------------
(***************************************************************************)
(* The persistent state a WAL multiplexed blobstore works on: the          *)
(* underlying blobstores and the sharded SQL table                         *)
(* `blobstore_write_ahead_log`, with the operations of the trait           *)
(* `BlobstoreWal` (blobstore_sync_queue/src/write_ahead_log.rs).           *)
(*                                                                         *)
(* A blob is abstracted to its presence: a key always names the same       *)
(* bytes.  Time is abstracted to ages, so that it can run for ever in a    *)
(* finite model: a row knows only whether it reached the healer's minimum  *)
(* age.                                                                    *)
(***************************************************************************)
EXTENDS Integers, FiniteSets

CONSTANTS
    Keys,             \* blobstore keys
    MainStores,       \* the "normal" blobstores: written by puts, read by gets
    WriteOnlyStores,  \* written by puts, never read by gets
    NumShards,        \* number of SQL shards of the WAL table
    RowIds,           \* ids a row of a shard can have (bounds the table)
    MinAge,           \* heal_min_age, in ticks
    MaxRetries,       \* MAX_WAL_RETRIES
    MaxFaults         \* bound on the errors and crashes of a behaviour

Stores == MainStores \cup WriteOnlyStores
Shards == 0 .. NumShards - 1

ASSUME StorageAssumption ==
    /\ Keys # {}
    /\ MainStores \cap WriteOnlyStores = {}
    /\ IsFiniteSet(MainStores) /\ IsFiniteSet(WriteOnlyStores)
    /\ NumShards \in Nat \ {0}
    /\ MinAge \in Nat \ {0}
    /\ MaxRetries \in Nat \ {0}
    /\ MaxFaults \in Nat

VARIABLES
    blobs,   \* blobs[s]: the keys present in blobstore s
    wal,     \* the rows of all shards of the WAL table
    faults   \* how many errors and crashes have happened

storageVars == <<blobs, wal, faults>>

(* BlobstoreWalEntry: `id` and `shard` are the ReadInfo of the row, `age` *)
(* stands for the timestamp; multiplex_id and blob_size select nothing.   *)
Row == [shard : Shards, id : RowIds, key : Keys, age : 0 .. MinAge, retry : 0 .. MaxRetries]

(* A store, the database or a process failed. *)
Fault == faults < MaxFaults /\ faults' = faults + 1

Present(k, s) == k \in blobs[s]

Replicated(k) == \A s \in Stores : Present(k, s)

Pending(k) == \E r \in wal : r.key = k

-----------------------------------------------------------------------------
(* Ids of shard sh that no row has and that no reader holds (AUTOINCREMENT *)
(* never hands an id out twice).                                           *)
FreeIds(sh, heldIds) == RowIds \ (heldIds \cup {r.id : r \in {q \in wal : q.shard = sh}})

(* log_many and its worker: the INSERT of one entry in the shard whose turn *)
(* it is.  The timestamp was taken before the INSERT, so the row may        *)
(* already be `age` old when it becomes visible.                            *)
LogEntry(sh, k, age, retry, heldIds) ==
    /\ FreeIds(sh, heldIds) # {}
    /\ wal' = wal \cup {[shard |-> sh, key |-> k, age |-> age, retry |-> retry,
                         id |-> CHOOSE i \in FreeIds(sh, heldIds) : TRUE]}

(* WalReadEntries: the rows `timestamp <= older_than` of one shard. *)
OldRows(sh) == {r \in wal : r.shard = sh /\ r.age = MinAge}

(* `read` goes round the shards of its range from `start`, taking rows in *)
(* no particular order until `limit` of them are taken.                   *)
Before(start, a, b) ==
    \/ start <= a /\ a < b
    \/ b < start /\ (start <= a \/ a < b)

IsRead(batch, range, limit, start) ==
    \A sh \in range :
        LET taken == Cardinality({r \in batch : r.shard \in range /\ Before(start, r.shard, sh)})
            mine  == Cardinality({r \in batch : r.shard = sh})
            old   == Cardinality(OldRows(sh))
        IN  mine = IF old <= limit - taken THEN old ELSE limit - taken

ReadEntries(range, limit) ==
    {batch \in SUBSET (UNION {OldRows(sh) : sh \in range}) :
        \E start \in range : IsRead(batch, range, limit, start)}

(* `delete`: WalDeleteEntries on the connection of one shard. *)
DeleteIds(sh, ids) == wal' = {r \in wal : ~(r.shard = sh /\ r.id \in ids)}

(* `delete_by_key`: ALL the rows of the key in the shard, whoever logged them. *)
DeleteByKey(sh, k) == wal' = {r \in wal : ~(r.shard = sh /\ r.key = k)}

-----------------------------------------------------------------------------
StorageInit ==
    /\ blobs = [s \in Stores |-> {}]
    /\ wal = {}
    /\ faults = 0

StorageTypeOK ==
    /\ blobs \in [Stores -> SUBSET Keys]
    /\ wal \subseteq Row
    /\ faults \in 0 .. MaxFaults
=============================================================================
