# A TLA+ model of Sapling's storage core

This directory specifies parts of the Sapling source tree in TLA+, checks them
with TLC on small instances and proves their main properties with TLAPS. It covers
three parts of Mononoke in which concurrency, crashes and retries meet: the **WAL
multiplexed blobstore** with the **blobstore healer**, the **bookmark store** with
those who follow its log, and the **asynchronous request queue** with its workers.
`PROJECT.json` maps every definition to the lines it models, and lists the runs,
the hazards and the theorems.

## The system

Sapling is three programs and their libraries:

* **Mononoke** (`eden/mononoke`), the server. Every immutable object is a blob in
  a *blobstore*; the mutable state (bookmarks, mappings, counters, queues) is in
  SQL. On top of them: derived data, pushrebase, cross-repo sync, the servers
  (`scs`, Mercurial and Git front ends) and background jobs.
* **The `sl` client** (`eden/scm`): commands in Python over Rust libraries, of
  which `indexedlog`, `metalog` and `dag` keep the persistent state.
* **EdenFS** (`eden/fs`), a virtual file system daemon in C++.

Beside them stand `watchman`, the web front ends in `addons`, and build files.

In production a Mononoke blobstore is a multiplex of several stores. A `put`

1. logs the key in the write-ahead log (WAL), an SQL table in several shards;
2. writes to all *main* stores at once, and answers Ok at the *write quorum*;
3. leaves the other writes, and those to the *write-only* stores, to background
   tasks, and deletes the WAL rows of the key if all of them succeeded.

A `get` asks the main stores and believes "not found" from a *read quorum*. The
healer is a job that reads WAL rows older than a minimum age, looks the key up in
every store, copies it where it is missing, logs again what it could not settle
and deletes the rows it read. `unlink` and the scrubbing `get` work on the same
stores.

A *bookmark* is a row of an SQL table, and every change of one adds a row to
`bookmarks_update_log`, whose ids order the history of a repository. A transaction
is tried up to ten times. It takes its log ids from `MAX(id) + 1`, where a collision
is a reason to retry, or, when a knob says so, takes a row lock per bookmark and its
ids from an auto-increment table. `LockedBookmarkTransaction` keeps such a lock while
its caller works. Shadow replicas apply batches of moves of another repository under
the ids they have there. Servers subscribe to the log, and jobs tail it, by asking for
ids larger than the last they saw.

An *asynchronous request* is a row of `long_running_request_queue`: new, in progress,
ready, polled or failed. Workers claim new rows whose dependencies have finished,
keep them alive while they compute, and store a result, or count a retry, or fail
the request with all that depend on it. A request of a backfill may be enqueued again:
its row stays as it is, and gets the dependencies it did not have. Every worker's loop
also looks for rows that nobody kept alive and puts them back. Above a limit on requests
in progress a claim is given back after a pause. Aborting a backfill fails its new
children and completes those in progress with an error.

## Modules

| Module | Models | State and actions |
|---|---|---|
| `BlobStorage` | the stores and the WAL table (`write_ahead_log.rs`) | `blobs[s]`, the set `wal` of rows, `faults`; `LogEntry`, `ReadEntries`, `DeleteIds`, `DeleteByKey` |
| `WalMultiplex` | `put_impl` and the tasks it spawns (`multiplex.rs`, `timed.rs`) | `put[p]`; `PutLog`, `PutLogErr`, `PutLand`, `PutOk`, `PutErr`, `PutDelete`, `PutDeleteErr`, `PutCrash` |
| `WalHealer` | `WalHealer` and its loop (`wal_healer.rs`, `main.rs`) | `healer[h]`; `HealerRead`, `HealerReadErr`, `HealerGet`, `HealerPut`, `HealerOutcome`, `HealerRequeue`, `HealerDelete`, `HealerCrash` |
| `BlobLife` | what both promise together (abstract) | `life[k]`: none, open, partial, whole |
| `WalSystem` | puts and healers composed, with time | `Tick`; the properties; the refinement mapping `Stage` |
| `WalReads` | `get_impl`, `is_present_impl`, `WalScrubBlobstore::get`, racing puts | `reader[r]`, `disabled`, `inflight` |
| `WalUnlink` | `unlink_impl`, next to puts and healers | `unlink` |
| `BookmarkStore` | `SqlBookmarksTransaction` and `LockedBookmarkTransaction` (`transaction.rs`, `locked_transaction.rs`) | tables `bookmarks`, `log`, `seqMax`/`autoInc`, `lockRows` with their holders `held`; `txn[w]`, a call and its current SQL transaction; one action per group of statements (`StartAttempt`, `AcquireLock`, `LockRowMissing`, `CreateLockRow`, `SeedSequence`, `AllocateLogId`, `FindNextUpdateLogId`, `WriteRow`, `StoreLog`, `StoreMirrorBatch`, `Commit`, ...) |
| `Bookmarks` | the store with a subscription (`subscription.rs`) and a reader of the log (`store.rs`) | `sub`, `tail`; `Subscribe`, `Refresh`, `ReadNextEntries` |
| `RequestTable` | the SQL statements of `requests_table/src/store.rs` | `table`, `deps`; operators that give the table after a statement |
| `AsyncRequests` | queue, workers, cleanup and abort (`queue.rs`, `worker.rs`) | `task[t]`, `cleaner`, `abort`, `behind`; `Enqueue`, `Dequeue`, `Admit`, `Throttle`, `Requeue`, `KeepAlive`, `Complete`, `ReadForRetry`, `RetryOrFail`, `FindAbandoned`, `AbortNew`, ..., `Crash`, `Age`, `Stall`, `FallBehind` |
| `MCWalSystem`, `MCWalReads`, `MCWalUnlink`, `MCBookmarks`, `MCAsyncRequests` | instances for TLC | shard ranges, justknob settings, operations, dependency graphs, symmetry |
| `WalMultiplexProofs` | what is known of puts, whatever else works on the same stores | |
| `WalSystemProofs` | the inductive invariant of puts and healers: puts and blobs, rows and healers, rows that watch over puts; the theorems on them; the unlink | |
| `WalReadProofs` | reads and scrubs that race puts | |
| `BookmarkProofs` | calls, and the log of the legacy path; what each step does to the record of its writer, and the locks it holds | |
| `BookmarkLockProofs` | rows, ids from the sequence, and which locks can deadlock | |
| `BookmarkOrderProofs` | replicas, and the order of ids in the log | |
| `BookmarkLogProofs` | what readers of the log rely on: replay, types, tailers and subscriptions | |
| `RequestProofs` | the invariant of the request queue, one lemma per action, the theorems | |

Choices in the modules of the blobstore:

* A blob is its presence. Keys are content hashes in practice, so two puts of a
  key write the same bytes; `ValueMismatch` of the scrub cannot occur.
* A write to one store is sent, takes effect (`PutLand`) and is answered
  (`PutOk`, `PutErr`) in three steps. An error may come back for a write that took
  effect, and a write that was given up may still take effect later.
* Time is ages that saturate: a row knows whether it reached the healer's minimum
  age, a put whether it passed the timeout. So time can run for ever, and the
  liveness runs need no clock bound.
* Errors and crashes are counted by `faults`, up to `MaxFaults`. The count is a
  bound for TLC and the meaning of "faults stop" for liveness; the theorems hold
  for every bound.
* A row id is any id that no row has and no reader holds, which abstracts
  AUTO_INCREMENT without an unbounded counter. `RowIds` bounds the table.
* The batching of inserts (`setup_worker`) and of deletes (`RendezVous`) groups
  independent queries, and is abstracted to one query.
* `HealerRead` reads all its shards in one step. The code takes one query per
  shard; nothing relates rows of different shards, so a row logged or deleted
  between two queries looks like one logged or deleted before or after them all,
  except that a row may be read although another shard's older row was not. That
  is also the result of the limit, which the model has.
* Mutants (`...Unclean`, `...OneLess` and so on, in all modules) stand before the
  definitions they alter. Each shows that a property fails when the code is changed
  that way. No specification uses them.

In the bookmark modules:

* The database is external and modelled as the comments of the code assume it:
  InnoDB at repeatable read. A plain SELECT reads the snapshot of the transaction's
  first one; writes and `FOR UPDATE` meet the newest committed rows and lock them;
  a `FOR UPDATE` that finds no row locks the gap where it would be, which keeps others
  from inserting there but not from locking the gap as well;
  a duplicate key waits for the transaction that inserted it; auto-increment values
  are never given back. A circle of waits is broken by failing one statement.
* A transaction's writes stay in `txn[w]` until it commits, so a rollback is to forget
  them. A failing commit may or may not have taken effect.
* `Reply` and `Written` say what each statement answers and leaves, collisions on
  `UNIQUE (repo_id, log_id)` included: `REPLACE` deletes the row it collides with, and
  `ON DUPLICATE KEY UPDATE` changes its changeset and keeps its `log_id`.
* `overlap` remembers that attempts of both kinds were in flight at the same time,
  during which nothing is promised about ids. `autoInc = 0` says that no id ever came
  from the sequence: the legacy path alone.
* A bookmark older than the table of lock rows has no row in it:
  `acquire_single_bookmark_lock` finds none (`LockRowMissing`), inserts one and locks it
  (`CreateLockRow`). The row is committed with the transaction, or gone with it. In the
  run all bookmarks have lock rows at the start, or none has.
* `Source` is the history of the repository a replica mirrors. Batches start at any
  point the sender may believe itself to be at, and may come twice and concurrently.

In the request modules:

* Which claimable row is claimed first is left open: `created_at` has a resolution of
  seconds, and `SKIP LOCKED` passes over rows.
* `update_for_retry_or_fail` and `mark_abandoned_request_as_new` read without
  `FOR UPDATE` and write afterwards, so each is a step that reads and one that writes.
* A row is `stale` when its timestamp is older than the abandonment threshold. `Age`
  makes it so when no task has it; `Stall` when one does, and counts as a fault. The
  cleanup compares with the time at which it started, so a row it holds does not age
  again before the next one. There is one cleanup loop; several would send
  the same updates more than once.
* `Crash` is the death of a worker or the failure of any statement of its task: both
  leave the row as it is.
* The queue starts empty, or with one row in progress that a worker left behind
  earlier (`Orphan`), so that a cleanup has work before any fault is counted.
* A request with a repository and a root (`Rooted`) may be enqueued at any time again,
  with the dependencies of any of the graphs: `compute_derive_backfill_repo`, which is
  retried like any request, cuts the slices of what is underived when it runs.
* `count_inprogress_by_types` and `get_requests_by_root_id` use `read_connection`, by
  default a replica (`mononoke_app`, `builder.rs:450-454`). `FallBehind` fixes what a
  replica shows of the rows in progress, and from then on such a read may see that
  (`Views`). It counts as a fault, so in the run a replica may lag where nothing else goes
  wrong; the theorems have any number of replicas at any distance.
* `requeued`, `stalled` and `uncounted` are history variables: they remember that
  something happened after which a promise no longer holds: a requeue of a row the task
  no longer had, a live worker taken for dead, a count that failed or left out a request
  in progress. `late[r]` are the dependencies `r` got after it was last claimed.

## Runs

| Run | Checks | Instance |
|---|---|---|
| `wal_system` | `TypeOK`, `NoPartialForgotten`, `AckedOnQuorum`, `ImplementsBlobLife` | 2 puts of one key, 2 main stores, 1 healer, 1 fault |
| `wal_healing` | `NoPartialForgotten`, `WrittenReachesAllStores`, `WalDrains`, `FetchSizeRecovers` | fair; 1 put, 2 main stores, 1 write-only, 1 fault |
| `wal_reads` | `ReadsTypeOK`, `ReadYourWrites`, `UndecidedOnlyOnFailure`, `ScrubFindsAcked` | get, is_present and the four scrub modes; 3 main stores, 1 write-only, pairs of them, all main ones or all disabled at any time, 2 faults |
| `wal_unlink` | `UnlinkedStaysGone` | an unlink with 1 put and 1 healer, 2 faults |
| `bookmarks` | `BookmarksTypeOK`, `LogReplaysToBookmarks`, `AllocatedIdsAreFree`, `LocksNeverDeadlock`, `OneCommitPerCall`, `ReplicaFollowsSource`, `CommitOrderIsIdOrder`, `LegacyIdsInCommitOrder`, `LegacySubscriptionIsCurrent`, `LegacyTailerMissesNothing` | 2 bookmarks, both with lock rows or both without, 2 callers, 2 calls of 2 attempts, every kind of operation, 1 fault, the knob turned once at any time; or a replica and 4 moves |
| `async_requests` | `RequestsTypeOK`, `WorkAfterDependencies`, `NoStallNoDuplicate`, `LimitHolds`, `NoFailureWithoutCause`, `ResultsAreFinal`, `EveryRequestSettles` | fair; 2 requests, independent or in a chain and enqueued again at any time, 2 tasks, 1 retry, limit 1, 1 fault or lag, an abort of one of them |

What they show:

* `NoPartialForgotten`: a key that is in some store and not in all has a row in the
  WAL, at every moment. This is the healer's licence to trust the WAL. It is threatened by
  `delete_by_key`, which deletes rows of other puts; by the healer's giving up
  after `MAX_WAL_RETRIES`; by two healers; by crashes between requeue and delete.
* `AckedOnQuorum`: an answered put is, and stays, on a write quorum.
* `ImplementsBlobLife`: no store is written before the row is there, a row is given
  up only while no store has the key, partial becomes only whole, whole stays.
* `WrittenReachesAllStores`, `WalDrains`: whatever reached some store reaches all,
  and the WAL becomes and stays empty. `FetchSizeRecovers`: the batch size that
  falls on read errors climbs back.
* `ReadYourWrites`: a read begun after the Ok of a put does not answer "absent" as
  long as a read quorum of main stores is enabled. `UndecidedOnlyOnFailure`: a read
  that cannot decide has met a failing store, or had none to ask. Disabling stores
  alone makes a read fail only when it takes all main stores, which the knob does not
  exclude: `get_impl` then answers `AllFailed` with no errors. `ScrubFindsAcked`: the
  same as the first for a scrub when no main store is disabled.
* `UnlinkedStaysGone`: a store that `unlink_impl` counts as done does not hold the
  key, when nothing else can write it.
* `LogReplaysToBookmarks`: the newest log row of a bookmark says where it is, on both
  paths and with locked transactions. `CommitOrderIsIdOrder`: the rows of
  one bookmark have their ids in commit order; `LegacyIdsInCommitOrder`: on the legacy
  path so have all rows of the repository. Together they are what consumers of the
  log build on.
* `AllocatedIdsAreFree`: the seed check keeps the sequence ahead of the log through
  changes of the knob in both directions, though it compares two values of a snapshot
  that may be old. `LocksNeverDeadlock`: sorted locks are enough for lock rows that are
  there; the row locks and duplicate keys met later close no circle of waits either. A
  circle needs two transactions that create lock rows in one gap: each has locked the gap
  and waits for the other to let it insert. InnoDB fails one of them, and `attempt_write`
  is tried again. It claims nothing once attempts of both
  kinds were in flight together (`overlap`): the ids of the sequence are then not free,
  and what a transaction waits for in a unique key is no longer decided by its locks.
* `OneCommitPerCall`: of the attempts of a call at most one takes effect, and the
  answer says so. `ReplicaFollowsSource`: replayed, regrouped and racing batches leave
  exactly the source's log up to the replica's id.
* `LegacySubscriptionIsCurrent`, `LegacyTailerMissesNothing`: while ids come from
  `MAX(id) + 1`, followers that only ask for larger ids miss nothing. The first exempts
  bookmarks last written by `creates_or_updates`, whose rows keep an old `log_id`, so that
  `SelectUpdatedBookmarks` takes them for deleted.
* `WorkAfterDependencies`: no task has a request one of whose dependencies at its claim
  lacks a result; those it gets later it does not wait for (`async_late_dependency`
  below). `NoStallNoDuplicate`: as long as no live worker was silent for longer than the
  threshold, no request is computed twice at a time. `ResultsAreFinal`: late workers,
  cleanups and aborts undo nothing that has settled. The exception is `requeue`, the
  one update without a condition on the status.
* `NoFailureWithoutCause`: without stalls and aborts, whatever failed is, or depends
  directly or not on, a request that failed with its retries used up.
* `LimitHolds`: checking the limit after the claim admits no more than the limit. It
  holds of counts that showed every request in progress. A lagging replica may not, and
  then the limit that `queue.rs:87` calls "maximum concurrent requests across all
  workers" is exceeded; TLC shows this when the premise is dropped. A task whose row was
  aborted or failed under it is not counted: it stops at its next keep-alive.
* `EveryRequestSettles`: no request stays pending for ever, whatever crashed, unless
  something it depends on failed or backing off never ends. The second
  exception is real: a request in its backoff is in progress and counts against the
  limit, so two tasks can throttle each other for ever with nothing running. TLC
  shows that behaviour when the exception is dropped; in production the jitter of the
  backoff makes it unlikely.

**Bounds.** Two main stores and quorum one are the smallest multiplex in which an
answered put is not everywhere. Three stores with quorum two give reads a quorum
that is neither one nor all. Two row retries (`MaxRetries = 2`), a minimum age of one
tick and a put timeout of one tick are the smallest values with
`PutTimeout < MaxRetries * MinAge` in which a put outlives one healing round; with one
retry less the property fails, which is the mutant of `wal_system`. Batches of
two halve once. `RowIds` of three or four leave room for a requeued copy beside
every row; when the table is full a log waits.

Two bookmarks and two callers are the fewest that meet in every way: on one bookmark,
on two in opposite order, and a small id that commits after a large one. Two calls of
two attempts let a retry meet a committed call. Two requests, two tasks and a limit of
one give a chain, a takeover, and a throttled claim; one retry is the smallest number
with a retry left and none left. The two graphs, nothing and a chain, let the second
request get its dependency before it is claimed, while it is worked on, or after it
settled. Larger instances were checked once: three calls for
bookmarks (12.8 million states), two faults for `wal_system` (3.7 million) and for the
safety of requests (1.3 million), and both requests aborted, with liveness (1.1
million).

**Fairness** (`FairSpec`). Weak fairness of the progress of each put (tokio polls
every task that is ready, the stores answer), of each healer (a supervisor restarts
it), and of time. No fairness of errors, crashes or late writes: nothing makes
them happen. `MaxFaults` makes them stop eventually; without that no store need ever
accept a write. For requests: weak fairness of the steps of each task, of the cleanup
loop and of the ageing of rows nobody attends to. None for enqueue, poll, abort,
keep-alive and faults. The cleanup runs at every turn of the loop of every worker, which is
what makes its fairness reasonable.

Several healers, several shards and `--drain-only` are covered by the theorems, which
hold for all values of the constants.

**Deadlock** is checked in the runs of the blobstore, where time always passes once puts
are settled. Bookmarks and requests may come to rest when all calls are answered and
all requests are settled, so their runs do not check it; waits for locks are the subject
of `LocksNeverDeadlock`, and `EveryRequestSettles` excludes a queue that is stuck.

### Disagreements between the code and its comments

Six runs are expected to find a violation:

* `wal_shard_range`: with `--shard-range` not starting at 0, the healer deletes rows
  of other shards: `read` tags rows with an index into the sliced connections,
  `delete` uses it on all of them.
* `wal_scrub_disabled`: the scrub's "quorum of blobstores saying the key doesn't
  exist" counts stores that were disabled and never asked.
* `wal_inflight`: `inflight_ops_counter` is not decremented for futures that an early
  return drops.
* `bookmarks_late_commit`: with per-bookmark locks a subscription at log id n may not
  have "bookmarks updated prior to this log id": an id is taken before its transaction
  commits, and one on another bookmark may overtake it. The subscription never asks
  for it again. A reader of the log skips the row in the same way.
* `async_abort`: `abort_children_by_root_id` fails the new children in one statement and
  reads the others in the next. A child that its worker retries, or the cleanup puts
  back, between the two is new again, is skipped, and runs after the abort returned. That
  the read is a replica's widens the window; the run needs no lag.
* `async_late_dependency`: `MarkTypeEnabled` is said to run "only once every leaf
  succeeds", and enqueueing it again to be "an idempotent no-op" (`backfill.rs:640-647`).
  The row is kept, but the dependencies are added, whatever its status: a request in
  progress is worked on while some of what it depends on has no result.

Four have no run: the comment of `unlink_impl` (`multiplex.rs:382-383`) says that
afterwards "the key should be present in no underlying blobstore", where the code leaves
the write-only stores out (399); `acquire_bookmark_locks` sorts "to prevent deadlocks"
(`transaction.rs:358`), which is true of lock rows that are there and not of two that are
created in one gap; the comment of `is_present_impl` says it returns an
`Error` where the code answers `ProbablyNotPresent`, and
`docs/2.4-storage-architecture.md` says that a write is logged if some backends fail,
where the code logs before it writes.

## Proofs

Every safety property that a passing run checks is also a theorem, for every value of
the constants that the assumptions allow. `PROJECT.json` lists them; here is what they
say beyond the runs, what they rest on, and the inductive invariant of each group. TLC
was used to look for a counterexample to every invariant, on the instances of the runs,
before it was proved.

### Puts and healers

`WalSystemProofs` proves, for every number of keys, stores, shards, puts, healers,
retries and faults:

* `TypeCorrect`: `Spec => []TypeOK`;
* `AckedStaysOnQuorum`: `Spec => []AckedOnQuorum`, for any healer options;
* `NothingPartialForgotten`: `Spec => []NoPartialForgotten`, when the healers heal
  (no `--drain-only`) and their ranges start at shard 0 (`HealsFromFirstShard`; the
  run `wal_shard_range` shows why);
* `RefinesBlobLife`: under the same condition, `Spec => ImplementsBlobLife`.

The assumptions are those named in the modules: `StorageAssumption`,
`MultiplexAssumption`, `HealerAssumption`. The one that matters is
`PutTimeout < MaxRetries * MinAge`: the code's defaults are 600 seconds, 20 retries and
120 seconds. With it goes an assumption on the stores, built into `CanLand`: a write
of a put that was not answered Ok takes effect within the timeout or never.

`NoPartialForgotten` is not inductive: a healer that has looked a key
up may delete the row on what it saw, and a put may write later. The inductive
invariant `IInv` has these parts:

* `PutsOK`, `BlobsOK`: what the state of a put says of its replies, and that what
  it wrote is there;
* `RowsOK`, `HeldOK`: row ids are unique in a shard, and a healer that holds a row
  which is still in the table holds that same row;
* `LooksOK`: what a healer has seen of a store is still true of it ("some" and
  "healed" keys stay);
* `CoveredOK`: for every put that began, the key is whole, or the put wrote nothing
  and no longer can, or a row `Watches` over it. Until the put has written somewhere
  the row is `Fresh`: it has been retried so rarely that it is no older than the put.
  And every healer that holds the row leaves it `Spared`: the healer has not yet
  decided, or will requeue it, and if this is the last retry it has not found the key
  missing in all the stores the put wrote.

The last needs arithmetic: a row is given up after `MaxRetries` rounds of at least
`MinAge`, and by then a put that has not been answered can no longer write
(`LastRetryIsLate`). `WriteAhead` and `StageStep` give the refinement.

### Reads, scrubs, unlink

`WalReadProofs` proves `ReadsTypeCorrect`, `ReadsFindWrites` (`Spec => []ReadYourWrites`),
`UndecidedMetFailure` (`UndecidedOnlyOnFailure`) and `ScrubsFindWrites`
(`ScrubFindsAcked`), for every number of stores, readers and puts, every write quorum
and every set of settings of the knob that disables stores, none of them excluded: a
setting may name all main stores, or all stores.

That two quorums meet is not enough: what a read concludes depends on which stores
it asked and when. `ReadsInv` says that what a reader concluded is what the answers it
has say (`Concluded`), and that a read begun after the Ok is `Backed`: there is a write
quorum of main stores that hold the key and of which none has answered "none". It is the
quorum of the put that was answered, fixed when the read begins; a store of it cannot
deny the key later, because nothing removes it. "Absent" needs a read quorum of denials
among the main stores, and the two sets would have to meet (`QuorumNumbers`). The counter
of requests in flight counts exactly the requests without an answer (`Counted`); the
run `wal_inflight` shows that these include those nobody waits for.

Of an unlink next to puts and healers, `WalSystemProofs` proves
`UnlinkedGone` (`UnlinkSpec => []UnlinkedStaysGone`). In `UnlinkInv`, an unlink that began
in quiet (no row of the key, no put of it alive, no healer that holds one of its rows)
stays in quiet, so no store it has counted as done gets the key again.

### Bookmarks

`BookmarkProofs`, `BookmarkLockProofs`, `BookmarkOrderProofs` and `BookmarkLogProofs`,
each on top of the one before, prove for every set of bookmarks, writers and payloads,
every number of attempts, calls, faults and turns of the knob:

* `CallsCommitOnce`: `Spec => []OneCommitPerCall`;
* `AllocatedIdsFree`: `Spec => []AllocatedIdsAreFree`;
* `LocksNeverDeadlocked`: `Spec => []LocksNeverDeadlock`, for circles of any length and
  every set of lock rows;
* `ReplicasFollow`: `Spec => []ReplicaFollowsSource`, for every source;
* `LegacyCommitOrder`: `Spec => LegacyIdsInCommitOrder`;
* `CommitsInIdOrder`: `Spec => CommitOrderIsIdOrder`;
* `LogReplays`: `Spec => []LogReplaysToBookmarks`;
* `BookmarkTypes`: `Spec => []BookmarksTypeOK`;
* `LegacyTailerComplete`: `Spec => [](~replica => LegacyTailerMissesNothing)`, for every
  batch size;
* `LegacySubscriptionCurrent`: `Spec => [](~replica => LegacySubscriptionIsCurrent)`.

The last two leave replicas out, and must. On a replica the ids are the source's, and
modern sync sends the moves of a flush bookmark by bookmark: with two bookmarks, the
later ids of one arrive before the earlier ids of the other, and whoever follows the log
by id misses some. TLC shows this as soon as the source moves two bookmarks. The runs
have a source with one, which is what the comment of `MirrorBookmarkMove` says is sent.

The assumptions are `BookmarkAssumption` (names are numbers, since locks are sorted;
payloads are non-empty sequences of operations), `SourceAssumption` (the ids of the
source increase, which `validate_chain` checks) and `LimitAssumption`.

For `OneCommitPerCall` the invariant is `CallInv`: while a call runs, nothing of it has
taken effect. `LegacyIdsInCommitOrder` is far from inductive: a step that commits says
nothing about the snapshot its ids came from. `LegacyInv` says, of a log to which the
sequence has not contributed, that its ids are `1 .. MaxLogId`; that the rows and the
unused ids of a transaction follow the maximum of its snapshot without a gap; that after
`store_log` this maximum is the newest one, because otherwise the transaction's first id
would have been taken; and that two transactions past `store_log` have no id in common,
because a unique key waits. A commit then appends (`EffectOnLog`), and it invalidates the
snapshot of every other transaction, none of which can be past `store_log` (`EffectStep`).

For the rest, every step is first described by what it does to the record of its
writer (`Described`: it begins, ends, takes effect, asks for a lock, seeds, allocates,
writes and so on), and the invariants are proved from the descriptions, so that a proof
is about a dozen kinds of steps and not about the fields of each action:

* `LockInv`, `GapInv`: a transaction takes its locks in order, holds none that is larger
  than one it still wants, and holds all of them before it reads ids or writes; a gap it
  has locked is that of a row it then created, or wants next. Those who
  wait in a circle all wait for a lock row or for a gap (`WaitsForLock`), because one that
  has its locks waits for nobody (`WriterWaitsForNone`). Of the rows they wait for, take
  the smallest: whoever holds a row wants only larger ones, so whoever waits for the one
  that wants the smallest waits for a gap of it, which reaches from a row not larger
  than the smallest to the row the waiter is creating. The smallest lies in that gap;
  if it were there it would divide the gap; so both are creating rows in it.
* `OverlapInv`: until `overlap`, all open transactions are on one path.
* `RowInv`, `SeqInv`: rows carry ids of the log, or of the transaction that wrote them;
  ids of the sequence table are not beyond its counter.
* `FreshInv`: the ids of a transaction on the new path are in nobody else's hands,
  not in the log, and above every committed row of the bookmarks it has locked. The
  seed check establishes this although its snapshot may be old: a row that the
  snapshot does not show was committed under an id of the sequence.
* `OldInv`: the ids of a transaction on the old path follow the maximum of its snapshot,
  and if that is no longer the newest, the first of them is in the log, so that
  `store_log` fails. With `FreshInv` this gives the order of ids of one bookmark.
* `UniqueInv`: one log row per id, on both paths and also after an overlap.
* `ReplayInv`: a transaction that may still commit has pending rows for exactly the
  bookmarks it logs, each where its last entry says. That a statement gives a row the
  value it logs is true only without a clash on `UNIQUE (repo_id, log_id)`; there is none
  because the id is free (`NextIdIsFree`).
* `NamedInv`: a row carries the id of a log row of its own bookmark, so no two bookmarks
  carry one id, although `REPLACE` and `ON DUPLICATE KEY UPDATE` may meet such a clash.
* `FollowInv`: a replica's row is that of a move, its log holds the moves up to it, a
  batch has no gap behind what the replica has, and after the compare-and-swap a
  transaction has exactly the moves that are missing.
* `TailInv`, `SubInv`: the position of a follower is in the log, and what it has is right
  up to there. New rows come behind it because the ids of the old path are in commit
  order; a batch is a stretch of the log (`ReadTail`).

### The request queue

`RequestProofs` proves, for every number of requests, tasks, retries, faults and
lagging replicas, every limit and every set of dependency graphs:

* `RequestTypes`: `Spec => []RequestsTypeOK`, the bound on `num_retries` included;
* `DependenciesFirst`: `Spec => []WorkAfterDependencies`;
* `NoDuplicates`: `Spec => []NoStallNoDuplicate`;
* `SettledStaysSettled`: `Spec => ResultsAreFinal`;
* `FailuresHaveCauses`: `Spec => []NoFailureWithoutCause`;
* `LimitIsKept`: `Spec => []LimitHolds`.

The assumptions are `RequestAssumption` and `AsyncAssumption`, which say what the
constants are; requests are finitely many, since the limit counts them. `Inv`
strengthens the first properties by four facts. An
occupied task has a request (`TasksHaveRequests`). A finished row has a result
(`FinishedHasResult`), so a claim, which looks at the status of dependencies, says
something about their results, and results are never cleared; the dependencies it
has seen are all but the `late` ones. A row that has not
settled has none, until a requeue goes wrong (`UnfinishedHasNone`). And, until a
stall, the row of a request with a task is neither new nor stale (`AttendedIsSafe`):
it can be neither claimed again nor taken for abandoned. A step with
a few abstract features (`StepOK`) keeps `Inv` and is allowed by `ResultsAreFinal`; each
action has these features, and a claim, the one step that gives a task a request, is
treated by itself (`DequeueKeeps`).

`NoFailureWithoutCause` holds in calm, that is without stalls and aborts. `CalmInv` adds
that a request in a task's hands is in progress, that a task about to fail it has seen
the last retry, that a row the cleanup is about to fail is in nobody's hands and out of
retries (`Spent`), and that every failed row has a failed and spent one among those it
depends on (`FailuresHaveRoots`). A step in calm is `GentleStep`: it leaves spent rows
spent, and fails a row only together with such a root. Dependencies are only added, so a
root stays a root.

The limit needs no calm. Without stalls, tasks have rows of their own
(`RowsOfTheirOwn`), so the tasks past `Admit` whose rows are in progress (`Busy`) are no
more than the rows in progress. A task that passes has counted all of these, itself
included (`LimitOfBusy`); every other step leaves `Busy` as it is or smaller.

### Only model-checked

Liveness (`WrittenReachesAllStores`, `WalDrains`, `FetchSizeRecovers`,
`EveryRequestSettles`): it rests on fairness and `ENABLED`, which the prover does not
treat. And the followers of a replica that mirrors one bookmark: there the two properties
hold in the run, and no theorem says so yet.

## Not modelled, and the plan

Every part of the tree is listed under "components" in `PROJECT.json` with the
reason it is left out. The tree has more than 800,000 lines of implementation; these
modules cover the few thousand in which the state of the server is changed
concurrently, and most of the rest has no state that a model would add anything to.

Of the modelled parts:

* bookmarks: scratch bookmarks, which have no log; kinds; transactions over several
  repositories (`multi_repo_bookmarks_transaction`); several mirror batches in one
  transaction; reads from a lagging replica of the database; a knob that differs between
  hosts other than for a while (`overlap`); liveness, since nothing bounds the number of
  collisions;
* requests: loading repositories on demand and their reference counts; the window of
  the backfill scheduler, which enqueues children as others finish, and its own
  handling of an abort; listings from a replica (the statement that follows one,
  `MarkReadyRequestsFailed`, looks at the status itself); filters by repository and
  type; several concurrency groups; statistics.

In order of importance, the plan is:

1. **Pushrebase** on top of bookmarks: the retry loop, the batching queue, the locked
   transaction; refinement to an atomic rebase.
2. **Derivation queues**: dependencies and leases.
3. **Consumers of the bookmark log** (backsyncer, modern sync): the counter that is
   stored in the transaction of the work it counts.
4. **indexedlog / metalog** of the client: appends, lagging indexes, multi-log
   metadata, rotation, repair after a crash; **takeover** and **journal** of EdenFS.
5. **Proofs** about what the plan adds; every safety property of a passing run has
   one now.

Left out for good: formats and protocols, derived data (pure functions of commits),
command-line tools, user interfaces, generated code.
