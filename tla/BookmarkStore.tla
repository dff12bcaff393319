--------------------------- MODULE BookmarkStore ---------------------------
(***************************************************************************)
(* The write path of SqlBookmarks (repo_attributes/bookmarks/dbbookmarks): *)
(* SqlBookmarksTransaction (transaction.rs), which retries one SQL         *)
(* transaction per attempt, and LockedBookmarkTransaction                  *)
(* (locked_transaction.rs).  One repository, publishing bookmarks.         *)
(*                                                                         *)
(* A step is one SQL statement, or several whose interleaving with other   *)
(* connections nobody can observe.  The database is the one the code       *)
(* assumes: InnoDB at repeatable read.  A plain SELECT reads the snapshot  *)
(* taken by the first one of the transaction; UPDATE, INSERT, DELETE and   *)
(* FOR UPDATE read the newest committed row and keep it locked to the end  *)
(* of the transaction; a FOR UPDATE that finds no row locks the gap where   *)
(* it would be, against inserts of others but not against their locks; a   *)
(* unique key waits for an uncommitted duplicate; AUTO_INCREMENT values    *)
(* are taken at once and never given back.                                 *)
(***************************************************************************)
EXTENDS Integers, Sequences, FiniteSets, FiniteSetsExt

CONSTANTS
    Names,        \* bookmark names; their order is the order of the numbers
    Changesets,
    NoCs,         \* no changeset: an absent bookmark, or a NULL in the log
    Writers,      \* callers of commit_with_hooks, each with a connection
    NoWriter,
    Ops,          \* payloads: operations, in the order attempt_write stores them
    Source,       \* the moves of the repository a replica mirrors, in log order
    MaxAttempts,  \* MAX_BOOKMARK_TRANSACTION_ATTEMPT_COUNT
    MaxCalls,     \* bound on the calls of a behaviour
    MaxFaults,    \* bound on failing statements
    MaxFlips      \* bound on changes of the per_bookmark_locking knob

(* What an operation does not look at is NoCs. *)
Operations ==
    [kind : {"force_set", "create", "create_or_update"}, name : Names, old : {NoCs}, new : Changesets]
    \cup [kind : {"update"}, name : Names, old : Changesets, new : Changesets]
    \cup [kind : {"force_delete"}, name : Names, old : {NoCs}, new : {NoCs}]
    \cup [kind : {"delete"}, name : Names, old : Changesets, new : {NoCs}]

(* MirrorBookmarkMove: deletions are not mirrored. *)
Moves == [name : Names, log_id : Nat \ {0}, old : Changesets \cup {NoCs}, new : Changesets]

ASSUME BookmarkAssumption ==
    /\ Names \subseteq Nat
    /\ NoCs \notin Changesets
    /\ NoWriter \notin Writers
    /\ Ops \subseteq Seq(Operations) \ {<<>>}
    /\ MaxAttempts \in Nat \ {0}

(* validate_chain: "ordered by strictly increasing `log_id`". *)
ASSUME SourceAssumption ==
    /\ Source \in Seq(Moves) \ {<<>>}
    /\ \A i, j \in DOMAIN Source : i < j => Source[i].log_id < Source[j].log_id

VARIABLES
    bookmarks,   \* the committed rows of bookmarks, NoRow when there is none
    log,         \* the committed rows of bookmarks_update_log
    seqMax,      \* the largest committed id of bookmark_log_id_sequence
    autoInc,     \* the last AUTO_INCREMENT value of that table
    lockRows,    \* the committed rows of bookmark_update_locks
    held,        \* held[n]: who has its row of bookmark_update_locks locked
    txn,         \* txn[w]: one call and its current SQL transaction
    replica,     \* this repository is a *_shadow replica, written by mirror batches only
    knob,        \* scm/mononoke:per_bookmark_locking
    overlap,     \* history: attempts of both kinds were in flight together
    calls, faults, flips

storeVars ==
    <<bookmarks, log, seqMax, lockRows, autoInc, held, txn, replica, knob, overlap, calls, faults, flips>>

NoRow == [cs |-> NoCs, log_id |-> 0]
Present(row) == row.cs # NoCs

Ids(entries) == {e.id : e \in entries}
MaxLogId == Max({0} \cup Ids(log))

(* A statement of the current SQL transaction is next in one of these. *)
Running == {"lock", "max", "seed", "alloc", "write", "mirror", "commit", "held"}

Outcomes == {"none", "some", "null", "processed", "err"}

(* What a rolled-back transaction leaves of the record. *)
Cleared(t, pc) ==
    [t EXCEPT !.pc = pc, !.wants = {}, !.gaps = {}, !.ids = <<>>, !.todo = <<>>, !.pend = <<>>,
              !.entries = {}, !.snap = <<>>, !.pseq = 0, !.locking = FALSE]

Fresh ==
    [pc |-> "idle", attempt |-> 0, locked |-> FALSE, locking |-> FALSE,
     ops |-> <<>>,
     moves |-> {},     \* a mirror batch: which moves of the source
     wants |-> {},     \* locks still to take
     gaps |-> {},      \* lock rows it found missing: the gaps they fall in are locked
     ids |-> <<>>,     \* log ids allocated and not yet used
     todo |-> <<>>,    \* operations still to write
     pend |-> <<>>,    \* uncommitted rows of bookmarks, by name
     entries |-> {},   \* log rows of this transaction
     snap |-> <<>>,    \* the snapshot, once there is one
     pseq |-> 0,       \* largest uncommitted id of the sequence table
     commits |-> 0,    \* history: transactions of this call that took effect
     outcome |-> "none"]

Touched(w) == DOMAIN txn[w].pend
Inserted(w) == IF txn[w].pc = "commit" THEN txn[w].entries ELSE {}

(* The rows as a writing statement of w sees them. *)
View(w) == [n \in Names |-> IF n \in Touched(w) THEN txn[w].pend[n] ELSE bookmarks[n]]

Snapshot == <<[bookmarks |-> bookmarks, log |-> MaxLogId, seq |-> seqMax]>>
Snap(w) == IF txn[w].snap = <<>> THEN Snapshot[1] ELSE txn[w].snap[1]

-----------------------------------------------------------------------------
Becomes(w, t) == txn' = [txn EXCEPT ![w] = t]

(* The end of a transaction and of a call. *)
Released(w) == [n \in Names |-> IF held[n] = w THEN NoWriter ELSE held[n]]

Ended(commits, outcome) == [Fresh EXCEPT !.pc = "done", !.commits = commits, !.outcome = outcome]

Return(w, outcome) ==
    /\ Becomes(w, Ended(txn[w].commits, outcome))
    /\ held' = Released(w)

(* RetryableError: another attempt while there are any, else Err. *)
Retry(w) ==
    IF txn[w].attempt < MaxAttempts /\ ~txn[w].locked
    THEN /\ Becomes(w, [Cleared(txn[w], "start") EXCEPT !.attempt = txn[w].attempt + 1])
         /\ held' = Released(w)
    ELSE Return(w, "err")

Fault == faults < MaxFaults /\ faults' = faults + 1

tables == <<bookmarks, log, seqMax, lockRows>>
env == <<replica, knob, flips>>

-----------------------------------------------------------------------------
MovesOf(n) == {i \in DOMAIN Source : Source[i].name = n}
Stretch(i, j) == {k \in MovesOf(Source[i].name) : i <= k /\ k <= j}

(* What modern_sync sends to a replica: any stretch of the moves of a     *)
(* bookmark that starts at its checkpoint, which lags behind what the     *)
(* replica has.                                                           *)
Checkpoints ==
    {i \in DOMAIN Source : LET n == Source[i].name
                           IN  \A k \in MovesOf(n) : k < i => Source[k].log_id <= bookmarks[n].log_id}

MirrorBatches == UNION {{Stretch(i, j) : j \in i .. Len(Source)} : i \in Checkpoints}

(* commit_with_hooks is called with the operations of one transaction. *)
Submit(w) ==
    /\ txn[w].pc = "idle"
    /\ calls < MaxCalls
    /\ calls' = calls + 1
    /\ \/ /\ ~replica
          /\ \E ops \in Ops : Becomes(w, [Fresh EXCEPT !.pc = "start", !.attempt = 1, !.ops = ops])
       \/ /\ replica
          /\ \E moves \in MirrorBatches :
               Becomes(w, [Fresh EXCEPT !.pc = "start", !.attempt = 1, !.moves = moves])
    /\ UNCHANGED <<tables, autoInc, held, overlap, faults, env>>

(* start_locked_transaction is called; it does not look at the knob.  The *)
(* changesets of its one update are known only at commit.                 *)
SubmitLocked(w) ==
    /\ txn[w].pc = "idle"
    /\ ~replica
    /\ calls < MaxCalls
    /\ calls' = calls + 1
    /\ \E n \in Names :
         Becomes(w, [Fresh EXCEPT !.pc = "lock", !.attempt = 1, !.locked = TRUE, !.locking = TRUE, !.wants = {n},
                                  !.ops = <<[kind |-> "update", name |-> n, old |-> NoCs, new |-> NoCs]>>])
    /\ overlap' = (overlap \/ \E v \in Writers : txn[v].pc \in Running /\ ~txn[v].locking)
    /\ UNCHANGED <<tables, autoInc, held, faults, env>>

(* The caller has the answer and may call again. *)
Answered(w) ==
    /\ txn[w].pc = "done"
    /\ calls < MaxCalls
    /\ Becomes(w, Fresh)
    /\ UNCHANGED <<tables, autoInc, held, overlap, calls, faults, env>>

BookmarkNames(t) == {t.ops[i].name : i \in DOMAIN t.ops} \cup {Source[i].name : i \in t.moves}

(* The knob is read in every attempt, after the hooks. *)
StartAttempt(w) ==
    /\ txn[w].pc = "start"
    /\ IF knob
       THEN Becomes(w, [txn[w] EXCEPT !.pc = "lock", !.locking = TRUE, !.wants = BookmarkNames(txn[w])])
       ELSE Becomes(w, [txn[w] EXCEPT !.pc = "max"])
    /\ overlap' = (overlap \/ \E v \in Writers : txn[v].pc \in Running /\ txn[v].locking # knob)
    /\ UNCHANGED <<tables, autoInc, held, calls, faults, env>>

(* Two lock rows that are not there fall in one gap when no row is between *)
(* them.                                                                   *)
LockRowExists(n) == n \in lockRows \/ held[n] # NoWriter
SameGap(m, n) == \A k \in Names : LockRowExists(k) => ~(m < k /\ k < n) /\ ~(n < k /\ k < m)

WaitsForGaps(w, n) == {v \in Writers \ {w} : \E m \in txn[v].gaps : SameGap(m, n)}

(* INSERT IGNORE of the lock row is next. *)
Creating(w) == txn[w].pc = "lock" /\ txn[w].wants # {} /\ Min(txn[w].wants) \in txn[w].gaps

TakeLock(w, n) ==
    /\ held[n] = NoWriter
    /\ held' = [held EXCEPT ![n] = w]
    /\ Becomes(w, [txn[w] EXCEPT !.wants = @ \ {n}])
    /\ UNCHANGED <<tables, autoInc, overlap, calls, faults, env>>

(* Mutant: the locks are taken in the order of the operations. *)
AcquireLockUnsorted(w) ==
    /\ txn[w].pc = "lock"
    /\ txn[w].wants # {}
    /\ \E n \in txn[w].wants \cap lockRows :
         /\ \E i \in DOMAIN txn[w].ops :
              txn[w].ops[i].name = n /\ \A j \in 1 .. i - 1 : txn[w].ops[j].name \notin txn[w].wants
         /\ TakeLock(w, n)

(* Mutant: the lock row is read without FOR UPDATE. *)
AcquireLockShared(w) ==
    /\ txn[w].pc = "lock"
    /\ txn[w].wants # {}
    /\ LET n == Min(txn[w].wants)
       IN  /\ n \in lockRows
           /\ held' = [held EXCEPT ![n] = w]
           /\ Becomes(w, [txn[w] EXCEPT !.wants = @ \ {n}])
    /\ UNCHANGED <<tables, autoInc, overlap, calls, faults, env>>

(* acquire_bookmark_locks: one row after the other, in the order of names. *)
AcquireLock(w) ==
    /\ txn[w].pc = "lock"
    /\ txn[w].wants # {}
    /\ LET n == Min(txn[w].wants) IN n \in lockRows /\ TakeLock(w, n)

(* acquire_single_bookmark_lock: the row of a legacy bookmark is not there. *)
LockRowMissing(w) ==
    /\ txn[w].pc = "lock"
    /\ txn[w].wants # {}
    /\ LET n == Min(txn[w].wants)
       IN  /\ ~LockRowExists(n) /\ n \notin txn[w].gaps
           /\ Becomes(w, [txn[w] EXCEPT !.gaps = @ \cup {n}])
    /\ UNCHANGED <<tables, autoInc, held, overlap, calls, faults, env>>

(* ... and is created, and locked by the second SELECT. *)
CreateLockRow(w) ==
    /\ Creating(w)
    /\ LET n == Min(txn[w].wants) IN WaitsForGaps(w, n) = {} /\ TakeLock(w, n)

(* All locks are held.  A locked transaction reads the bookmark and returns *)
(* to its caller; a mirror batch allocates no id and reads the bookmark.    *)
LocksHeld(w) ==
    /\ txn[w].pc = "lock"
    /\ txn[w].wants = {}
    /\ CASE txn[w].locked -> Becomes(w, [txn[w] EXCEPT !.pc = "held", !.snap = Snapshot])
         [] ~txn[w].locked /\ replica -> Becomes(w, [txn[w] EXCEPT !.pc = "mirror", !.snap = Snapshot])
         [] OTHER -> Becomes(w, [txn[w] EXCEPT !.pc = "seed", !.todo = txn[w].ops])
    /\ UNCHANGED <<tables, autoInc, held, overlap, calls, faults, env>>

(* LockedBookmarkTransaction::commit: refused when the bookmark was absent; *)
(* otherwise a compare-and-swap from the value read under the lock.         *)
LockedCommit(w) ==
    /\ txn[w].pc = "held"
    /\ LET op  == txn[w].ops[1]
           old == Snap(w).bookmarks[op.name].cs
       IN  IF old = NoCs
           THEN Return(w, "err")
           ELSE /\ \E new \in Changesets \ {old} :
                     Becomes(w, [txn[w] EXCEPT !.pc = "seed", !.todo = <<[op EXCEPT !.old = old, !.new = new]>>])
                /\ UNCHANGED held
    /\ UNCHANGED <<tables, autoInc, overlap, calls, faults, env>>

(* LockedBookmarkTransaction::rollback, or the value is dropped. *)
LockedRollback(w) ==
    /\ txn[w].pc = "held"
    /\ Return(w, "null")
    /\ UNCHANGED <<tables, autoInc, overlap, calls, faults, env>>

-----------------------------------------------------------------------------
(* Mutant: the sequence is never compared with the log. *)
SeedSequenceNever(w) ==
    /\ txn[w].pc = "seed"
    /\ Becomes(w, [txn[w] EXCEPT !.pc = "alloc", !.snap = <<Snap(w)>>])
    /\ UNCHANGED <<tables, autoInc, held, overlap, calls, faults, env>>

(* allocate_log_ids_from_sequence, the seed check: both maxima come from *)
(* one snapshot, which for a locked transaction may be an old one.       *)
SeedSequence(w) ==
    /\ txn[w].pc = "seed"
    /\ LET s      == Snap(w)
           target == IF s.log > s.seq THEN s.log + 1 ELSE 0
       IN  /\ autoInc' = Max({autoInc, target})
           /\ Becomes(w, [txn[w] EXCEPT !.pc = "alloc", !.snap = <<s>>, !.pseq = target])
    /\ UNCHANGED <<tables, held, overlap, calls, faults, env>>

(* allocate_log_ids_from_sequence, one turn of the loop. *)
AllocateLogId(w) ==
    /\ txn[w].pc = "alloc"
    /\ Len(txn[w].ids) < Len(txn[w].todo)
    /\ autoInc' = autoInc + 1
    /\ Becomes(w, [txn[w] EXCEPT !.ids = Append(@, autoInc + 1), !.pseq = autoInc + 1,
                                 !.pc = IF Len(txn[w].ids) + 1 = Len(txn[w].todo) THEN "write" ELSE "alloc"])
    /\ UNCHANGED <<tables, held, overlap, calls, faults, env>>

(* find_next_update_log_id: MAX(id) + 1 of the snapshot, then consecutive. *)
FindNextUpdateLogId(w) ==
    /\ txn[w].pc = "max"
    /\ Becomes(w, [txn[w] EXCEPT !.pc = IF replica THEN "mirror" ELSE "write", !.snap = Snapshot,
                                 !.ids = [i \in 1 .. Len(txn[w].ops) |-> MaxLogId + i], !.todo = txn[w].ops])
    /\ UNCHANGED <<tables, autoInc, held, overlap, calls, faults, env>>

-----------------------------------------------------------------------------
(* Another bookmark's row with this log id: UNIQUE (repo_id, log_id). *)
Clash(view, n, id) == {m \in Names \ {n} : view[m].log_id = id}

(* What the statement of an operation answers: affected_rows as expected, *)
(* not as expected (LogicError), or an SQL error (Other).                 *)
Reply(view, op, id) ==
    LET row    == view[op.name]
        clash  == Clash(view, op.name, id) # {}
        Ok(c)  == IF c THEN "ok" ELSE "logic"
        target == IF Present(row) \/ ~clash THEN row ELSE view[CHOOSE m \in Clash(view, op.name, id) : TRUE]
    IN  CASE op.kind = "create" -> Ok(~Present(row) /\ ~clash)
          [] op.kind = "create_or_update" -> Ok(target.cs # op.new)
          [] op.kind = "update" ->
               IF row.cs = op.old /\ clash THEN "other" ELSE Ok(row.cs = op.old)
          [] op.kind = "delete" -> Ok(row.cs = op.old)
          [] OTHER -> "ok"

(* Mutant: forced sets ignore a bookmark that exists. *)
WrittenIfAbsent(view, op, id) ==
    IF op.kind \in {"delete", "force_delete"} THEN [view EXCEPT ![op.name] = NoRow]
    ELSE IF op.kind = "force_set" /\ Present(view[op.name]) THEN view
    ELSE [view EXCEPT ![op.name] = [cs |-> op.new, log_id |-> id]]

(* The rows afterwards.  REPLACE deletes what it collides with; ON       *)
(* DUPLICATE KEY UPDATE sets the changeset of the row it collides with   *)
(* and leaves its log_id.                                                *)
Written(view, op, id) ==
    LET n     == op.name
        clash == Clash(view, n, id)
        new   == [cs |-> op.new, log_id |-> id]
    IN  CASE op.kind = "force_set" ->
               [m \in Names |-> IF m = n THEN new ELSE IF m \in clash THEN NoRow ELSE view[m]]
          [] op.kind = "create_or_update" ->
               CASE Present(view[n]) -> [view EXCEPT ![n].cs = op.new]
                 [] ~Present(view[n]) /\ clash = {} -> [view EXCEPT ![n] = new]
                 [] OTHER -> [view EXCEPT ![CHOOSE m \in clash : TRUE].cs = op.new]
          [] op.kind \in {"create", "update"} -> [view EXCEPT ![n] = new]
          [] OTHER -> [view EXCEPT ![n] = NoRow]

(* Rows the statement has to wait for: they are locked by another          *)
(* transaction, or it holds an uncommitted row with the same unique key.   *)
WaitsForRows(w, n, id) ==
    {v \in Writers \ {w} : \/ (Clash(View(w), n, id) \cup {n}) \cap Touched(v) # {}
                           \/ \E m \in Touched(v) : txn[v].pend[m].log_id = id}

WaitsForLog(w, entries) ==
    {v \in Writers \ {w} : Ids(entries) \cap Ids(Inserted(v)) # {}}

LogRow(op, id) ==
    [id |-> id, name |-> op.name, new |-> op.new,
     old |-> IF op.kind \in {"update", "delete"} THEN op.old ELSE NoCs]

Changed(w, rows) == {n \in Names : rows[n] # bookmarks[n] \/ n \in Touched(w)}

(* attempt_write, one operation: store_force_sets .. store_deletes. *)
WriteRow(w) ==
    /\ txn[w].pc = "write"
    /\ txn[w].todo # <<>>
    /\ LET op == Head(txn[w].todo)
           id == Head(txn[w].ids)
       IN  /\ WaitsForRows(w, op.name, id) = {}
           /\ LET rows == Written(View(w), op, id)
              IN  CASE Reply(View(w), op, id) = "ok" ->
                         /\ Becomes(w, [txn[w] EXCEPT
                                 !.todo = Tail(@), !.ids = Tail(@), !.entries = @ \cup {LogRow(op, id)},
                                 !.pend = [n \in Changed(w, rows) \cup {op.name} |-> rows[n]]])
                         /\ UNCHANGED held
                    [] Reply(View(w), op, id) = "logic" -> Return(w, "null")
                    [] OTHER -> Return(w, "err")
    /\ UNCHANGED <<tables, autoInc, overlap, calls, faults, env>>

(* Mutant: the log rows are inserted whatever is there. *)
StoreLogUnchecked(w) ==
    /\ txn[w].pc = "write"
    /\ txn[w].todo = <<>>
    /\ Becomes(w, [txn[w] EXCEPT !.pc = "commit"])
    /\ UNCHANGED <<tables, autoInc, held, overlap, calls, faults, env>>

(* store_log: a duplicate (repo_id, id) is a RetryableError; a locked *)
(* transaction returns it.                                            *)
StoreLog(w) ==
    /\ txn[w].pc = "write"
    /\ txn[w].todo = <<>>
    /\ WaitsForLog(w, txn[w].entries) = {}
    /\ IF Ids(txn[w].entries) \cap Ids(log) = {}
       THEN Becomes(w, [txn[w] EXCEPT !.pc = "commit"]) /\ UNCHANGED held
       ELSE Retry(w)
    /\ UNCHANGED <<tables, autoInc, overlap, calls, faults, env>>

(* The moves the replica has not stored yet. *)
Unapplied(moves, id) == {i \in moves : Source[i].log_id > id}

LogRowOfMove(m) == [id |-> m.log_id, name |-> m.name, old |-> m.old, new |-> m.new]

(* Mutant: a batch leaves one log row, for its last move. *)
MirrorRowsLast(moves) == {LogRowOfMove(Source[Max(moves)])}

MirrorRows(moves) == {LogRowOfMove(Source[i]) : i \in moves}

(* store_mirror_batches: the row read is the snapshot's, the              *)
(* compare-and-swap and the log rows meet the newest rows.                *)
StoreMirrorBatch(w) ==
    /\ txn[w].pc = "mirror"
    /\ LET moves   == txn[w].moves
           last    == Source[Max(moves)]
           n       == last.name
           current == Snap(w).bookmarks[n]
           left    == Unapplied(moves, current.log_id)
           first   == Source[Min(left)]
           row     == View(w)[n]
           entries == MirrorRows(left)
       IN  IF left = {}
           THEN Return(w, IF current.log_id = last.log_id /\ current.cs # last.new
                          THEN "null" ELSE "processed")
           ELSE /\ WaitsForRows(w, n, last.log_id) = {}
                /\ WaitsForLog(w, entries) = {}
                /\ CASE row.cs # first.old -> Return(w, "null")
                     [] row.cs = first.old /\ Ids(entries) \cap Ids(log) # {} -> Return(w, "err")
                     [] OTHER ->
                          /\ Becomes(w, [txn[w] EXCEPT
                                  !.pc = "commit", !.entries = entries,
                                  !.pend = [m \in {n} |-> [cs |-> last.new, log_id |-> last.log_id]]])
                          /\ UNCHANGED held
    /\ UNCHANGED <<tables, autoInc, overlap, calls, faults, env>>

-----------------------------------------------------------------------------
(* The transaction takes effect. *)
TakeEffect(w) ==
    /\ bookmarks' = View(w)
    /\ log' = log \cup txn[w].entries
    /\ seqMax' = Max({seqMax, txn[w].pseq})
    /\ lockRows' = lockRows \cup {n \in Names : held[n] = w}

(* txn.commit succeeded: Ok(Some(log_id)). *)
Commit(w) ==
    /\ txn[w].pc = "commit"
    /\ TakeEffect(w)
    /\ Becomes(w, Ended(txn[w].commits + 1, "some"))
    /\ held' = Released(w)
    /\ UNCHANGED <<autoInc, overlap, calls, faults, env>>

(* Mutant: a failed commit is one more reason to try again. *)
CommitErrorRetried(w) ==
    /\ txn[w].pc = "commit"
    /\ Fault
    /\ TakeEffect(w)
    /\ held' = Released(w)
    /\ Becomes(w, IF txn[w].attempt < MaxAttempts
                  THEN [Cleared(txn[w], "start") EXCEPT !.attempt = txn[w].attempt + 1, !.commits = txn[w].commits + 1]
                  ELSE Ended(0, "err"))
    /\ UNCHANGED <<autoInc, overlap, calls, env>>

(* txn.commit failed: `?` returns, whether or not it took effect. *)
CommitError(w) ==
    /\ txn[w].pc = "commit"
    /\ Fault
    /\ \E applied \in BOOLEAN :
         /\ IF applied THEN TakeEffect(w) ELSE UNCHANGED tables
         /\ Becomes(w, Ended(txn[w].commits + (IF applied THEN 1 ELSE 0), "err"))
    /\ held' = Released(w)
    /\ UNCHANGED <<autoInc, overlap, calls, env>>

(* What an error of the statement at pc is: RetryableError, or another. *)
Retryable(t) == ~t.locked /\ (t.pc \in {"lock", "seed", "alloc"} \/ (t.pc = "write" /\ t.todo = <<>>))

Fail(w) ==
    /\ IF Retryable(txn[w]) THEN Retry(w) ELSE Return(w, "err")
    /\ UNCHANGED <<tables, autoInc, overlap, calls, env>>

(* A statement fails; the connection or the caller may be gone. *)
StatementError(w) ==
    /\ txn[w].pc \in Running \ {"commit", "held"}
    /\ Fault
    /\ Fail(w)

(* start_transaction or a transaction hook fails; a hook may ask for *)
(* another attempt.                                                  *)
HookError(w) ==
    /\ txn[w].pc = "start"
    /\ Fault
    /\ Retry(w) \/ \E outcome \in {"null", "processed", "err"} : Return(w, outcome)
    /\ UNCHANGED <<tables, autoInc, overlap, calls, env>>

(* The transactions w waits for. *)
WaitsFor(w) ==
    CASE Creating(w) -> WaitsForGaps(w, Min(txn[w].wants)) \cup ({held[Min(txn[w].wants)]} \ {NoWriter})
      [] txn[w].pc = "lock" /\ txn[w].wants # {} /\ ~Creating(w) -> {held[Min(txn[w].wants)]} \ {NoWriter}
      [] txn[w].pc = "write" /\ txn[w].todo # <<>> -> WaitsForRows(w, txn[w].todo[1].name, txn[w].ids[1])
      [] txn[w].pc = "write" /\ txn[w].todo = <<>> -> WaitsForLog(w, txn[w].entries)
      [] txn[w].pc = "mirror" -> WaitsForRows(w, Source[Max(txn[w].moves)].name, 0)
      [] OTHER -> {}

(* Everyone waits for one of the others and has one of them waiting for it. *)
Circular(C) ==
    C # {} /\ \A w \in C : WaitsFor(w) \cap C # {} /\ \E v \in C : w \in WaitsFor(v)

(* InnoDB ends one of the waits of a circle. *)
DeadlockVictim(w) ==
    /\ \E C \in SUBSET Writers : w \in C /\ Circular(C)
    /\ Fail(w)
    /\ UNCHANGED faults

(* The knob is turned. *)
FlipKnob ==
    /\ flips < MaxFlips
    /\ flips' = flips + 1
    /\ knob' = ~knob
    /\ UNCHANGED <<tables, autoInc, held, txn, replica, overlap, calls, faults>>

-----------------------------------------------------------------------------
(* A repository with one bookmark, whose id came from MAX(id) + 1 or from   *)
(* the sequence; a replica is empty or has stored the first of the moves.   *)
(* Lock rows there are for all bookmarks, or, before the first write with   *)
(* locks, for none.                                                         *)
StoreInit ==
    /\ replica \in BOOLEAN
    /\ LET first == Min(Names)
           cs    == CHOOSE c \in Changesets : TRUE
           With(e) == [n \in Names |-> IF n = e.name THEN [cs |-> e.new, log_id |-> e.id] ELSE NoRow]
       IN  IF replica
           THEN /\ \/ bookmarks = [n \in Names |-> NoRow] /\ log = {}
                   \/ bookmarks = With(LogRowOfMove(Source[1])) /\ log = {LogRowOfMove(Source[1])}
                /\ seqMax = 0
           ELSE /\ log = {[id |-> 1, name |-> first, old |-> NoCs, new |-> cs]}
                /\ bookmarks = With([id |-> 1, name |-> first, new |-> cs])
                /\ seqMax \in {0, 1}
    /\ autoInc = seqMax
    /\ lockRows \in {{}, Names}
    /\ held = [n \in Names |-> NoWriter]
    /\ txn = [w \in Writers |-> Fresh]
    /\ knob \in BOOLEAN
    /\ overlap = FALSE
    /\ calls = 0 /\ faults = 0 /\ flips = 0

StoreStep(w) ==
    \/ Submit(w) \/ SubmitLocked(w) \/ Answered(w) \/ StartAttempt(w)
    \/ AcquireLock(w) \/ LockRowMissing(w) \/ CreateLockRow(w) \/ LocksHeld(w) \/ LockedCommit(w) \/ LockedRollback(w)
    \/ SeedSequence(w) \/ AllocateLogId(w) \/ FindNextUpdateLogId(w)
    \/ WriteRow(w) \/ StoreLog(w) \/ StoreMirrorBatch(w)
    \/ Commit(w) \/ CommitError(w)
    \/ StatementError(w) \/ HookError(w) \/ DeadlockVictim(w)

StoreNext == FlipKnob \/ \E w \in Writers : StoreStep(w)
=============================================================================
