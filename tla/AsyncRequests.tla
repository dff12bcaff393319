--------------------------- MODULE AsyncRequests ---------------------------
(***************************************************************************)
(* The asynchronous request queue (features/async_requests): clients that  *)
(* enqueue and poll, the tasks of the workers that claim requests, compute *)
(* them and store what came of them (worker_lib/src/worker.rs), the worker *)
(* loop's cleanup of requests nobody is heard of, and the abort of a       *)
(* backfill's children (src/queue.rs).  Workers may crash at any step, and *)
(* may stall so long that their request is taken for abandoned.            *)
(***************************************************************************)
EXTENDS RequestTable

CONSTANTS
    Tasks,          \* requests computed at the same time
    Children,       \* the requests with the root_request_id that is aborted
    Rooted,         \* the requests enqueued with a repository and a root
    MaxConcurrent,  \* scm/mononoke:async_requests_max_concurrent, 0: no limit
    Dependencies,   \* the graphs an enqueue takes its dependencies from
    MaxFaults,      \* bound on crashes, stalls, failed loads and counts, and lags
    NoReq

ASSUME AsyncAssumption ==
    /\ NoReq \notin Requests
    /\ Children \subseteq Requests /\ Rooted \subseteq Requests
    /\ Dependencies \subseteq [Requests -> SUBSET Requests]
    /\ MaxConcurrent \in Nat /\ MaxFaults \in Nat

VARIABLES
    task,      \* task[t]: a dequeued request and how far its task is
    cleaner,   \* cleanup_abandoned_requests
    abort,     \* abort_children_by_root_id
    behind,    \* what replicas show that have fallen behind
    faults,
    late,      \* history: late[r], the dependencies r got after it was last claimed
    uncounted, \* history: the count failed, or left out a request in progress
    stalled,   \* history: a live task was taken for dead
    requeued   \* history: requeue met a row that its task did not have any more

vars == <<table, deps, task, cleaner, abort, behind, faults, late, uncounted, stalled, requeued>>

Idle == [pc |-> "idle", req |-> NoReq, next |-> 0]
Unoccupied == [pc |-> "mark", req |-> NoReq, todo |-> {}]

Fault == faults < MaxFaults /\ faults' = faults + 1
NoFault == UNCHANGED faults

Goto(t, pc) == task' = [task EXCEPT ![t].pc = pc]
Leave(t) == task' = [task EXCEPT ![t] = Idle]

others == <<deps, cleaner, abort, behind>>
history == <<late, uncounted, stalled, requeued>>

-----------------------------------------------------------------------------
(* A replica stops replaying for a while.  Whoever uses read_connection     *)
(* reads the rows as they are, or as such a replica has them.               *)
FallBehind ==
    /\ Shown \notin behind
    /\ Fault
    /\ behind' = behind \cup {Shown}
    /\ UNCHANGED <<table, deps, cleaner, abort, task, history>>

Views == behind \cup {Shown}

-----------------------------------------------------------------------------
(* Clients. *)

(* add_request_with_dependencies*: one transaction, on rows that exist.  A  *)
(* request with a repository and a root may be enqueued again, whatever has *)
(* become of its row: a new run of derive_backfill_repo, whose slices need  *)
(* not be the earlier ones, adds dependencies to it.                        *)
Enqueue(r) ==
    /\ table[r].status = "absent" \/ r \in Rooted
    /\ \E graph \in Dependencies :
         /\ \A d \in graph[r] : table[d].status # "absent"
         /\ deps' = AddDependencies(r, graph[r])
         /\ late' = [late EXCEPT ![r] = @ \cup (graph[r] \ deps[r])]
    /\ table' = AddRequest(r)
    /\ NoFault /\ UNCHANGED <<task, cleaner, abort, behind, uncounted, stalled, requeued>>

(* poll, of a request with a result that nobody has seen. *)
Poll(r) ==
    /\ table[r].status = "ready"
    /\ table' = MarkRequestPolled(r)
    /\ NoFault /\ UNCHANGED <<others, task, history>>

(* mark_ready_requests_failed, for rows whose parameters are gone. *)
FailDeadReady(r) ==
    /\ table[r].status = "ready"
    /\ Fault
    /\ table' = MarkReadyRequestFailed(r)
    /\ UNCHANGED <<others, task, history>>

-----------------------------------------------------------------------------
(* The task of one request. *)

(* dequeue: claim_and_get_new_request and the load of the parameters.  When *)
(* that fails, or the target is invalid, the row stays in progress.         *)
Dequeue(t) ==
    /\ task[t].pc = "idle"
    /\ \E r \in Requests :
         /\ Claimable(r)
         /\ table' = MarkRequestInProgress(r)
         /\ late' = [late EXCEPT ![r] = {}]
         /\ \/ NoFault /\ task' = [task EXCEPT ![t] = [pc |-> "load", req |-> r, next |-> 0]]
            \/ Fault /\ UNCHANGED task
    /\ UNCHANGED <<others, uncounted, stalled, requeued>>

(* Mutant: one too many. *)
LimitReachedLate(seen) == MaxConcurrent > 0 /\ InProgressCount(seen) > MaxConcurrent + 1

(* concurrency_limit_reached; the request itself is counted, if the replica *)
(* shows it.                                                                *)
LimitReached(seen) == MaxConcurrent > 0 /\ InProgressCount(seen) > MaxConcurrent

Overlooked(seen) ==
    \E r \in Requests : table[r].status = "inprogress" /\ seen[r] = NotInProgress

Admit(t) ==
    /\ task[t].pc = "load"
    /\ \E seen \in Views :
         /\ ~LimitReached(seen)
         /\ uncounted' = (uncounted \/ Overlooked(seen))
    /\ Goto(t, "work")
    /\ NoFault /\ UNCHANGED <<others, table, late, stalled, requeued>>

(* The limit is reached, or ensure_repo_loaded failed. *)
Throttle(t) ==
    /\ task[t].pc = "load"
    /\ ((\E seen \in Views : LimitReached(seen)) /\ NoFault) \/ Fault
    /\ Goto(t, "requeue")
    /\ UNCHANGED <<others, table, history>>

(* The count cannot be read: an error is logged and the work goes on. *)
AdmitUncounted(t) ==
    /\ task[t].pc = "load"
    /\ MaxConcurrent > 0 /\ Fault
    /\ Goto(t, "work")
    /\ uncounted' = TRUE
    /\ UNCHANGED <<others, table, late, stalled, requeued>>

HasIt(t) == table[task[t].req].status = "inprogress" /\ \A u \in Tasks \ {t} : task[u].req # task[t].req

(* requeue, after a failed load or the backoff *)
Requeue(t) ==
    /\ task[t].pc = "requeue"
    /\ table' = MarkRequestAsNew(task[t].req)
    /\ requeued' = (requeued \/ ~HasIt(t))
    /\ Leave(t)
    /\ NoFault /\ UNCHANGED <<others, late, uncounted, stalled>>

(* keep_alive_loop, one turn; the task is dropped when the row is not in *)
(* progress any more.                                                    *)
KeepAlive(t) ==
    /\ task[t].pc = "work"
    /\ table' = UpdateInProgressTimestamp(task[t].req)
    /\ IF table[task[t].req].status = "inprogress"
       THEN table' # table /\ UNCHANGED task
       ELSE Leave(t)
    /\ NoFault /\ UNCHANGED <<others, history>>

(* The request was computed and the result stored: complete *)
Complete(t) ==
    /\ task[t].pc = "work"
    /\ table' = MarkRequestReady(task[t].req, "computed")
    /\ Leave(t)
    /\ NoFault /\ UNCHANGED <<others, history>>

(* Mutant: the last allowed retry is not made. *)
ReadForRetryEarly(t) ==
    /\ task[t].pc = "work"
    /\ LET row == table[task[t].req]
       IN  CASE row.status # "inprogress" -> Leave(t)
             [] row.status = "inprogress" /\ row.retries + 1 >= MaxRetries -> Goto(t, "fail")
             [] OTHER -> task' = [task EXCEPT ![t] = [task[t] EXCEPT !.pc = "again", !.next = row.retries + 1]]
    /\ NoFault /\ UNCHANGED <<others, table, history>>

(* It could not be computed: update_for_retry_or_fail, the read *)
ReadForRetry(t) ==
    /\ task[t].pc = "work"
    /\ LET row == table[task[t].req]
       IN  CASE row.status # "inprogress" -> Leave(t)
             [] row.status = "inprogress" /\ row.retries + 1 > MaxRetries -> Goto(t, "fail")
             [] OTHER -> task' = [task EXCEPT ![t] = [task[t] EXCEPT !.pc = "again", !.next = row.retries + 1]]
    /\ NoFault /\ UNCHANGED <<others, table, history>>

(* ... and the write, which the rest of the fleet may have overtaken *)
RetryOrFail(t) ==
    /\ \/ task[t].pc = "again" /\ table' = MarkRequestAsNewForRetry(task[t].req, task[t].next)
       \/ task[t].pc = "fail" /\ table' = FailRequestWithCascade(task[t].req)
    /\ Leave(t)
    /\ NoFault /\ UNCHANGED <<others, history>>

(* The worker is gone, or a statement of its task failed: the row stays as *)
(* it is.                                                                  *)
Crash(t) ==
    /\ task[t].pc # "idle"
    /\ Fault
    /\ Leave(t)
    /\ UNCHANGED <<others, table, history>>

-----------------------------------------------------------------------------
(* Time passes, and nobody has updated r for longer than the threshold.  A *)
(* running cleanup compares with the time at which it began: what ages     *)
(* while it is at work is left to the next one.                            *)
Attended(r) == \E t \in Tasks : task[t].req = r

Age(r) ==
    /\ table[r].status = "inprogress" /\ ~table[r].stale /\ r \notin cleaner.todo
    /\ ~Attended(r)
    /\ table' = Update(r, [table[r] EXCEPT !.stale = TRUE])
    /\ NoFault /\ UNCHANGED <<others, task, history>>

(* The same with a live task: its keep-alive is late, or does not run yet. *)
Stall(r) ==
    /\ table[r].status = "inprogress" /\ ~table[r].stale /\ r \notin cleaner.todo
    /\ Attended(r)
    /\ Fault
    /\ table' = Update(r, [table[r] EXCEPT !.stale = TRUE])
    /\ stalled' = TRUE
    /\ UNCHANGED <<others, task, late, uncounted, requeued>>

(* find_abandoned_requests *)
FindAbandoned ==
    /\ cleaner.todo = {}
    /\ \E r \in Requests : Abandoned(r)
    /\ cleaner' = [pc |-> "mark", req |-> NoReq, todo |-> {r \in Requests : Abandoned(r)}]
    /\ NoFault /\ UNCHANGED <<table, deps, task, abort, behind, history>>

NextAbandoned(r) == [pc |-> "mark", req |-> NoReq, todo |-> cleaner.todo \ {r}]

(* mark_abandoned_request_as_new, the update *)
MarkAbandonedAsNew ==
    /\ cleaner.pc = "mark"
    /\ \E r \in cleaner.todo :
         /\ table' = MarkRequestAsNewAgain(r)
         /\ cleaner' = IF table' # table THEN NextAbandoned(r) ELSE [cleaner EXCEPT !.pc = "read", !.req = r]
    /\ NoFault /\ UNCHANGED <<deps, task, abort, behind, history>>

(* Mutant: a request that is out of retries is left to somebody else. *)
ReadAbandonedSkips ==
    /\ cleaner.pc = "read"
    /\ cleaner' = NextAbandoned(cleaner.req)
    /\ NoFault /\ UNCHANGED <<table, deps, task, abort, behind, history>>

(* ... when it matched nothing, the read *)
ReadAbandoned ==
    /\ cleaner.pc = "read"
    /\ cleaner' = IF Abandoned(cleaner.req) /\ table[cleaner.req].retries >= MaxRetries
                  THEN [cleaner EXCEPT !.pc = "fail"]
                  ELSE NextAbandoned(cleaner.req)
    /\ NoFault /\ UNCHANGED <<table, deps, task, abort, behind, history>>

(* ... and the cascade *)
FailAbandoned ==
    /\ cleaner.pc = "fail"
    /\ table' = FailRequestWithCascade(cleaner.req)
    /\ cleaner' = NextAbandoned(cleaner.req)
    /\ NoFault /\ UNCHANGED <<deps, task, abort, behind, history>>

(* A statement fails, or the worker is gone: the rest is not looked at. *)
CleanupFails ==
    /\ cleaner.todo # {}
    /\ Fault
    /\ cleaner' = Unoccupied
    /\ UNCHANGED <<table, deps, task, abort, behind, history>>

-----------------------------------------------------------------------------
(* abort_children_by_root_id *)
AbortNew ==
    /\ abort.pc = "idle"
    /\ abort' = [pc |-> "read", kids |-> {r \in Children : table[r].status # "absent"}, todo |-> {}]
    /\ table' = FailNewRequests(Children)
    /\ NoFault /\ UNCHANGED <<deps, task, cleaner, behind, history>>

(* get_requests_by_root_id, of a replica *)
AbortRead ==
    /\ abort.pc = "read"
    /\ \E seen \in Views :
         abort' = [abort EXCEPT !.pc = "complete", !.todo = {r \in Children : seen[r] = NoResult}]
    /\ NoFault /\ UNCHANGED <<table, deps, task, cleaner, behind, history>>

AbortComplete ==
    /\ abort.pc = "complete"
    /\ \E r \in abort.todo :
         /\ table' = MarkRequestReady(r, "aborted")
         /\ abort' = [abort EXCEPT !.todo = @ \ {r}]
    /\ NoFault /\ UNCHANGED <<deps, task, cleaner, behind, history>>

AbortReturns ==
    /\ abort.pc = "complete" /\ abort.todo = {}
    /\ abort' = [pc |-> "done", kids |-> {}, todo |-> {}]
    /\ NoFault /\ UNCHANGED <<table, deps, task, cleaner, behind, history>>

-----------------------------------------------------------------------------
(* A row that a worker left behind. *)
Orphan == [status |-> "inprogress", retries |-> 0, stale |-> FALSE, result |-> NoResult]

(* An empty queue, or one request in progress that has no worker any more. *)
Init ==
    /\ deps = [r \in Requests |-> {}]
    /\ \E x \in Requests \cup {NoReq} : table = [r \in Requests |-> IF r = x THEN Orphan ELSE Absent]
    /\ task = [t \in Tasks |-> Idle]
    /\ cleaner = Unoccupied
    /\ abort = [pc |-> "idle", kids |-> {}, todo |-> {}]
    /\ behind = {}
    /\ faults = 0
    /\ late = [r \in Requests |-> {}]
    /\ uncounted = FALSE
    /\ stalled = FALSE
    /\ requeued = FALSE

TaskStep(t) ==
    \/ Dequeue(t) \/ Admit(t) \/ Throttle(t) \/ AdmitUncounted(t)
    \/ Requeue(t) \/ Complete(t) \/ ReadForRetry(t) \/ RetryOrFail(t)

CleanerStep == FindAbandoned \/ MarkAbandonedAsNew \/ ReadAbandoned \/ FailAbandoned

AbortStep == AbortNew \/ AbortRead \/ AbortComplete \/ AbortReturns

Next ==
    \/ \E r \in Requests : Enqueue(r) \/ Poll(r) \/ FailDeadReady(r) \/ Age(r) \/ Stall(r)
    \/ \E t \in Tasks : TaskStep(t) \/ KeepAlive(t) \/ Crash(t)
    \/ CleanerStep \/ CleanupFails
    \/ AbortStep
    \/ FallBehind

Spec == Init /\ [][Next]_vars

(* Workers take their next step, their loops clean up, and time passes;    *)
(* nobody has to enqueue, to poll or to abort.                             *)
Fairness ==
    /\ \A t \in Tasks : WF_vars(TaskStep(t))
    /\ WF_vars(CleanerStep)
    /\ \A r \in Requests : WF_vars(Age(r))

FairSpec == Spec /\ Fairness

-----------------------------------------------------------------------------
Rows == [status : Statuses, retries : 0 .. MaxRetries, stale : BOOLEAN, result : {NoResult, "computed", "aborted"}]

TaskStates ==
    [pc : {"idle", "load", "requeue", "work", "again", "fail"},
     req : Requests \cup {NoReq}, next : 0 .. MaxRetries]

CleanerStates == [pc : {"mark", "read", "fail"}, req : Requests \cup {NoReq}, todo : SUBSET Requests]
ViewStates == [Requests -> {NotInProgress, NoResult, "computed", "aborted"}]
AbortStates == [pc : {"idle", "read", "complete", "done"}, kids : SUBSET Children, todo : SUBSET Children]

(* The fields' types; num_retries stays within the limit, whichever of     *)
(* update_for_retry_or_fail and mark_abandoned_request_as_new raises it.   *)
RequestsTypeOK ==
    /\ table \in [Requests -> Rows]
    /\ deps \in [Requests -> SUBSET Requests] /\ late \in [Requests -> SUBSET Requests]
    /\ task \in [Tasks -> TaskStates]
    /\ cleaner \in CleanerStates
    /\ abort \in AbortStates
    /\ behind \subseteq ViewStates
    /\ faults \in 0 .. MaxFaults
    /\ uncounted \in BOOLEAN /\ stalled \in BOOLEAN /\ requeued \in BOOLEAN

(* A request is worked on only when everything it depended on at its last   *)
(* claim has a result: through retries, takeovers, cascades and aborts, the *)
(* claim query's NOT EXISTS keeps a request whose dependency never finished *)
(* out of compute_and_mark_completed.  What it is given to depend on while  *)
(* it is in progress, it does not wait for.                                 *)
WorkAfterDependencies ==
    \A t \in Tasks :
        task[t].pc # "idle" =>
            \A d \in deps[task[t].req] \ late[task[t].req] : table[d].result # NoResult

(* What derive_backfill_repo's comment says of the MarkTypeEnabled node: it *)
(* "runs [...] only once every leaf succeeds", and enqueueing it again "is  *)
(* an idempotent no-op" (backfill.rs:640-647).  No request is worked on     *)
(* while something it depends on has no result.                             *)
RunsOnceLeavesSucceed ==
    \A t \in Tasks : task[t].pc = "work" => \A d \in deps[task[t].req] : table[d].result # NoResult

(* What has settled stays so: a finished or failed request is never pending *)
(* again and its result is never replaced, however late a worker that lost  *)
(* it, a cleanup or an abort writes -- unless requeue, the one update with   *)
(* no condition on the status, met a row its task did not have any more.    *)
ResultsAreFinal ==
    [][~requeued' => \A r \in Requests :
            /\ table[r].status \in Finished \cup {"failed"} => table'[r].status \notin Pending
            /\ table[r].result # NoResult => table'[r].result = table[r].result]_vars

(* "a healthy worker never reclaims its own requests" (worker.rs:152): as   *)
(* long as no live worker was silent for longer than the threshold, no      *)
(* request is computed by two tasks, whatever crashed, was requeued or      *)
(* cleaned up before.                                                       *)
NoStallNoDuplicate ==
    ~stalled => \A t, u \in Tasks : t # u /\ task[t].req = task[u].req => task[t].req = NoReq

(* Without a stall or an abort, a request without a result has failed only  *)
(* after its last allowed retry, or because something it depends on,        *)
(* directly or not, did: wherever fail_request_with_cascade met it, and     *)
(* whatever dependencies were added to it late.                             *)
NoFailureWithoutCause ==
    ~stalled /\ abort.pc = "idle" =>
        \A r \in Requests :
            table[r].status = "failed" /\ table[r].result = NoResult =>
                \E q \in Requests :
                    /\ table[q].status = "failed" /\ table[q].retries = MaxRetries
                    /\ r \in Dependents(deps, q)

(* The count includes what was claimed a moment ago by anybody, so two      *)
(* tasks cannot both find the last place free: unless the count could not   *)
(* be read, or the replica it was read from did not show a request that was *)
(* in progress, or a live worker was taken for dead, no more of the         *)
(* requests in progress are worked on than the limit allows.  A task whose  *)
(* request was aborted or failed under it works on until its keep-alive.    *)
LimitHolds ==
    MaxConcurrent > 0 /\ ~uncounted /\ ~stalled =>
        Cardinality({t \in Tasks : /\ task[t].pc \in {"work", "again", "fail"}
                                   /\ table[task[t].req].status = "inprogress"}) <= MaxConcurrent

(* No request that was enqueued stays pending for ever, whatever crashed     *)
(* while it was in progress, unless something it depends on failed or       *)
(* backing off never ends: a request that waits to be requeued is still in  *)
(* progress and counts against the limit, so that tasks can throttle each   *)
(* other for ever with nothing running.                                     *)
EveryRequestSettles ==
    \A r \in Requests :
        []<>(\/ table[r].status \notin Pending
             \/ \E q \in Requests : table[q].status = "failed" /\ r \in Dependents(deps, q)
             \/ \E t \in Tasks : task[t].pc = "requeue")

(* "Abort every child request of a backfill root" (queue.rs:852): when the  *)
(* abort returns, no child that was there when it began is pending.         *)
AbortEndsChildren ==
    [][abort.pc = "complete" /\ abort'.pc = "done" =>
            \A r \in abort.kids : table[r].status \notin Pending]_vars
=============================================================================
