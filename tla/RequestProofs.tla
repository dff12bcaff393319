--------------------------- MODULE RequestProofs ---------------------------
(***************************************************************************)
(* For any requests, tasks, dependency graphs and limits: what is worked   *)
(* on has the results of what it depended on when it was claimed, no       *)
(* request has two tasks without a stall, what has settled stays settled   *)
(* unless requeue undid it, failures have causes and the limit is kept.    *)
(***************************************************************************)
EXTENDS AsyncRequests, FiniteSetTheorems, TLAPS

(* An occupied task has a request, an idle one has none. *)
TasksHaveRequests == \A t \in Tasks : task[t].pc = "idle" <=> task[t].req = NoReq

FinishedHasResult == \A r \in Requests : table[r].status \in Finished => table[r].result # NoResult

(* What makes ResultsAreFinal inductive. *)
UnfinishedHasNone ==
    ~requeued => \A r \in Requests :
        table[r].status \in Pending \cup {"absent"} => table[r].result = NoResult

(* What makes NoStallNoDuplicate inductive: a request with a task can be   *)
(* neither claimed again nor taken for abandoned.                          *)
AttendedIsSafe ==
    ~stalled => \A t \in Tasks : task[t].req # NoReq =>
        /\ table[task[t].req].status \notin {"new", "absent"}
        /\ table[task[t].req].status = "inprogress" => ~table[task[t].req].stale

Inv ==
    /\ RequestsTypeOK
    /\ TasksHaveRequests
    /\ FinishedHasResult
    /\ WorkAfterDependencies
    /\ UnfinishedHasNone
    /\ AttendedIsSafe
    /\ NoStallNoDuplicate

Table == table \in [Requests -> Rows]
TaskType == task \in [Tasks -> TaskStates]

(* The other variables, whose values hardly matter. *)
RestType ==
    /\ deps \in [Requests -> SUBSET Requests] /\ late \in [Requests -> SUBSET Requests]
    /\ cleaner \in CleanerStates
    /\ abort \in AbortStates
    /\ behind \subseteq ViewStates
    /\ faults \in 0 .. MaxFaults
    /\ uncounted \in BOOLEAN /\ stalled \in BOOLEAN /\ requeued \in BOOLEAN

(* What a statement on the row of r leaves: T. *)
Sets(T, r, row) == T \in [Requests -> Rows] /\ T[r] = row /\ \A x \in Requests \ {r} : T[x] = table[x]

(* The type invariant in three parts. *)
LEMMA Types == RequestsTypeOK <=> Table /\ TaskType /\ RestType
  BY Zenon DEF RequestsTypeOK, Table, TaskType, RestType

(* Updating one row of the table (store.rs, WHERE id = {id}). *)
LEMMA UpdateSets ==
  ASSUME Table, NEW r \in Requests, NEW row \in Rows
  PROVE  Sets(Update(r, row), r, row)
  BY Zenon DEF Sets, Update, Table

(* Rows after a change of status, and of the timestamp. *)
LEMMA RowStatus ==
  ASSUME NEW row \in Rows, NEW status \in Statuses
  PROVE  /\ [row EXCEPT !.status = status] \in Rows
         /\ [row EXCEPT !.status = status].status = status
         /\ [row EXCEPT !.status = status].result = row.result
         /\ [row EXCEPT !.status = status].stale = row.stale
         /\ [row EXCEPT !.status = status].retries = row.retries
  BY Zenon DEF Rows

(* A row whose timestamp is written, or has aged. *)
LEMMA RowStale ==
  ASSUME NEW row \in Rows, NEW stale \in BOOLEAN
  PROVE  /\ [row EXCEPT !.stale = stale] \in Rows
         /\ [row EXCEPT !.stale = stale].status = row.status
         /\ [row EXCEPT !.stale = stale].result = row.result
         /\ [row EXCEPT !.stale = stale].stale = stale
         /\ [row EXCEPT !.stale = stale].retries = row.retries
  BY Zenon DEF Rows

(* A row that is claimed. *)
LEMMA RowClaimed ==
  ASSUME NEW row \in Rows
  PROVE  /\ [row EXCEPT !.status = "inprogress", !.stale = FALSE] \in Rows
         /\ [row EXCEPT !.status = "inprogress", !.stale = FALSE].status = "inprogress"
         /\ [row EXCEPT !.status = "inprogress", !.stale = FALSE].result = row.result
         /\ [row EXCEPT !.status = "inprogress", !.stale = FALSE].stale = FALSE
         /\ [row EXCEPT !.status = "inprogress", !.stale = FALSE].retries = row.retries
  BY Zenon DEF Rows, Statuses, Pending

(* A row that is to be tried again. *)
LEMMA RowRetried ==
  ASSUME NEW row \in Rows, NEW n \in 0 .. MaxRetries
  PROVE  /\ [row EXCEPT !.status = "new", !.stale = FALSE, !.retries = n] \in Rows
         /\ [row EXCEPT !.status = "new", !.stale = FALSE, !.retries = n].status = "new"
         /\ [row EXCEPT !.status = "new", !.stale = FALSE, !.retries = n].result = row.result
  BY Zenon DEF Rows, Statuses, Pending

(* A row with a result. *)
LEMMA RowReady ==
  ASSUME NEW row \in Rows, NEW result \in {"computed", "aborted"}
  PROVE  /\ [row EXCEPT !.status = "ready", !.result = result] \in Rows
         /\ [row EXCEPT !.status = "ready", !.result = result].status = "ready"
         /\ [row EXCEPT !.status = "ready", !.result = result].result = result
  BY Zenon DEF Rows, Statuses, Finished

(* Failing some of the pending rows. *)
LEMMA FailAllRows ==
  ASSUME Table, NEW S, \A r \in S : table[r].status \in Pending
  PROVE  /\ FailAll(S) \in [Requests -> Rows]
         /\ \A r \in Requests : FailAll(S)[r].result = table[r].result
         /\ \A r \in Requests : \/ FailAll(S)[r] = table[r]
                                \/ table[r].status \in Pending /\ FailAll(S)[r].status = "failed"
<1>1. ASSUME NEW r \in Requests
      PROVE  /\ [table[r] EXCEPT !.status = "failed"] \in Rows
             /\ [table[r] EXCEPT !.status = "failed"].result = table[r].result
             /\ [table[r] EXCEPT !.status = "failed"].status = "failed"
  <2>1. table[r] \in Rows /\ "failed" \in Statuses
    BY Zenon DEF Table, Statuses
  <2> QED
    BY <2>1, RowStatus, Zenon
<1>2. \A r \in Requests : FailAll(S)[r] = IF r \in S THEN [table[r] EXCEPT !.status = "failed"] ELSE table[r]
  BY Zenon DEF FailAll
<1>3. FailAll(S) \in [Requests -> Rows]
  BY <1>1, Zenon DEF FailAll, Table
<1> QED
  BY <1>1, <1>2, <1>3, Zenon

(* A task that ends, and one that goes on. *)
LEMMA LeaveTask ==
  ASSUME TaskType, NEW t \in Tasks, Leave(t)
  PROVE  /\ TaskType'
         /\ task'[t].pc = "idle" /\ task'[t].req = NoReq
         /\ \A u \in Tasks \ {t} : task'[u] = task[u]
<1>1. Idle \in TaskStates /\ Idle.pc = "idle" /\ Idle.req = NoReq
  BY RequestAssumption DEF Idle, TaskStates
<1> QED
  BY <1>1, Zenon DEF TaskType, Leave

(* A task at its next step. *)
LEMMA GotoTask ==
  ASSUME TaskType, NEW t \in Tasks, NEW pc \in {"requeue", "work", "fail"}, Goto(t, pc)
  PROVE  /\ TaskType'
         /\ task'[t].pc # "idle" /\ task'[t].req = task[t].req
         /\ \A u \in Tasks \ {t} : task'[u] = task[u]
<1> DEFINE x == [task[t] EXCEPT !.pc = pc]
<1>1. task[t] \in TaskStates
  BY Zenon DEF TaskType
<1>2. x \in TaskStates /\ x.pc # "idle" /\ x.req = task[t].req
  BY <1>1, Zenon DEF TaskStates
<1>3. task' = [task EXCEPT ![t] = x]
  BY Zenon DEF Goto
<1> HIDE DEF x
<1> QED
  BY <1>2, <1>3, Zenon DEF TaskType

(* The dependencies that were there when a request was claimed are only     *)
(* changed by the next claim.                                               *)
DepsStep == \A r \in Requests : deps'[r] \ late'[r] \subseteq deps[r] \ late[r]

(* A step that claims nothing keeps the invariant when it keeps the types  *)
(* and results, and leaves attended requests safe.                         *)
LEMMA Preserve ==
  ASSUME Inv, RequestsTypeOK', DepsStep, stalled => stalled',
         \A u \in Tasks : task'[u].pc = "idle" <=> task'[u].req = NoReq,
         \A u \in Tasks : task'[u].req # NoReq => task'[u].req = task[u].req,
         \A r \in Requests : table[r].result # NoResult => table'[r].result # NoResult,
         FinishedHasResult', UnfinishedHasNone', AttendedIsSafe'
  PROVE  Inv'
<1>1. TasksHaveRequests'
  BY Zenon DEF TasksHaveRequests
<1>2. NoStallNoDuplicate'
  BY Zenon DEF Inv, NoStallNoDuplicate
<1>3. WorkAfterDependencies'
  <2> SUFFICES ASSUME NEW t \in Tasks, task'[t].pc # "idle",
                      NEW d \in deps'[task'[t].req] \ late'[task'[t].req]
               PROVE  table'[d].result # NoResult
    BY Zenon DEF WorkAfterDependencies
  <2>1. task'[t].req = task[t].req /\ task[t].req # NoReq /\ task[t].pc # "idle"
    BY Zenon DEF Inv, TasksHaveRequests
  <2>2. task[t].req \in Requests
    BY <2>1, Zenon DEF Inv, RequestsTypeOK, TaskStates
  <2>3. d \in deps[task[t].req] \ late[task[t].req]
    BY <2>1, <2>2, Zenon DEF DepsStep
  <2>4. d \in Requests
    BY <2>2, <2>3, Zenon DEF Inv, RequestsTypeOK
  <2> QED
    BY <2>1, <2>3, <2>4, Zenon DEF Inv, WorkAfterDependencies
<1> QED
  BY <1>1, <1>2, <1>3, Zenon DEF Inv

(* What every step but a claim may do to the row of r. *)
Legal(r) ==
    \/ table'[r] = table[r]
    \/ table[r].status = "inprogress" /\ table'[r].status = "ready" /\ table'[r].result # NoResult
    \/ /\ table'[r].result = table[r].result
       /\ \/ table[r].status \in Pending \cup {"ready"} /\ table'[r].status = "failed"
          \/ table[r].status = "ready" /\ table'[r].status = "polled"
          \/ table'[r].status = table[r].status /\ (~table'[r].stale \/ stalled' \/ ~Attended(r)')
          \/ /\ table'[r].status = "new"
             /\ table[r].status \in {"inprogress", "absent"} \/ requeued'
             /\ stalled' \/ ~Attended(r)'

(* What every step but a claim does. *)
StepOK ==
    /\ RequestsTypeOK' /\ DepsStep
    /\ stalled => stalled'
    /\ requeued => requeued'
    /\ \A u \in Tasks : task'[u].pc = "idle" <=> task'[u].req = NoReq
    /\ \A u \in Tasks : task'[u].req # NoReq => task'[u].req = task[u].req
    /\ \A r \in Requests : Legal(r)

(* Such steps keep the invariant. *)
LEMMA StepKeeps == ASSUME Inv, StepOK PROVE Inv'
<1> USE DEF StepOK
<1>1. \A r \in Requests : table[r].result # NoResult => table'[r].result # NoResult
  BY Zenon DEF Legal
<1>2. FinishedHasResult'
  BY Zenon DEF Legal, Inv, FinishedHasResult, Finished, Pending
<1>3. UnfinishedHasNone'
  <2> SUFFICES ASSUME ~requeued', NEW r \in Requests, table'[r].status \in Pending \cup {"absent"}
               PROVE  table'[r].result = NoResult
    BY Zenon DEF UnfinishedHasNone
  <2>1. table[r].status \in Pending \cup {"absent"} /\ table'[r].result = table[r].result
    BY Zenon DEF Legal, Pending
  <2> QED
    BY <2>1, Zenon DEF Inv, UnfinishedHasNone
<1>4. AttendedIsSafe'
  <2> SUFFICES ASSUME ~stalled', NEW t \in Tasks, task'[t].req # NoReq
               PROVE  /\ table'[task'[t].req].status \notin {"new", "absent"}
                      /\ table'[task'[t].req].status = "inprogress" => ~table'[task'[t].req].stale
    BY Zenon DEF AttendedIsSafe
  <2>1. PICK r \in Requests : r = task[t].req /\ r = task'[t].req
    BY Zenon DEF Inv, RequestsTypeOK, TaskStates
  <2>2. Attended(r)'
    BY <2>1, Zenon DEF Attended
  <2>3. /\ table[r].status \notin {"new", "absent"}
        /\ table[r].status = "inprogress" => ~table[r].stale
    BY <2>1, Zenon DEF Inv, AttendedIsSafe
  <2>4. Legal(r)
    BY Zenon
  <2> QED
    BY <2>1, <2>2, <2>3, <2>4, Zenon DEF Legal
<1> QED
  BY <1>1, <1>2, <1>3, <1>4, Preserve, Zenon

(* ... and settle nothing twice. *)
LEMMA StepFinal ==
  ASSUME Inv, StepOK, ~requeued', NEW r \in Requests
  PROVE  /\ table[r].status \in Finished \cup {"failed"} => table'[r].status \notin Pending
         /\ table[r].result # NoResult => table'[r].result = table[r].result
<1>1. Legal(r) /\ ~requeued
  BY Zenon DEF StepOK
<1>2. table[r].status = "inprogress" => table[r].result = NoResult
  BY <1>1, Zenon DEF Inv, UnfinishedHasNone, Pending
<1> QED
  BY <1>1, <1>2, Zenon DEF Legal, Finished, Pending

-----------------------------------------------------------------------------
(* Each action of clients, of the cleanup, of the abort and of tasks that  *)
(* leave the table alone is a step StepOK allows.                          *)


(* The initial states: at most one row, which nobody has, and idle tasks. *)
LEMMA InitInv == Init => Inv
<1> SUFFICES ASSUME Init PROVE Inv
  BY Zenon
<1>1. \A r \in Requests : table[r] \in {Absent, Orphan}
  BY Zenon DEF Init
<1>2. \A t \in Tasks : task[t] = Idle
  BY Zenon DEF Init
<1>3. Table
  <2>1. Absent \in Rows /\ Orphan \in Rows
    BY RequestAssumption DEF Rows, Absent, Orphan, Statuses, Pending, NoResult
  <2> QED
    BY <2>1, Zenon DEF Init, Table
<1>4. TaskType
  <2>1. Idle \in TaskStates
    BY RequestAssumption DEF TaskStates, Idle
  <2> QED
    BY <2>1, Zenon DEF Init, TaskType
<1>5. RestType
  <2>1. cleaner \in CleanerStates
    BY Zenon DEF Init, Unoccupied, CleanerStates
  <2>2. abort \in AbortStates
    BY Zenon DEF Init, AbortStates
  <2>3. faults \in 0 .. MaxFaults
    BY AsyncAssumption DEF Init
  <2>4. deps \in [Requests -> SUBSET Requests] /\ late \in [Requests -> SUBSET Requests]
    BY Zenon DEF Init
  <2> QED
    BY <2>1, <2>2, <2>3, <2>4, Zenon DEF Init, RestType
<1>6. TasksHaveRequests /\ WorkAfterDependencies /\ AttendedIsSafe /\ NoStallNoDuplicate
  BY <1>2 DEF TasksHaveRequests, WorkAfterDependencies, AttendedIsSafe, NoStallNoDuplicate, Idle
<1>7. FinishedHasResult /\ UnfinishedHasNone
  BY <1>1 DEF FinishedHasResult, UnfinishedHasNone, Absent, Orphan, Finished, NoResult
<1> QED
  BY <1>3, <1>4, <1>5, <1>6, <1>7, Types, Zenon DEF Inv

(* A step that leaves the table alone. *)
LEMMA TaskOnly ==
  ASSUME Inv, UNCHANGED table, UNCHANGED <<deps, late>>, TaskType', RestType',
         stalled => stalled', requeued => requeued', NEW t \in Tasks,
         task'[t].pc = "idle" <=> task'[t].req = NoReq,
         task'[t].req \in {NoReq, task[t].req},
         \A u \in Tasks \ {t} : task'[u] = task[u]
  PROVE  StepOK
<1>1. RequestsTypeOK'
  BY Types, Zenon DEF Inv, RequestsTypeOK, TaskType, RestType
<1>2. \A r \in Requests : Legal(r)
  BY Zenon DEF Legal
<1>3. \A u \in Tasks : task'[u].pc = "idle" <=> task'[u].req = NoReq
  BY Zenon DEF Inv, TasksHaveRequests
<1> QED
  BY <1>1, <1>2, <1>3, Zenon DEF StepOK, DepsStep

(* A step that leaves the tasks alone. *)
LEMMA TableOnly ==
  ASSUME Inv, UNCHANGED task, DepsStep, Table', RestType',
         stalled => stalled', requeued => requeued', \A r \in Requests : Legal(r)
  PROVE  StepOK
<1>1. RequestsTypeOK'
  BY Zenon DEF Inv, RequestsTypeOK, Table, RestType
<1>2. \A u \in Tasks : task'[u].pc = "idle" <=> task'[u].req = NoReq
  BY Zenon DEF Inv, TasksHaveRequests
<1> QED
  BY <1>1, <1>2, Zenon DEF StepOK

(* Most steps add no dependency. *)
LEMMA SameDeps == ASSUME UNCHANGED <<deps, late>> PROVE DepsStep
  BY Zenon DEF DepsStep

(* A request with a task was claimed: it is neither new nor absent. *)
LEMMA Unattended ==
  ASSUME Inv, ~stalled, NEW r \in Requests,
         \/ table[r].status \in {"new", "absent"}
         \/ table[r].status = "inprogress" /\ table[r].stale
  PROVE  ~Attended(r)
  BY AsyncAssumption, Zenon DEF Inv, AttendedIsSafe, Attended

(* add_request_with_dependencies* *)
LEMMA EnqueueOK == ASSUME Inv, NEW r \in Requests, Enqueue(r) PROVE StepOK
<1>1. Table /\ RestType /\ table[r] \in Rows /\ "new" \in Statuses
  BY Types, Zenon DEF Inv, Table, Statuses, Pending
<1>2. PICK graph \in Dependencies :
        /\ deps' = [deps EXCEPT ![r] = deps[r] \cup graph[r]]
        /\ late' = [late EXCEPT ![r] = late[r] \cup (graph[r] \ deps[r])]
  BY Zenon DEF Enqueue, AddDependencies
<1>3. UNCHANGED <<task, cleaner, abort, behind, faults, uncounted, stalled, requeued>>
  BY Zenon DEF Enqueue, NoFault
<1>4. graph[r] \subseteq Requests
  BY AsyncAssumption, Zenon
<1>5. deps' \in [Requests -> SUBSET Requests] /\ late' \in [Requests -> SUBSET Requests]
  BY <1>1, <1>2, <1>4, Zenon DEF RestType
<1>6. RestType'
  BY <1>1, <1>3, <1>5, Zenon DEF RestType
<1>7. DepsStep
  <2> SUFFICES ASSUME NEW x \in Requests, NEW d \in deps'[x] \ late'[x] PROVE d \in deps[x] \ late[x]
    BY Zenon DEF DepsStep
  <2> QED
    BY <1>1, <1>2, Zenon DEF RestType
<1>8. CASE table[r].status = "absent"
  <2> DEFINE row == [table[r] EXCEPT !.status = "new"]
  <2>1. table' = Update(r, row)
    BY <1>8, Zenon DEF Enqueue, AddRequest
  <2>2. row \in Rows /\ row.status = "new" /\ row.result = table[r].result
    BY <1>1, RowStatus, Zenon
  <2> HIDE DEF row
  <2>3. Sets(table', r, row)
    BY <1>1, <2>1, <2>2, UpdateSets, Zenon
  <2>4. ~stalled => ~Attended(r)'
    BY <1>3, <1>8, Unattended, Zenon DEF Attended
  <2>5. Legal(r)
    BY <1>3, <1>8, <2>2, <2>3, <2>4, Zenon DEF Legal, Sets
  <2>6. \A x \in Requests : Legal(x)
    BY <2>3, <2>5, Zenon DEF Legal, Sets
  <2> QED
    BY <1>3, <1>6, <1>7, <2>3, <2>6, TableOnly, Zenon DEF Sets, Table
<1>9. CASE table[r].status # "absent"
  <2>1. UNCHANGED table
    BY <1>9, Zenon DEF Enqueue, AddRequest
  <2>2. Table' /\ \A x \in Requests : Legal(x)
    BY <1>1, <2>1, Zenon DEF Legal, Table
  <2> QED
    BY <1>3, <1>6, <1>7, <2>2, TableOnly, Zenon
<1> QED
  BY <1>8, <1>9, Zenon

(* A replica falls behind. *)
LEMMA FallBehindOK == ASSUME Inv, FallBehind PROVE StepOK
<1>1. Table /\ RestType
  BY Types, Zenon DEF Inv
<1>2. /\ UNCHANGED <<table, deps, late, task, cleaner, abort, uncounted, stalled, requeued>>
      /\ Fault /\ behind' = behind \cup {Shown}
  BY Zenon DEF FallBehind, history
<1>3. Shown \in ViewStates
  <2>1. \A r \in Requests : table[r].result \in {NoResult, "computed", "aborted"}
    BY <1>1, Zenon DEF Table, Rows
  <2> QED
    BY <2>1, Zenon DEF Shown, ViewStates
<1>4. faults' \in 0 .. MaxFaults
  BY <1>1, <1>2, AsyncAssumption DEF RestType, Fault
<1>5. RestType'
  BY <1>1, <1>2, <1>3, <1>4, Zenon DEF RestType
<1>6. Table' /\ \A x \in Requests : Legal(x)
  BY <1>1, <1>2, Zenon DEF Legal, Table
<1> QED
  BY <1>2, <1>5, <1>6, SameDeps, TableOnly, Zenon

(* poll, and the administrator's mark_ready_requests_failed *)
LEMMA ReadyRowOK ==
  ASSUME Inv, NEW r \in Requests, Poll(r) \/ FailDeadReady(r)
  PROVE  StepOK
<1>1. Table /\ RestType /\ table[r] \in Rows /\ "polled" \in Statuses /\ "failed" \in Statuses
  BY Types, Zenon DEF Inv, Table, Statuses, Finished
<1>2. PICK s \in {"polled", "failed"} : table' = Update(r, [table[r] EXCEPT !.status = s])
  BY Zenon DEF Poll, FailDeadReady, MarkRequestPolled, MarkReadyRequestFailed
<1>3. Sets(table', r, [table[r] EXCEPT !.status = s])
  BY <1>1, <1>2, UpdateSets, RowStatus, Zenon
<1>4. RestType'
  BY <1>1, AsyncAssumption DEF Poll, FailDeadReady, RestType, NoFault, Fault, others, history
<1>5. table[r].status = "ready" /\ table'[r].status = s /\ table'[r].result = table[r].result
  BY <1>1, <1>3, RowStatus DEF Sets, Poll, FailDeadReady
<1>6. \A x \in Requests : Legal(x)
  BY <1>3, <1>5, Zenon DEF Legal, Sets
<1> QED
  BY <1>3, <1>4, <1>6, SameDeps, TableOnly DEF Poll, FailDeadReady, others, history, Sets, Table

(* Time: a row that nobody updates. *)
LEMMA AgeOK == ASSUME Inv, NEW r \in Requests, Age(r) \/ Stall(r) PROVE StepOK
<1>1. Table /\ RestType /\ table[r] \in Rows
  BY Types, Zenon DEF Inv, Table
<1>2. Sets(table', r, [table[r] EXCEPT !.stale = TRUE])
  BY <1>1, UpdateSets, RowStale, Zenon DEF Age, Stall
<1>3. RestType'
  <2>1. CASE Age(r)
    BY <1>1, <2>1, Zenon DEF Age, RestType, NoFault, others, history
  <2>2. CASE Stall(r)
    <3>1. faults' \in 0 .. MaxFaults
      BY <1>1, <2>2, AsyncAssumption DEF Stall, RestType, Fault
    <3> QED
      BY <1>1, <2>2, <3>1, Zenon DEF Stall, RestType, others
  <2> QED
    BY <2>1, <2>2, Zenon
<1>4. table'[r].status = table[r].status /\ table'[r].result = table[r].result
  BY <1>1, <1>2, RowStale, Zenon DEF Sets
<1>5. stalled' \/ ~Attended(r)'
  BY Zenon DEF Age, Stall, Attended, others
<1>6. \A x \in Requests : Legal(x)
  BY <1>2, <1>4, <1>5, Zenon DEF Legal, Sets
<1> QED
  BY <1>2, <1>3, <1>6, SameDeps, TableOnly DEF Age, Stall, others, history, Sets, Table

-----------------------------------------------------------------------------
(* The variables that a step of a task, of the cleanup or of the abort      *)
(* leaves well typed.                                                       *)
LEMMA RestStep ==
  ASSUME RestType, UNCHANGED <<deps, late, behind>>, Fault \/ NoFault,
         cleaner' \in CleanerStates,
         abort' \in AbortStates,
         uncounted' \in BOOLEAN, stalled' \in BOOLEAN, requeued' \in BOOLEAN
  PROVE  RestType'
<1>1. faults' \in 0 .. MaxFaults
  BY AsyncAssumption DEF RestType, Fault, NoFault
<1> QED
  BY <1>1, Zenon DEF RestType

(* The cleanup's bookkeeping keeps its type. *)
LEMMA CleanerType ==
  ASSUME RestType
  PROVE  /\ Unoccupied \in CleanerStates
         /\ \A r : NextAbandoned(r) \in CleanerStates
         /\ \A r \in Requests : [cleaner EXCEPT !.pc = "read", !.req = r] \in CleanerStates
         /\ [cleaner EXCEPT !.pc = "fail"] \in CleanerStates
         /\ cleaner.todo \subseteq Requests
  BY Zenon DEF RestType, Unoccupied, NextAbandoned, CleanerStates

(* A cascade, or the batch fail of an abort. *)
LEMMA FailAllOK ==
  ASSUME Inv, NEW S, \A r \in S : table[r].status \in Pending, table' = FailAll(S)
  PROVE  Table' /\ \A r \in Requests : Legal(r)
<1>1. Table
  BY Types, Zenon DEF Inv
<1> QED
  BY <1>1, FailAllRows, Zenon DEF Legal, Table

(* cleanup_abandoned_requests, all its steps but the requeue *)
LEMMA CleanerOK ==
  ASSUME Inv, FindAbandoned \/ ReadAbandoned \/ FailAbandoned \/ CleanupFails
  PROVE  StepOK
<1>1. Table /\ RestType
  BY Types, Zenon DEF Inv
<1>2. Table' /\ \A r \in Requests : Legal(r)
  <2>1. CASE FailAbandoned
    BY <2>1, FailAllOK DEF FailAbandoned, FailRequestWithCascade
  <2>2. CASE FindAbandoned \/ ReadAbandoned \/ CleanupFails
    BY <1>1, <2>2, Zenon DEF FindAbandoned, ReadAbandoned, CleanupFails, Table, Legal
  <2> QED
    BY <2>1, <2>2, Zenon
<1>3. cleaner' \in CleanerStates
  <2>1. CASE FindAbandoned
    <3> DEFINE S == {r \in Requests : Abandoned(r)}
    <3>1. cleaner' = [pc |-> "mark", req |-> NoReq, todo |-> S] /\ S \in SUBSET Requests
      BY <2>1, Zenon DEF FindAbandoned
    <3> HIDE DEF S
    <3> QED
      BY <3>1, Zenon DEF CleanerStates
  <2>2. CASE ReadAbandoned \/ FailAbandoned \/ CleanupFails
    BY <1>1, <2>2, CleanerType, Zenon DEF ReadAbandoned, FailAbandoned, CleanupFails
  <2> QED
    BY <2>1, <2>2, Zenon
<1>4. /\ UNCHANGED <<deps, task, abort, behind, history>>
      /\ Fault \/ NoFault
  BY Zenon DEF FindAbandoned, ReadAbandoned, FailAbandoned, CleanupFails
<1>5. RestType'
  BY <1>1, <1>3, <1>4, RestStep, Zenon DEF RestType, history
<1> QED
  BY <1>2, <1>4, <1>5, SameDeps, TableOnly, Zenon DEF history

(* mark_abandoned_request_as_new: only a request nobody attends, or one     *)
(* whose worker has stalled, is new again.                                  *)
LEMMA MarkAbandonedOK == ASSUME Inv, MarkAbandonedAsNew PROVE StepOK
<1>1. Table /\ RestType
  BY Types, Zenon DEF Inv
<1>2. PICK r \in cleaner.todo :
        /\ table' = MarkRequestAsNewAgain(r)
        /\ cleaner' = IF table' # table THEN NextAbandoned(r) ELSE [cleaner EXCEPT !.pc = "read", !.req = r]
  BY Zenon DEF MarkAbandonedAsNew
<1>3. r \in Requests /\ table[r] \in Rows
  BY <1>1, <1>2, CleanerType, Zenon DEF Table
<1>4. RestType'
  <2>1. cleaner' \in CleanerStates
    BY <1>1, <1>2, <1>3, CleanerType, Zenon
  <2> QED
    BY <1>1, <2>1, RestStep, Zenon DEF MarkAbandonedAsNew, RestType, history
<1>5. Table' /\ \A x \in Requests : Legal(x)
  <2>1. CASE Abandoned(r) /\ table[r].retries < MaxRetries
    <3> DEFINE n == table[r].retries + 1
               row == [table[r] EXCEPT !.status = "new", !.stale = FALSE, !.retries = n]
    <3>1. n \in 0 .. MaxRetries
      BY <1>3, <2>1, RequestAssumption DEF Rows
    <3>2. table' = Update(r, row)
      BY <1>2, <2>1, Zenon DEF MarkRequestAsNewAgain
    <3> HIDE DEF n
    <3>3. row \in Rows /\ row.status = "new" /\ row.result = table[r].result
      BY <1>3, <3>1, RowRetried, Zenon
    <3> HIDE DEF row
    <3>4. Sets(table', r, row)
      BY <1>1, <1>3, <3>2, <3>3, UpdateSets, Zenon
    <3>5. stalled' \/ ~Attended(r)'
      BY <1>3, <2>1, Unattended, Zenon DEF MarkAbandonedAsNew, history, Attended, Abandoned
    <3>6. Legal(r)
      BY <2>1, <3>3, <3>4, <3>5, Zenon DEF Legal, Sets, Abandoned
    <3> QED
      BY <3>4, <3>6, Zenon DEF Legal, Sets, Table
  <2>2. CASE ~(Abandoned(r) /\ table[r].retries < MaxRetries)
    BY <1>1, <1>2, <2>2, Zenon DEF MarkRequestAsNewAgain, Legal, Table
  <2> QED
    BY <2>1, <2>2, Zenon
<1> QED
  BY <1>4, <1>5, SameDeps, TableOnly, Zenon DEF MarkAbandonedAsNew, history

-----------------------------------------------------------------------------
(* complete_inner, by a task or by the abort *)
LEMMA ReadyOK ==
  ASSUME Inv, NEW r \in Requests, NEW result \in {"computed", "aborted"}, table' = MarkRequestReady(r, result)
  PROVE  Table' /\ \A x \in Requests : Legal(x)
<1>1. Table /\ table[r] \in Rows
  BY Types, Zenon DEF Inv, Table
<1>2. CASE table[r].status = "inprogress"
  <2> DEFINE row == [table[r] EXCEPT !.status = "ready", !.result = result]
  <2>1. table' = Update(r, row)
    BY <1>2, Zenon DEF MarkRequestReady
  <2>2. row \in Rows /\ row.status = "ready" /\ row.result # NoResult
    BY <1>1, RowReady, Zenon DEF NoResult
  <2> HIDE DEF row
  <2>3. Sets(table', r, row)
    BY <1>1, <2>1, <2>2, UpdateSets, Zenon
  <2> QED
    BY <1>2, <2>2, <2>3, Zenon DEF Legal, Sets, Table
<1>3. CASE table[r].status # "inprogress"
  BY <1>1, <1>3, Zenon DEF MarkRequestReady, Legal, Table
<1> QED
  BY <1>2, <1>3, Zenon

(* abort_children_by_root_id *)
LEMMA AbortOK == ASSUME Inv, AbortStep PROVE StepOK
<1>1. Table /\ RestType
  BY Types, Zenon DEF Inv
<1>2. /\ UNCHANGED <<deps, task, cleaner, behind, history>>
      /\ NoFault
  BY Zenon DEF AbortStep, AbortNew, AbortRead, AbortComplete, AbortReturns
<1>3. abort' \in AbortStates
  <2>1. CASE AbortNew
    <3> DEFINE K == {r \in Children : table[r].status # "absent"}
    <3>1. abort' = [pc |-> "read", kids |-> K, todo |-> {}] /\ K \in SUBSET Children
      BY <2>1, Zenon DEF AbortNew
    <3> HIDE DEF K
    <3> QED
      BY <3>1, Zenon DEF AbortStates
  <2>2. CASE AbortRead
    <3>1. PICK K \in SUBSET Children : abort' = [abort EXCEPT !.pc = "complete", !.todo = K]
      BY <2>2, Zenon DEF AbortRead
    <3> QED
      BY <1>1, <3>1, Zenon DEF AbortStates, RestType
  <2>3. CASE AbortComplete
    BY <1>1, <2>3, Zenon DEF AbortComplete, AbortStates, RestType
  <2>4. CASE AbortReturns
    BY <2>4, Zenon DEF AbortReturns, AbortStates
  <2> QED
    BY <2>1, <2>2, <2>3, <2>4, Zenon DEF AbortStep
<1>4. RestType'
  BY <1>1, <1>2, <1>3, RestStep, Zenon DEF RestType, history
<1>5. Table' /\ \A r \in Requests : Legal(r)
  <2>1. CASE AbortNew
    <3>1. \A r \in {x \in Children : table[x].status = "new"} : table[r].status \in Pending
      BY Zenon DEF Pending
    <3> QED
      BY <2>1, <3>1, FailAllOK, Zenon DEF AbortNew, FailNewRequests
  <2>2. CASE AbortComplete
    <3>1. PICK r \in abort.todo : table' = MarkRequestReady(r, "aborted")
      BY <2>2, Zenon DEF AbortComplete
    <3>2. r \in Requests
      BY <1>1, <3>1, AsyncAssumption, Zenon DEF RestType, AbortStates
    <3> QED
      BY <3>1, <3>2, ReadyOK, Zenon
  <2>3. CASE AbortRead \/ AbortReturns
    BY <1>1, <2>3, Zenon DEF AbortRead, AbortReturns, Table, Legal
  <2> QED
    BY <2>1, <2>2, <2>3, Zenon DEF AbortStep
<1> QED
  BY <1>2, <1>4, <1>5, SameDeps, TableOnly, Zenon DEF history

-----------------------------------------------------------------------------
(* The steps of a task that do not touch the table. *)
LEMMA TaskOnlyOK ==
  ASSUME Inv, NEW t \in Tasks, Admit(t) \/ Throttle(t) \/ AdmitUncounted(t) \/ ReadForRetry(t) \/ Crash(t)
  PROVE  StepOK
<1>1. Table /\ TaskType /\ RestType /\ task[t] \in TaskStates
  BY Types, Zenon DEF Inv, TaskType
<1>2. /\ UNCHANGED <<table, deps, late, cleaner, abort, behind, stalled, requeued>>
      /\ Fault \/ NoFault
      /\ uncounted' = uncounted \/ uncounted' \in BOOLEAN
  BY Zenon DEF Admit, Throttle, AdmitUncounted, ReadForRetry, Crash, others, history
<1>3. RestType'
  BY <1>1, <1>2, RestStep, Zenon DEF RestType
<1>4. task[t].pc # "idle"
  BY Zenon DEF Admit, Throttle, AdmitUncounted, ReadForRetry, Crash
<1>5. task[t].req # NoReq
  BY <1>4, Zenon DEF Inv, TasksHaveRequests
<1> DEFINE n == table[task[t].req].retries + 1
           x == [task[t] EXCEPT !.pc = "again", !.next = n]
<1>6. \/ Leave(t)
      \/ \E pc \in {"requeue", "work", "fail"} : Goto(t, pc)
      \/ n \in 0 .. MaxRetries /\ task' = [task EXCEPT ![t] = x]
  <2>1. CASE ReadForRetry(t)
    <3>1. table[task[t].req].retries \in Nat
      BY <1>1, <1>5 DEF TaskStates, Table, Rows
    <3>2. ~(n > MaxRetries) => n \in 0 .. MaxRetries
      BY <3>1, RequestAssumption
    <3>3. Leave(t) \/ Goto(t, "fail") \/ (~(n > MaxRetries) /\ task' = [task EXCEPT ![t] = x])
      BY <2>1, Zenon DEF ReadForRetry
    <3> QED
      BY <3>2, <3>3, Zenon
  <2>2. CASE Admit(t) \/ Throttle(t) \/ AdmitUncounted(t) \/ Crash(t)
    BY <2>2, Zenon DEF Admit, Throttle, AdmitUncounted, Crash
  <2> QED
    BY <2>1, <2>2, Zenon
<1>7. /\ TaskType'
      /\ task'[t].pc = "idle" <=> task'[t].req = NoReq
      /\ task'[t].req \in {NoReq, task[t].req}
      /\ \A u \in Tasks \ {t} : task'[u] = task[u]
  <2>1. CASE Leave(t)
    BY <1>1, <2>1, LeaveTask, Zenon
  <2>2. CASE \E pc \in {"requeue", "work", "fail"} : Goto(t, pc)
    BY <1>1, <1>5, <2>2, GotoTask, Zenon
  <2>3. CASE n \in 0 .. MaxRetries /\ task' = [task EXCEPT ![t] = x]
    <3> HIDE DEF n
    <3>1. x \in TaskStates /\ x.pc = "again" /\ x.req = task[t].req
      BY <1>1, <2>3, Zenon DEF TaskStates
    <3> HIDE DEF x
    <3> QED
      BY <1>1, <1>5, <2>3, <3>1, Zenon DEF TaskType
  <2> QED
    BY <1>6, <2>1, <2>2, <2>3, Zenon
<1> QED
  BY <1>2, <1>3, <1>7, TaskOnly, Zenon

-----------------------------------------------------------------------------
(* A step with which a task ends. *)
LEMMA LeaveOK ==
  ASSUME Inv, NEW t \in Tasks, Leave(t), UNCHANGED <<deps, late>>, Table', RestType',
         stalled => stalled', requeued => requeued', \A r \in Requests : Legal(r)
  PROVE  StepOK
<1>1. TaskType
  BY Types, Zenon DEF Inv
<1>2. /\ TaskType'
      /\ task'[t].pc = "idle" /\ task'[t].req = NoReq
      /\ \A u \in Tasks \ {t} : task'[u] = task[u]
  BY <1>1, LeaveTask, Zenon
<1>3. RequestsTypeOK'
  BY <1>2, Zenon DEF RequestsTypeOK, Table, TaskType, RestType
<1>4. \A u \in Tasks : task'[u].pc = "idle" <=> task'[u].req = NoReq
  BY <1>2, Zenon DEF Inv, TasksHaveRequests
<1> QED
  BY <1>2, <1>3, <1>4, SameDeps, Zenon DEF StepOK

(* An occupied task has a request. *)
LEMMA HasRequest == ASSUME Inv, NEW t \in Tasks, task[t].pc # "idle" PROVE task[t].req \in Requests
  BY Zenon DEF Inv, TasksHaveRequests, RequestsTypeOK, TaskStates

(* When a task has left, nobody else attends its request, unless it was    *)
(* taken for dead.                                                         *)
LEMMA LeftAlone ==
  ASSUME Inv, NEW t \in Tasks, Leave(t), task[t].pc # "idle", ~stalled, NEW r, r = task[t].req
  PROVE  ~Attended(r)'
<1>1. TaskType
  BY Types, Zenon DEF Inv
<1>2. r # NoReq
  BY HasRequest, AsyncAssumption, Zenon
<1>3. \A u \in Tasks \ {t} : task[u].req # r
  BY <1>2, Zenon DEF Inv, NoStallNoDuplicate
<1> QED
  BY <1>1, <1>2, <1>3, LeaveTask, Zenon DEF Attended

(* requeue: either the row is the task's, or requeued records that it was  *)
(* not.                                                                    *)
LEMMA RequeueOK == ASSUME Inv, NEW t \in Tasks, Requeue(t) PROVE StepOK
<1> DEFINE r == task[t].req
           row == [table[r] EXCEPT !.status = "new"]
<1>1. task[t].pc # "idle" /\ r \in Requests
  BY HasRequest, Zenon DEF Requeue
<1>2. Table /\ RestType /\ table[r] \in Rows /\ "new" \in Statuses
  BY <1>1, Types, Zenon DEF Inv, Table, Statuses, Pending
<1>3. row \in Rows /\ row.status = "new" /\ row.result = table[r].result
  BY <1>2, RowStatus, Zenon
<1>4. table' = Update(r, row)
  BY Zenon DEF Requeue, MarkRequestAsNew
<1> HIDE DEF row
<1>5. Sets(table', r, row)
  BY <1>1, <1>2, <1>3, <1>4, UpdateSets, Zenon
<1>6. requeued' \in BOOLEAN /\ (requeued => requeued') /\ (table[r].status = "inprogress" \/ requeued')
  BY Zenon DEF Requeue, HasIt
<1>7. RestType'
  BY <1>2, <1>6, RestStep, Zenon DEF Requeue, RestType, others
<1>8. PICK q \in Requests : q = r
  BY <1>1, Zenon
<1> HIDE DEF r
<1>9. stalled' \/ ~Attended(q)'
  BY <1>1, <1>8, LeftAlone, Zenon DEF Requeue, r
<1>10. Legal(q)
  BY <1>3, <1>5, <1>6, <1>8, <1>9, Zenon DEF Legal, Sets
<1>11. \A x \in Requests : Legal(x)
  BY <1>5, <1>8, <1>10, Zenon DEF Legal, Sets
<1>12. Table' /\ Leave(t) /\ UNCHANGED <<deps, late>> /\ UNCHANGED stalled
  BY <1>5, Zenon DEF Sets, Table, Requeue, others
<1> QED
  BY <1>6, <1>7, <1>11, <1>12, LeaveOK, Zenon

(* complete *)
LEMMA CompleteOK == ASSUME Inv, NEW t \in Tasks, Complete(t) PROVE StepOK
<1>1. task[t].req \in Requests
  BY HasRequest, Zenon DEF Complete
<1>2. Table' /\ \A x \in Requests : Legal(x)
  BY <1>1, ReadyOK, Zenon DEF Complete
<1>3. RestType'
  BY Types, RestStep, Zenon DEF Inv, Complete, RestType, others, history
<1> QED
  BY <1>2, <1>3, LeaveOK, Zenon DEF Complete, others, history

(* keep_alive_loop *)
LEMMA KeepAliveOK == ASSUME Inv, NEW t \in Tasks, KeepAlive(t) PROVE StepOK
<1> DEFINE r == task[t].req
           row == [table[r] EXCEPT !.stale = FALSE]
<1>1. r \in Requests
  BY HasRequest, Zenon DEF KeepAlive
<1>2. Table /\ RestType /\ table[r] \in Rows
  BY <1>1, Types, Zenon DEF Inv, Table
<1>3. RestType'
  BY <1>2, RestStep, Zenon DEF KeepAlive, RestType, others, history
<1>4. CASE table[r].status = "inprogress"
  <2>1. table' = Update(r, row) /\ UNCHANGED task
    BY <1>4, Zenon DEF KeepAlive, UpdateInProgressTimestamp
  <2>2. row \in Rows /\ row.status = table[r].status /\ row.result = table[r].result /\ row.stale = FALSE
    BY <1>2, RowStale, Zenon
  <2> HIDE DEF row
  <2>3. Sets(table', r, row)
    BY <1>1, <1>2, <2>1, <2>2, UpdateSets, Zenon
  <2>4. \A x \in Requests : Legal(x)
    BY <2>2, <2>3, Zenon DEF Legal, Sets
  <2> QED
    BY <1>3, <2>1, <2>3, <2>4, SameDeps, TableOnly, Zenon DEF Sets, Table, KeepAlive, others, history
<1>5. CASE table[r].status # "inprogress"
  <2>1. UNCHANGED table /\ Leave(t)
    BY <1>5, Zenon DEF KeepAlive, UpdateInProgressTimestamp
  <2>2. Table' /\ \A x \in Requests : Legal(x)
    BY <1>2, <2>1, Zenon DEF Legal, Table
  <2> QED
    BY <1>3, <2>1, <2>2, LeaveOK, Zenon DEF KeepAlive, others, history
<1> QED
  BY <1>4, <1>5, Zenon

(* update_for_retry_or_fail, the write *)
LEMMA RetryOrFailOK == ASSUME Inv, NEW t \in Tasks, RetryOrFail(t) PROVE StepOK
<1>1. PICK r \in Requests : r = task[t].req
  BY HasRequest, Zenon DEF RetryOrFail
<1>2. Table /\ RestType /\ table[r] \in Rows
  BY Types, Zenon DEF Inv, Table
<1>3. task[t].next \in 0 .. MaxRetries
  BY Zenon DEF Inv, RequestsTypeOK, TaskStates
<1>4. RestType'
  BY <1>2, RestStep, Zenon DEF RetryOrFail, RestType, others, history
<1>5. Table' /\ \A x \in Requests : Legal(x)
  <2>1. CASE table' = FailRequestWithCascade(r)
    BY <2>1, FailAllOK DEF FailRequestWithCascade
  <2>2. CASE table' = MarkRequestAsNewForRetry(r, task[t].next) /\ table[r].status = "inprogress"
    <3> DEFINE row == [table[r] EXCEPT !.status = "new", !.stale = FALSE, !.retries = task[t].next]
    <3>1. table' = Update(r, row)
      BY <2>2, Zenon DEF MarkRequestAsNewForRetry
    <3>2. row \in Rows /\ row.status = "new" /\ row.result = table[r].result
      BY <1>2, <1>3, RowRetried, Zenon
    <3> HIDE DEF row
    <3>3. Sets(table', r, row)
      BY <1>2, <3>1, <3>2, UpdateSets, Zenon
    <3>4. stalled' \/ ~Attended(r)'
      BY <1>1, LeftAlone, Zenon DEF RetryOrFail, history
    <3>5. Legal(r)
      BY <2>2, <3>2, <3>3, <3>4, Zenon DEF Legal, Sets
    <3> QED
      BY <3>3, <3>5, Zenon DEF Legal, Sets, Table
  <2>3. CASE table' = MarkRequestAsNewForRetry(r, task[t].next) /\ table[r].status # "inprogress"
    BY <1>2, <2>3, Zenon DEF MarkRequestAsNewForRetry, Legal, Table
  <2> QED
    BY <1>1, <2>1, <2>2, <2>3, Zenon DEF RetryOrFail
<1> QED
  BY <1>4, <1>5, LeaveOK, Zenon DEF RetryOrFail, others, history

-----------------------------------------------------------------------------
(* The claim: a new request, so nobody's unless a worker stalled, whose     *)
(* dependencies have results.                                               *)
LEMMA DequeueKeeps ==
  ASSUME Inv, NEW t \in Tasks, Dequeue(t)
  PROVE  /\ Inv'
         /\ \A r \in Requests :
              /\ table[r].status \in Finished \cup {"failed"} => table'[r].status \notin Pending
              /\ table'[r].result = table[r].result
<1>1. PICK r \in Requests :
        /\ Claimable(r)
        /\ table' = MarkRequestInProgress(r)
        /\ late' = [late EXCEPT ![r] = {}]
        /\ \/ NoFault /\ task' = [task EXCEPT ![t] = [pc |-> "load", req |-> r, next |-> 0]]
           \/ Fault /\ UNCHANGED task
  BY Zenon DEF Dequeue
<1>2. Table /\ TaskType /\ RestType /\ table[r] \in Rows
  BY Types, Zenon DEF Inv, Table
<1>3. UNCHANGED <<deps, cleaner, abort, behind, uncounted, stalled, requeued>> /\ task[t].pc = "idle"
  BY Zenon DEF Dequeue, others
<1> DEFINE row == [table[r] EXCEPT !.status = "inprogress", !.stale = FALSE]
           x == [pc |-> "load", req |-> r, next |-> 0]
<1>4. row \in Rows /\ row.status = "inprogress" /\ row.result = table[r].result /\ ~row.stale
  BY <1>2, RowClaimed, Zenon
<1>5. table' = Update(r, row)
  BY <1>1, Zenon DEF MarkRequestInProgress
<1>6. x \in TaskStates /\ x.pc = "load" /\ x.req = r
  BY RequestAssumption DEF Idle, TaskStates
<1>7. task' = task \/ task' = [task EXCEPT ![t] = x]
  BY <1>1, Zenon
<1> HIDE DEF row, x
<1>8. Sets(table', r, row)
  BY <1>2, <1>4, <1>5, UpdateSets, Zenon
<1>9. TaskType' /\ \A u \in Tasks : task'[u] = task[u] \/ (u = t /\ task'[u] = x)
  BY <1>2, <1>6, <1>7, Zenon DEF TaskType
<1>10. RestType'
  <2>1. faults' \in 0 .. MaxFaults
    BY <1>1, <1>2, AsyncAssumption DEF RestType, Fault, NoFault
  <2>2. late' \in [Requests -> SUBSET Requests]
    BY <1>1, <1>2, Zenon DEF RestType
  <2> QED
    BY <1>2, <1>3, <2>1, <2>2, Zenon DEF RestType
<1>11. RequestsTypeOK'
  BY <1>8, <1>9, <1>10, Zenon DEF RequestsTypeOK, Table, TaskType, RestType, Sets
<1>12. table[r].status = "new" /\ \A q \in Requests : table'[q].result = table[q].result
  BY <1>1, <1>4, <1>8, Zenon DEF Sets, Claimable
<1>13. TasksHaveRequests'
  BY <1>6, <1>9, AsyncAssumption, Zenon DEF Inv, TasksHaveRequests
<1>14. FinishedHasResult' /\ UnfinishedHasNone'
  BY <1>3, <1>4, <1>8, <1>12, Zenon DEF Inv, FinishedHasResult, UnfinishedHasNone, Sets, Finished, Pending
<1>15. WorkAfterDependencies'
  <2> SUFFICES ASSUME NEW u \in Tasks, task'[u].pc # "idle",
                      NEW d \in deps[task'[u].req] \ late'[task'[u].req]
               PROVE  table'[d].result # NoResult
    BY <1>3, Zenon DEF WorkAfterDependencies
  <2>1. task'[u].req \in Requests
    BY <1>11, <1>13, Zenon DEF TasksHaveRequests, RequestsTypeOK, TaskStates
  <2>2. d \in Requests
    BY <1>2, <2>1, Zenon DEF RestType
  <2>3. CASE task'[u].req = r
    BY <1>1, <1>12, <2>2, <2>3, Zenon DEF Inv, FinishedHasResult, Claimable
  <2>4. CASE task'[u].req # r
    <3>1. task'[u] = task[u] /\ late'[task'[u].req] = late[task'[u].req]
      BY <1>1, <1>2, <1>6, <1>9, <2>1, <2>4, Zenon DEF RestType
    <3> QED
      BY <1>12, <2>2, <3>1, Zenon DEF Inv, WorkAfterDependencies
  <2> QED
    BY <2>3, <2>4, Zenon
<1>16. ~stalled => \A u \in Tasks : task[u].req # r
  BY <1>12, Unattended, Zenon DEF Attended
<1>17. AttendedIsSafe'
  <2> SUFFICES ASSUME ~stalled, NEW u \in Tasks, task'[u].req # NoReq
               PROVE  /\ table'[task'[u].req].status \notin {"new", "absent"}
                      /\ table'[task'[u].req].status = "inprogress" => ~table'[task'[u].req].stale
    BY <1>3, Zenon DEF AttendedIsSafe
  <2>1. CASE task'[u].req = r
    BY <1>4, <1>8, <2>1, Zenon DEF Sets
  <2>2. CASE task'[u].req # r
    <3>1. task'[u] = task[u] /\ task[u].req \in Requests
      BY <1>2, <1>6, <1>9, <2>2, Zenon DEF TaskType, TaskStates
    <3>2. table'[task[u].req] = table[task[u].req]
      BY <1>8, <2>2, <3>1, Zenon DEF Sets
    <3> QED
      BY <3>1, <3>2, Zenon DEF Inv, AttendedIsSafe
  <2> QED
    BY <2>1, <2>2, Zenon
<1>18. NoStallNoDuplicate'
  BY <1>3, <1>6, <1>9, <1>16, Zenon DEF Inv, NoStallNoDuplicate
<1>19. \A q \in Requests : table[q].status \in Finished \cup {"failed"} => table'[q].status \notin Pending
  BY <1>8, <1>12, Zenon DEF Sets, Finished, Pending
<1> QED
  BY <1>11, <1>12, <1>13, <1>14, <1>15, <1>17, <1>18, <1>19, Zenon DEF Inv

(* Every step but a claim is one that StepOK allows. *)
LEMMA NextOK == ASSUME Inv, Next PROVE StepOK \/ \E t \in Tasks : Dequeue(t)
<1>1. CASE \E r \in Requests : Enqueue(r) \/ Poll(r) \/ FailDeadReady(r) \/ Age(r) \/ Stall(r)
  BY <1>1, EnqueueOK, ReadyRowOK, AgeOK, Zenon
<1>2. CASE \E t \in Tasks : TaskStep(t) \/ KeepAlive(t) \/ Crash(t)
  BY <1>2, TaskOnlyOK, RequeueOK, CompleteOK, RetryOrFailOK, KeepAliveOK, Zenon DEF TaskStep
<1>3. CASE CleanerStep \/ CleanupFails
  BY <1>3, CleanerOK, MarkAbandonedOK, Zenon DEF CleanerStep
<1>4. CASE AbortStep
  BY <1>4, AbortOK, Zenon
<1>5. CASE FallBehind
  BY <1>5, FallBehindOK, Zenon
<1> QED
  BY <1>1, <1>2, <1>3, <1>4, <1>5, Zenon DEF Next

(* A stuttering step changes nothing. *)
LEMMA StutterKeeps == ASSUME Inv, UNCHANGED vars PROVE Inv'
  BY Zenon DEF Inv, vars, RequestsTypeOK, TasksHaveRequests, FinishedHasResult, WorkAfterDependencies,
         UnfinishedHasNone, AttendedIsSafe, NoStallNoDuplicate

(* The inductive invariant holds in every state of every behaviour. *)
THEOREM RequestInvariant == Spec => []Inv
<1>1. Inv /\ [Next]_vars => Inv'
  BY NextOK, StepKeeps, DequeueKeeps, StutterKeeps, Zenon
<1> QED
  BY <1>1, InitInv, PTL DEF Spec

(* No request is worked on before everything it depended on when it was    *)
(* claimed has a result, for any number of requests, tasks and faults and  *)
(* whatever dependencies are added whenever.                               *)
THEOREM DependenciesFirst == Spec => []WorkAfterDependencies
<1>1. Inv => WorkAfterDependencies
  BY Zenon DEF Inv
<1> QED
  BY <1>1, RequestInvariant, PTL

(* Without a stall no request has two tasks: the claim query and the       *)
(* cleanup's condition on the timestamp are enough.                        *)
THEOREM NoDuplicates == Spec => []NoStallNoDuplicate
<1>1. Inv => NoStallNoDuplicate
  BY Zenon DEF Inv
<1> QED
  BY <1>1, RequestInvariant, PTL

(* The retry limit and the other types, for any limit. *)
THEOREM RequestTypes == Spec => []RequestsTypeOK
<1>1. Inv => RequestsTypeOK
  BY Zenon DEF Inv
<1> QED
  BY <1>1, RequestInvariant, PTL

(* What has settled stays settled, unless a requeue met a row its task did *)
(* not have any more.                                                      *)
THEOREM SettledStaysSettled == Spec => ResultsAreFinal
<1> DEFINE Final == ~requeued' => \A r \in Requests :
                      /\ table[r].status \in Finished \cup {"failed"} => table'[r].status \notin Pending
                      /\ table[r].result # NoResult => table'[r].result = table[r].result
<1>1. Inv /\ [Next]_vars => [Final]_vars
  <2> SUFFICES ASSUME Inv, Next PROVE Final
    BY Zenon
  <2>1. CASE StepOK
    BY <2>1, StepFinal, Zenon
  <2>2. CASE \E t \in Tasks : Dequeue(t)
    BY <2>2, DequeueKeeps, Zenon
  <2> QED
    BY <2>1, <2>2, NextOK, Zenon
<1> QED
  BY <1>1, RequestInvariant, PTL DEF Spec, ResultsAreFinal

-----------------------------------------------------------------------------
(* Without a stall and before an abort.  These two only come, they never go. *)
Calm == ~stalled /\ abort.pc = "idle"

(* A request that has had its last retry and that nobody works on: what is *)
(* left for it is to fail.                                                 *)
Spent(q) ==
    /\ q \in Requests /\ ~Attended(q)
    /\ table[q].status \in {"inprogress", "failed"} /\ table[q].retries = MaxRetries

(* A task has its row, unless a cascade failed it, and gives it up only    *)
(* after the last retry.                                                   *)
TasksHold ==
    \A t \in Tasks : task[t].req # NoReq =>
        /\ table[task[t].req].status \in {"inprogress", "failed"}
        /\ task[t].pc = "fail" => table[task[t].req].retries = MaxRetries

(* What makes NoFailureWithoutCause inductive: the request whose failure    *)
(* began a cascade is nobody's, so that no requeue undoes it.               *)
FailuresHaveRoots ==
    \A r \in Requests : table[r].status = "failed" /\ table[r].result = NoResult =>
        \E q \in Requests : r \in Dependents(deps, q) /\ Spent(q) /\ table[q].status = "failed"

CalmFacts ==
    /\ TasksHold
    /\ cleaner.pc = "read" => cleaner.req \in Requests
    /\ cleaner.pc = "fail" => Spent(cleaner.req)
    /\ FailuresHaveRoots

CalmInv == Calm => CalmFacts

(* What a step may do to the row of r in calm. *)
Gentle(r) ==
    \/ /\ table'[r].status = table[r].status
       /\ table'[r].result = table[r].result /\ table'[r].retries = table[r].retries
    \/ table[r].status \in {"absent", "new"} /\ table'[r].status \in {"new", "inprogress"}
    \/ /\ table[r].status = "ready" /\ table'[r].status \in {"polled", "failed"}
       /\ table'[r].result = table[r].result
    \/ Attended(r) /\ ~Attended(r)' /\ table'[r].status \in {"new", "ready"}
    \/ ~Attended(r) /\ ~Attended(r)' /\ table[r].retries # MaxRetries /\ table'[r].status = "new"
    \/ /\ table[r].status \in Pending /\ table'[r].status = "failed"
       /\ table'[r].result = table[r].result /\ table'[r].retries = table[r].retries
       /\ \E q \in Requests : r \in Dependents(deps, q) /\ Spent(q)' /\ table'[q].status = "failed"

DepsGrow == deps' \in [Requests -> SUBSET Requests] /\ \A r \in Requests : deps[r] \subseteq deps'[r]

GentleStep ==
    /\ DepsGrow
    /\ \A r \in Requests : Gentle(r)
    /\ \A u \in Tasks : task'[u].req # NoReq =>
         \/ /\ task'[u].pc = "load" /\ task'[u].req \in Requests
            /\ table[task'[u].req].status = "new" /\ table'[task'[u].req].status = "inprogress"
         \/ /\ task'[u].req = task[u].req
            /\ task'[u].pc = "fail" => task[u].pc = "fail" \/ table[task[u].req].retries = MaxRetries
    /\ cleaner'.pc = "read" => cleaner'.req \in Requests \/ UNCHANGED cleaner
    /\ cleaner'.pc = "fail" =>
         cleaner'.req = cleaner.req /\ (cleaner.pc = "fail" \/ Spent(cleaner.req))

(* The recursive query of fail_request_with_cascade: what it reaches is the *)
(* least set that has r and everything that depends on one of its members.  *)
LEMMA DependentsLeast ==
  ASSUME NEW graph, NEW r \in Requests
  PROVE  /\ Dependents(graph, r) \in SUBSET Requests
         /\ r \in Dependents(graph, r) /\ Closed(graph, Dependents(graph, r))
         /\ \A T \in SUBSET Requests : r \in T /\ Closed(graph, T) => Dependents(graph, r) \subseteq T
<1> DEFINE Least(S) == /\ r \in S /\ Closed(graph, S)
                       /\ \A T \in SUBSET Requests : r \in T /\ Closed(graph, T) => S \subseteq T
           All == {x \in Requests : \A T \in SUBSET Requests : r \in T /\ Closed(graph, T) => x \in T}
<1>1. Closed(graph, All)
  <2> SUFFICES ASSUME NEW y \in Requests, NEW x \in graph[y], x \in All,
                      NEW T \in SUBSET Requests, r \in T, Closed(graph, T)
               PROVE  y \in T
    BY Zenon DEF Closed
  <2>1. x \in T
    BY Zenon
  <2> QED
    BY <2>1, Zenon DEF Closed
<1>2. All \in SUBSET Requests /\ Least(All)
  BY <1>1, Zenon
<1>3. Dependents(graph, r) = CHOOSE S \in SUBSET Requests : Least(S)
  BY Zenon DEF Dependents
<1> HIDE DEF All, Least
<1>4. Dependents(graph, r) \in SUBSET Requests /\ Least(Dependents(graph, r))
  BY <1>2, <1>3, Zenon
<1> QED
  BY <1>4, Zenon DEF Least

(* With more dependencies, no fewer requests depend on q. *)
LEMMA DependentsGrow ==
  ASSUME NEW g, NEW h, \A r \in Requests : g[r] \subseteq h[r], NEW q \in Requests
  PROVE  Dependents(g, q) \subseteq Dependents(h, q)
<1> DEFINE S == Dependents(h, q)
<1>1. S \in SUBSET Requests /\ q \in S /\ Closed(h, S)
  BY DependentsLeast, Zenon
<1> HIDE DEF S
<1>2. Closed(g, S)
  BY <1>1, Zenon DEF Closed
<1>3. Dependents(g, q) \subseteq S
  BY <1>1, <1>2, DependentsLeast, Zenon
<1> QED
  BY <1>3, Zenon DEF S

(* A request that has had its last retry stays so. *)
LEMMA SpentStays ==
  ASSUME GentleStep, NEW q, Spent(q)
  PROVE  Spent(q)' /\ (table[q].status = "failed" => table'[q].status = "failed")
<1>1. q \in Requests /\ ~Attended(q) /\ Gentle(q)
  BY Zenon DEF Spent, GentleStep
<1>2. table[q].status \in {"inprogress", "failed"} /\ table[q].retries = MaxRetries
  BY Zenon DEF Spent
<1>3. ~Attended(q)'
  BY <1>1, <1>2, AsyncAssumption, Zenon DEF Attended, GentleStep
<1>4. /\ table'[q].status \in {"inprogress", "failed"} /\ table'[q].retries = MaxRetries
      /\ table[q].status = "failed" => table'[q].status = "failed"
  BY <1>1, <1>2, Zenon DEF Gentle, Pending
<1> QED
  BY <1>1, <1>3, <1>4, Zenon DEF Spent

(* Gentle steps keep what is known in calm. *)
LEMMA GentleKeeps ==
  ASSUME Inv, CalmFacts, GentleStep
  PROVE  CalmFacts'
<1>1. TasksHold'
  <2> SUFFICES ASSUME NEW u \in Tasks, task'[u].req # NoReq
               PROVE  /\ table'[task'[u].req].status \in {"inprogress", "failed"}
                      /\ task'[u].pc = "fail" => table'[task'[u].req].retries = MaxRetries
    BY Zenon DEF TasksHold
  <2>1. CASE task'[u].pc = "load" /\ table'[task'[u].req].status = "inprogress"
    BY <2>1, Zenon
  <2>2. CASE /\ task'[u].req = task[u].req
             /\ task'[u].pc = "fail" => task[u].pc = "fail" \/ table[task[u].req].retries = MaxRetries
    <3>1. PICK r \in Requests : r = task[u].req
      BY <2>2, Zenon DEF Inv, RequestsTypeOK, TaskStates
    <3>2. /\ table[r].status \in {"inprogress", "failed"}
          /\ task'[u].pc = "fail" => table[r].retries = MaxRetries
      BY <2>2, <3>1, Zenon DEF TasksHold, CalmFacts
    <3>3. Attended(r)' /\ Gentle(r)
      BY <2>2, <3>1, Zenon DEF Attended, GentleStep
    <3>4. table'[r].status \in {"inprogress", "failed"} /\ table'[r].retries = table[r].retries
      BY <3>2, <3>3, Zenon DEF Gentle
    <3> QED
      BY <2>2, <3>1, <3>2, <3>4, Zenon
  <2> QED
    BY <2>1, <2>2, Zenon DEF GentleStep
<1>2. cleaner'.pc = "read" => cleaner'.req \in Requests
  BY Zenon DEF GentleStep, CalmFacts
<1>3. cleaner'.pc = "fail" => Spent(cleaner.req)'
  <2> SUFFICES ASSUME cleaner'.pc = "fail" PROVE Spent(cleaner.req)'
    BY Zenon
  <2>1. PICK q : q = cleaner.req /\ q = cleaner'.req /\ Spent(q)
    BY Zenon DEF GentleStep, CalmFacts
  <2>2. Spent(q)'
    BY <2>1, SpentStays, Zenon
  <2> QED
    BY <2>1, <2>2, Zenon DEF Spent, Attended
<1>4. FailuresHaveRoots'
  <2> SUFFICES ASSUME NEW r \in Requests, table'[r].status = "failed", table'[r].result = NoResult
               PROVE  \E q \in Requests :
                        r \in Dependents(deps', q) /\ Spent(q)' /\ table'[q].status = "failed"
    BY Zenon DEF FailuresHaveRoots
  <2>1. PICK q \in Requests : r \in Dependents(deps, q) /\ Spent(q)' /\ table'[q].status = "failed"
    <3>1. CASE table[r].status = "failed" /\ table[r].result = NoResult
      <4>1. PICK q \in Requests : r \in Dependents(deps, q) /\ Spent(q) /\ table[q].status = "failed"
        BY <3>1, Zenon DEF CalmFacts, FailuresHaveRoots
      <4>2. Spent(q)' /\ table'[q].status = "failed"
        BY <4>1, SpentStays, Zenon
      <4> QED
        BY <4>1, <4>2, Zenon
    <3>2. CASE ~(table[r].status = "failed" /\ table[r].result = NoResult)
      <4>1. Gentle(r) /\ (table[r].status = "ready" => table[r].result # NoResult)
        BY Zenon DEF GentleStep, Inv, FinishedHasResult, Finished
      <4> QED
        BY <3>2, <4>1, Zenon DEF Gentle
    <3> QED
      BY <3>1, <3>2, Zenon
  <2>2. r \in Dependents(deps', q)
    <3>1. \A x \in Requests : deps[x] \subseteq deps'[x]
      BY Zenon DEF GentleStep, DepsGrow
    <3> QED
      BY <2>1, <3>1, DependentsGrow, Zenon
  <2> QED
    BY <2>1, <2>2, Zenon
<1> QED
  BY <1>1, <1>2, <1>3, <1>4, Zenon DEF CalmFacts

-----------------------------------------------------------------------------
(* Each action, in calm, is a gentle step. *)

(* A statement on the row of one request. *)
LEMMA OneRowGentle ==
  ASSUME NEW r \in Requests, NEW row, Sets(table', r, row), Gentle(r)
  PROVE  \A x \in Requests : Gentle(x)
  BY Zenon DEF Sets, Gentle

(* Most steps add no dependency. *)
LEMMA DepsStay == ASSUME Inv, UNCHANGED deps PROVE DepsGrow
  BY Zenon DEF Inv, RequestsTypeOK, DepsGrow

(* Steps of nobody's task. *)
LEMMA TableGentle ==
  ASSUME DepsGrow, UNCHANGED task, \A r \in Requests : Gentle(r),
         cleaner'.pc = "read" => cleaner'.req \in Requests \/ UNCHANGED cleaner,
         cleaner'.pc = "fail" =>
            cleaner'.req = cleaner.req /\ (cleaner.pc = "fail" \/ Spent(cleaner.req))
  PROVE  GentleStep
  BY Zenon DEF GentleStep

(* Steps with which a task ends. *)
LEMMA LeaveGentle ==
  ASSUME Inv, NEW t \in Tasks, Leave(t), UNCHANGED <<deps, cleaner>>,
         \A r \in Requests : Gentle(r)
  PROVE  GentleStep
<1>1. /\ task'[t].req = NoReq
      /\ \A u \in Tasks \ {t} : task'[u] = task[u]
  BY Types, LeaveTask, Zenon DEF Inv
<1>2. DepsGrow
  BY DepsStay, Zenon
<1> QED
  BY <1>1, <1>2, Zenon DEF GentleStep

(* The rows after a cascade from a request that has had its last retry:    *)
(* every one that it fails depends on that request.                        *)
LEMMA CascadeGentle ==
  ASSUME Inv, NEW q \in Requests,
         table[q].status \in {"inprogress", "failed"}, table[q].retries = MaxRetries,
         table' = FailRequestWithCascade(q), ~Attended(q)'
  PROVE  \A r \in Requests : Gentle(r)
<1> DEFINE S == {x \in Dependents(deps, q) : table[x].status \in Pending}
<1>1. q \in Dependents(deps, q)
  BY DependentsLeast, Zenon
<1>2. \A r \in Requests : table'[r] = IF r \in S THEN [table[r] EXCEPT !.status = "failed"] ELSE table[r]
  BY Zenon DEF FailRequestWithCascade, FailAll
<1>3. ASSUME NEW r \in Requests, r \in S
      PROVE  /\ table'[r].status = "failed" /\ table'[r].result = table[r].result
             /\ table'[r].retries = table[r].retries
  <2>1. table[r] \in Rows /\ "failed" \in Statuses
    BY Zenon DEF Inv, RequestsTypeOK, Statuses
  <2> DEFINE row == [table[r] EXCEPT !.status = "failed"]
  <2>2. row.status = "failed" /\ row.result = table[r].result /\ row.retries = table[r].retries
    BY <2>1, RowStatus, Zenon
  <2>3. table'[r] = row
    BY <1>2, <1>3, Zenon
  <2> HIDE DEF row
  <2> QED
    BY <2>2, <2>3, Zenon
<1>4. Spent(q)' /\ table'[q].status = "failed"
  <2>1. table'[q].status = "failed" /\ table'[q].retries = MaxRetries
    <3>1. CASE q \in S
      BY <1>3, <3>1, Zenon
    <3>2. CASE q \notin S
      BY <1>1, <1>2, <3>2, Zenon DEF Pending
    <3> QED
      BY <3>1, <3>2, Zenon
  <2> QED
    BY <2>1, Zenon DEF Spent
<1>5. ASSUME NEW r \in Requests, r \in S PROVE Gentle(r)
  BY <1>3, <1>4, <1>5, Zenon DEF Gentle
<1>6. ASSUME NEW r \in Requests, r \notin S PROVE Gentle(r)
  BY <1>2, <1>6, Zenon DEF Gentle
<1> QED
  BY <1>5, <1>6, Zenon

(* Enqueueing, again or for the first time *)
LEMMA EnqueueGentle == ASSUME Inv, NEW r \in Requests, Enqueue(r) PROVE GentleStep
<1>1. Table /\ RestType /\ table[r] \in Rows /\ "new" \in Statuses
  BY Types, Zenon DEF Inv, Table, Statuses, Pending
<1>2. PICK graph \in Dependencies : deps' = [deps EXCEPT ![r] = deps[r] \cup graph[r]]
  BY Zenon DEF Enqueue, AddDependencies
<1>3. UNCHANGED <<task, cleaner>>
  BY Zenon DEF Enqueue
<1>4. DepsGrow
  <2>1. graph[r] \subseteq Requests
    BY AsyncAssumption, Zenon
  <2> QED
    BY <1>1, <1>2, <2>1, Zenon DEF RestType, DepsGrow
<1>5. \A x \in Requests : Gentle(x)
  <2>1. CASE table[r].status = "absent"
    <3> DEFINE row == [table[r] EXCEPT !.status = "new"]
    <3>1. table' = Update(r, row)
      BY <2>1, Zenon DEF Enqueue, AddRequest
    <3>2. row \in Rows /\ row.status = "new"
      BY <1>1, RowStatus, Zenon
    <3> HIDE DEF row
    <3>3. Sets(table', r, row)
      BY <1>1, <3>1, <3>2, UpdateSets, Zenon
    <3>4. Gentle(r)
      BY <2>1, <3>2, <3>3, Zenon DEF Gentle, Sets
    <3> QED
      BY <3>3, <3>4, OneRowGentle, Zenon
  <2>2. CASE table[r].status # "absent"
    BY <2>2, Zenon DEF Enqueue, AddRequest, Gentle
  <2> QED
    BY <2>1, <2>2, Zenon
<1> QED
  BY <1>3, <1>4, <1>5, TableGentle, Zenon

(* poll, the administrator's mark_ready_requests_failed and time *)
LEMMA ClientGentle ==
  ASSUME Inv, NEW r \in Requests, Poll(r) \/ FailDeadReady(r) \/ Age(r)
  PROVE  GentleStep
<1>1. Table /\ table[r] \in Rows /\ {"polled", "failed"} \subseteq Statuses
  BY Types, Zenon DEF Inv, Table, Statuses, Finished
<1>2. UNCHANGED <<deps, task, cleaner>>
  BY Zenon DEF Poll, FailDeadReady, Age, others
<1>3. \A x \in Requests : Gentle(x)
  <2>1. CASE Poll(r) \/ FailDeadReady(r)
    <3>1. PICK s \in {"polled", "failed"} :
            table' = Update(r, [table[r] EXCEPT !.status = s]) /\ table[r].status = "ready"
      BY <2>1, Zenon DEF Poll, MarkRequestPolled, FailDeadReady, MarkReadyRequestFailed
    <3>2. Sets(table', r, [table[r] EXCEPT !.status = s])
      BY <1>1, <3>1, UpdateSets, RowStatus, Zenon
    <3>3. table'[r].status = s /\ table'[r].result = table[r].result
      <4>1. s \in Statuses /\ table'[r] = [table[r] EXCEPT !.status = s]
        BY <1>1, <3>2, Zenon DEF Sets
      <4> QED
        BY <1>1, <4>1, RowStatus
    <3>4. Gentle(r)
      BY <3>1, <3>3, Zenon DEF Gentle
    <3> QED
      BY <3>2, <3>4, OneRowGentle, Zenon
  <2>2. CASE Age(r)
    <3>1. Sets(table', r, [table[r] EXCEPT !.stale = TRUE])
      <4>1. TRUE \in BOOLEAN /\ table' = Update(r, [table[r] EXCEPT !.stale = TRUE])
        BY <2>2, Zenon DEF Age
      <4> QED
        BY <1>1, <4>1, UpdateSets, RowStale, Zenon
    <3>2. /\ table'[r].status = table[r].status /\ table'[r].result = table[r].result
          /\ table'[r].retries = table[r].retries
      BY <1>1, <3>1, RowStale, Zenon DEF Sets
    <3>3. Gentle(r)
      BY <3>2, Zenon DEF Gentle
    <3> QED
      BY <3>1, <3>3, OneRowGentle, Zenon
  <2> QED
    BY <2>1, <2>2, Zenon
<1> QED
  BY <1>2, <1>3, DepsStay, TableGentle, Zenon

(* A replica falls behind. *)
LEMMA FallBehindGentle == ASSUME Inv, FallBehind PROVE GentleStep
<1>1. UNCHANGED <<table, deps, task, cleaner>>
  BY Zenon DEF FallBehind
<1>2. \A r \in Requests : Gentle(r)
  BY <1>1, Zenon DEF Gentle
<1> QED
  BY <1>1, <1>2, DepsStay, TableGentle, Zenon

(* claim_and_get_new_request *)
LEMMA DequeueGentle == ASSUME Inv, NEW t \in Tasks, Dequeue(t) PROVE GentleStep
<1> DEFINE x(r) == [pc |-> "load", req |-> r, next |-> 0]
<1>1. PICK r \in Requests :
        /\ Claimable(r)
        /\ table' = MarkRequestInProgress(r)
        /\ task' = [task EXCEPT ![t] = x(r)] \/ UNCHANGED task
  BY Zenon DEF Dequeue
<1>2. Table /\ TaskType /\ table[r] \in Rows
  BY Types, Zenon DEF Inv, Table
<1> DEFINE row == [table[r] EXCEPT !.status = "inprogress", !.stale = FALSE]
<1>3. row \in Rows /\ row.status = "inprogress"
  BY <1>2, RowClaimed, Zenon
<1>4. table' = Update(r, row)
  BY <1>1, Zenon DEF MarkRequestInProgress
<1> HIDE DEF row
<1>5. Sets(table', r, row)
  BY <1>2, <1>3, <1>4, UpdateSets, Zenon
<1>6. table[r].status = "new" /\ table'[r].status = "inprogress"
  BY <1>1, <1>3, <1>5, Zenon DEF Sets, Claimable
<1>7. Gentle(r)
  BY <1>6, Zenon DEF Gentle
<1>8. \A q \in Requests : Gentle(q)
  BY <1>5, <1>7, OneRowGentle, Zenon
<1>9. UNCHANGED <<deps, cleaner>> /\ DepsGrow
  BY DepsStay, Zenon DEF Dequeue, others
<1>10. \A u \in Tasks : task'[u] = task[u] \/ (task'[u].pc = "load" /\ task'[u].req = r)
  BY <1>1, <1>2 DEF TaskType
<1> QED
  BY <1>6, <1>8, <1>9, <1>10, Zenon DEF GentleStep

(* The steps of a task that leave the table alone; the last retry is the   *)
(* one after which a task goes on to fail its request.                     *)
LEMMA TaskGentle ==
  ASSUME Inv, NEW t \in Tasks, Admit(t) \/ Throttle(t) \/ AdmitUncounted(t) \/ ReadForRetry(t) \/ Crash(t)
  PROVE  GentleStep
<1>1. TaskType /\ Table /\ task[t] \in TaskStates
  BY Types, Zenon DEF Inv, TaskType
<1>2. UNCHANGED <<table, deps, cleaner>> /\ DepsGrow
  BY DepsStay, Zenon DEF Admit, Throttle, AdmitUncounted, ReadForRetry, Crash, others
<1>3. \A r \in Requests : Gentle(r)
  BY <1>2, Zenon DEF Gentle
<1>4. CASE Leave(t)
  BY <1>2, <1>3, <1>4, LeaveGentle, Zenon
<1>5. ASSUME NEW pc \in {"requeue", "work", "fail"}, Goto(t, pc),
             pc = "fail" => table[task[t].req].retries = MaxRetries
      PROVE  GentleStep
  <2> DEFINE x == [task[t] EXCEPT !.pc = pc]
  <2>1. task' = [task EXCEPT ![t] = x] /\ x.pc = pc /\ x.req = task[t].req
    BY <1>1, <1>5, Zenon DEF Goto, TaskStates
  <2> HIDE DEF x
  <2>2. /\ task'[t].pc = pc /\ task'[t].req = task[t].req
        /\ \A u \in Tasks \ {t} : task'[u] = task[u]
    BY <1>1, <2>1, Zenon DEF TaskType
  <2> QED
    BY <1>2, <1>3, <1>5, <2>2, Zenon DEF GentleStep
<1>6. CASE Admit(t) \/ Throttle(t) \/ AdmitUncounted(t)
  BY <1>5, <1>6, Zenon DEF Admit, Throttle, AdmitUncounted
<1>7. CASE ReadForRetry(t)
  <2> DEFINE n == table[task[t].req].retries + 1
             x == [task[t] EXCEPT !.pc = "again", !.next = n]
  <2>1. \/ Leave(t)
        \/ n > MaxRetries /\ Goto(t, "fail")
        \/ task' = [task EXCEPT ![t] = x]
    BY <1>7, Zenon DEF ReadForRetry
  <2>2. CASE n > MaxRetries /\ Goto(t, "fail")
    <3>1. task[t].req \in Requests
      BY <1>7, HasRequest, Zenon DEF ReadForRetry
    <3>2. table[task[t].req].retries \in 0 .. MaxRetries
      BY <1>1, <3>1, Zenon DEF Table, Rows
    <3>3. table[task[t].req].retries = MaxRetries
      BY <2>2, <3>2, RequestAssumption
    <3> QED
      BY <1>5, <2>2, <3>3, Zenon
  <2>3. CASE task' = [task EXCEPT ![t] = x]
    <3> HIDE DEF n
    <3>1. x.pc = "again" /\ x.req = task[t].req
      BY <1>1, Zenon DEF TaskStates
    <3> HIDE DEF x
    <3>2. /\ task'[t].pc = "again" /\ task'[t].req = task[t].req
          /\ \A u \in Tasks \ {t} : task'[u] = task[u]
      BY <1>1, <2>3, <3>1, Zenon DEF TaskType
    <3> QED
      BY <1>2, <1>3, <3>2, Zenon DEF GentleStep
  <2> QED
    BY <1>4, <2>1, <2>2, <2>3, Zenon
<1>8. CASE Crash(t)
  BY <1>4, <1>8, Zenon DEF Crash
<1> QED
  BY <1>6, <1>7, <1>8, Zenon

(* A task that ends, in calm: its row is in progress, or a cascade failed   *)
(* it, and nobody else has it.                                              *)
LEMMA TaskRow ==
  ASSUME Inv, Calm, CalmFacts, NEW t \in Tasks, task[t].pc # "idle", Leave(t)
  PROVE  \E r \in Requests :
           /\ r = task[t].req /\ table[r].status \in {"inprogress", "failed"}
           /\ Attended(r) /\ ~Attended(r)'
<1>1. task[t].req \in Requests /\ task[t].req # NoReq
  BY HasRequest, AsyncAssumption, Zenon
<1>2. table[task[t].req].status \in {"inprogress", "failed"}
  BY <1>1, Zenon DEF CalmFacts, TasksHold
<1>3. \A r \in Requests : r = task[t].req => Attended(r) /\ ~Attended(r)'
  BY LeftAlone, Zenon DEF Calm, Attended
<1> QED
  BY <1>1, <1>2, <1>3, Zenon

(* requeue, complete and the two ends of update_for_retry_or_fail *)
LEMMA TaskEndGentle ==
  ASSUME Inv, Calm, CalmFacts, NEW t \in Tasks, Requeue(t) \/ Complete(t) \/ RetryOrFail(t)
  PROVE  GentleStep
<1>1. task[t].pc # "idle" /\ Leave(t) /\ UNCHANGED <<deps, cleaner>>
  BY Zenon DEF Requeue, Complete, RetryOrFail, others
<1>2. PICK r \in Requests :
        /\ r = task[t].req /\ table[r].status \in {"inprogress", "failed"}
        /\ Attended(r) /\ ~Attended(r)'
  BY <1>1, TaskRow, Zenon
<1>3. Table /\ table[r] \in Rows /\ task[t] \in TaskStates
  BY Types, Zenon DEF Inv, Table, TaskType
<1>4. ASSUME NEW row \in Rows, table' = Update(r, row), row.status \in {"new", "ready"}
      PROVE  \A x \in Requests : Gentle(x)
  <2>1. Sets(table', r, row)
    BY <1>3, <1>4, UpdateSets, Zenon
  <2>2. Gentle(r)
    BY <1>2, <1>4, <2>1, Zenon DEF Gentle, Sets
  <2> QED
    BY <2>1, <2>2, OneRowGentle, Zenon
<1>5. ASSUME UNCHANGED table PROVE \A x \in Requests : Gentle(x)
  BY <1>5, Zenon DEF Gentle
<1>6. \A x \in Requests : Gentle(x)
  <2>1. CASE Requeue(t)
    <3> DEFINE row == [table[r] EXCEPT !.status = "new"]
    <3>1. table' = Update(r, row)
      BY <1>2, <2>1, Zenon DEF Requeue, MarkRequestAsNew
    <3>2. "new" \in Statuses
      BY Zenon DEF Statuses, Pending
    <3>3. row \in Rows /\ row.status = "new"
      BY <1>3, <3>2, RowStatus, Zenon
    <3> HIDE DEF row
    <3> QED
      BY <1>4, <3>1, <3>3, Zenon
  <2>2. CASE Complete(t)
    <3> DEFINE row == [table[r] EXCEPT !.status = "ready", !.result = "computed"]
    <3>1. table' = Update(r, row) \/ UNCHANGED table
      BY <1>2, <2>2, Zenon DEF Complete, MarkRequestReady
    <3>2. row \in Rows /\ row.status = "ready"
      BY <1>3, RowReady, Zenon
    <3> HIDE DEF row
    <3> QED
      BY <1>4, <1>5, <3>1, <3>2, Zenon
  <2>3. CASE task[t].pc = "again" /\ table' = MarkRequestAsNewForRetry(task[t].req, task[t].next)
    <3> DEFINE row == [table[r] EXCEPT !.status = "new", !.stale = FALSE, !.retries = task[t].next]
    <3>1. table' = Update(r, row) \/ UNCHANGED table
      BY <1>2, <2>3, Zenon DEF MarkRequestAsNewForRetry
    <3>2. task[t].next \in 0 .. MaxRetries
      BY <1>3, Zenon DEF TaskStates
    <3>3. row \in Rows /\ row.status = "new"
      BY <1>3, <3>2, RowRetried, Zenon
    <3> HIDE DEF row
    <3> QED
      BY <1>4, <1>5, <3>1, <3>3, Zenon
  <2>4. CASE task[t].pc = "fail" /\ table' = FailRequestWithCascade(task[t].req)
    <3>1. table[r].retries = MaxRetries
      BY <1>2, <2>4, AsyncAssumption, Zenon DEF CalmFacts, TasksHold
    <3>2. table' = FailRequestWithCascade(r)
      BY <1>2, <2>4, Zenon
    <3> QED
      BY <1>2, <3>1, <3>2, CascadeGentle, Zenon
  <2> QED
    BY <2>1, <2>2, <2>3, <2>4, Zenon DEF RetryOrFail
<1> QED
  BY <1>1, <1>6, LeaveGentle, Zenon

(* keep_alive_loop *)
LEMMA KeepAliveGentle == ASSUME Inv, NEW t \in Tasks, KeepAlive(t) PROVE GentleStep
<1>1. PICK r \in Requests : r = task[t].req
  BY HasRequest, Zenon DEF KeepAlive
<1>2. Table /\ table[r] \in Rows
  BY Types, Zenon DEF Inv, Table
<1>3. UNCHANGED <<deps, cleaner>>
  BY Zenon DEF KeepAlive, others
<1>4. CASE table[r].status = "inprogress"
  <2> DEFINE row == [table[r] EXCEPT !.stale = FALSE]
  <2>1. table' = Update(r, row) /\ UNCHANGED task
    BY <1>1, <1>4, Zenon DEF KeepAlive, UpdateInProgressTimestamp
  <2>2. /\ row \in Rows /\ row.status = table[r].status
        /\ row.result = table[r].result /\ row.retries = table[r].retries
    BY <1>2, RowStale, Zenon
  <2> HIDE DEF row
  <2>3. Sets(table', r, row)
    BY <1>2, <2>1, <2>2, UpdateSets, Zenon
  <2>4. Gentle(r)
    BY <2>2, <2>3, Zenon DEF Gentle, Sets
  <2> QED
    BY <1>3, <2>1, <2>3, <2>4, OneRowGentle, DepsStay, TableGentle, Zenon
<1>5. CASE table[r].status # "inprogress"
  <2>1. UNCHANGED table /\ Leave(t)
    BY <1>1, <1>5, Zenon DEF KeepAlive, UpdateInProgressTimestamp
  <2>2. \A x \in Requests : Gentle(x)
    BY <2>1, Zenon DEF Gentle
  <2> QED
    BY <1>3, <2>1, <2>2, LeaveGentle, Zenon
<1> QED
  BY <1>4, <1>5, Zenon

(* cleanup_abandoned_requests *)
LEMMA CleanerGentle ==
  ASSUME Inv, Calm, CalmFacts, CleanerStep \/ CleanupFails
  PROVE  GentleStep
<1>1. Table /\ RestType /\ UNCHANGED <<deps, task>> /\ DepsGrow
  BY Types, DepsStay, Zenon DEF Inv, CleanerStep, FindAbandoned, MarkAbandonedAsNew, ReadAbandoned,
               FailAbandoned, CleanupFails
<1>2. ASSUME UNCHANGED table PROVE \A r \in Requests : Gentle(r)
  BY <1>2, Zenon DEF Gentle
<1>3. cleaner \in CleanerStates /\ \A r : NextAbandoned(r).pc = "mark"
  BY <1>1, Zenon DEF RestType, NextAbandoned
<1>4. CASE FindAbandoned \/ CleanupFails
  <2>1. UNCHANGED table /\ cleaner'.pc = "mark"
    BY <1>4 DEF FindAbandoned, CleanupFails, Unoccupied
  <2> QED
    BY <1>1, <1>2, <2>1, TableGentle, Zenon
<1>5. CASE ReadAbandoned
  <2> DEFINE new == [cleaner EXCEPT !.pc = "fail"]
  <2>1. UNCHANGED table
    BY <1>5, Zenon DEF ReadAbandoned
  <2>2. new.req = cleaner.req /\ new.pc = "fail"
    BY <1>3, Zenon DEF CleanerStates
  <2>3. \/ Abandoned(cleaner.req) /\ table[cleaner.req].retries >= MaxRetries /\ cleaner' = new
        \/ cleaner'.pc = "mark"
    BY <1>3, <1>5, Zenon DEF ReadAbandoned
  <2> HIDE DEF new
  <2>4. CASE Abandoned(cleaner.req) /\ table[cleaner.req].retries >= MaxRetries /\ cleaner' = new
    <3>1. PICK q \in Requests : q = cleaner.req
      BY <1>5, Zenon DEF ReadAbandoned, CalmFacts
    <3>2. table[q].retries \in 0 .. MaxRetries
      BY <1>1, <3>1, Zenon DEF Table, Rows
    <3>3. table[q].retries = MaxRetries
      BY <2>4, <3>1, <3>2, RequestAssumption
    <3>4. ~Attended(q) /\ table[q].status = "inprogress"
      BY <2>4, <3>1, Unattended, Zenon DEF Calm, Abandoned
    <3>5. Spent(cleaner.req)
      BY <3>1, <3>3, <3>4, Zenon DEF Spent
    <3> QED
      BY <1>1, <1>2, <2>1, <2>2, <2>4, <3>5, TableGentle, Zenon
  <2> QED
    BY <1>1, <1>2, <2>1, <2>3, <2>4, TableGentle, Zenon
<1>6. CASE MarkAbandonedAsNew
  <2>1. PICK r \in cleaner.todo :
          /\ table' = MarkRequestAsNewAgain(r)
          /\ cleaner' = IF table' # table THEN NextAbandoned(r) ELSE [cleaner EXCEPT !.pc = "read", !.req = r]
    BY <1>6, Zenon DEF MarkAbandonedAsNew
  <2>2. /\ r \in Requests /\ table[r] \in Rows
        /\ cleaner'.pc # "fail" /\ (cleaner'.pc = "read" => cleaner'.req = r)
    BY <1>1, <1>3, <2>1, Zenon DEF Table, CleanerStates
  <2>3. CASE Abandoned(r) /\ table[r].retries < MaxRetries
    <3> DEFINE n == table[r].retries + 1
               row == [table[r] EXCEPT !.status = "new", !.stale = FALSE, !.retries = n]
    <3>1. n \in 0 .. MaxRetries /\ table[r].retries # MaxRetries
      BY <2>2, <2>3, RequestAssumption DEF Rows
    <3>2. table' = Update(r, row)
      BY <2>1, <2>3, Zenon DEF MarkRequestAsNewAgain
    <3> HIDE DEF n
    <3>3. row \in Rows /\ row.status = "new"
      BY <2>2, <3>1, RowRetried, Zenon
    <3> HIDE DEF row
    <3>4. Sets(table', r, row)
      BY <1>1, <2>2, <3>2, <3>3, UpdateSets, Zenon
    <3>5. ~Attended(r) /\ ~Attended(r)'
      BY <1>1, <2>2, <2>3, Unattended, Zenon DEF Calm, Attended, Abandoned
    <3>6. Gentle(r)
      BY <2>2, <3>1, <3>3, <3>4, <3>5, Zenon DEF Gentle, Sets
    <3> QED
      BY <1>1, <2>2, <3>4, <3>6, OneRowGentle, TableGentle, Zenon
  <2>4. CASE ~(Abandoned(r) /\ table[r].retries < MaxRetries)
    <3>1. UNCHANGED table
      BY <2>1, <2>4, Zenon DEF MarkRequestAsNewAgain
    <3> QED
      BY <1>1, <1>2, <2>2, <3>1, TableGentle, Zenon
  <2> QED
    BY <2>3, <2>4, Zenon
<1>7. CASE FailAbandoned
  <2>1. PICK q \in Requests : q = cleaner.req /\ Spent(q)
    BY <1>7, Zenon DEF FailAbandoned, CalmFacts, Spent
  <2>2. cleaner'.pc = "mark" /\ table' = FailRequestWithCascade(q)
    BY <1>3, <1>7, <2>1, Zenon DEF FailAbandoned
  <2>3. ~Attended(q)'
    BY <1>1, <2>1, Zenon DEF Attended, Spent
  <2>4. \A r \in Requests : Gentle(r)
    BY <2>1, <2>2, <2>3, CascadeGentle, Zenon DEF Spent
  <2> QED
    BY <1>1, <2>2, <2>4, TableGentle, Zenon
<1> QED
  BY <1>4, <1>5, <1>6, <1>7, Zenon DEF CleanerStep

(* A step after which there is still calm is gentle. *)
LEMMA CalmStep ==
  ASSUME Inv, Next, Calm', Calm => CalmFacts
  PROVE  Calm /\ GentleStep
<1>1. ASSUME AbortStep PROVE FALSE
  <2>1. CASE AbortNew \/ AbortReturns
    BY <2>1 DEF AbortNew, AbortReturns, Calm
  <2>2. CASE AbortRead \/ AbortComplete
    <3>1. abort \in AbortStates
      BY Types, Zenon DEF Inv, RestType
    <3> QED
      BY <2>2, <3>1, Zenon DEF AbortRead, AbortComplete, Calm, AbortStates
  <2> QED
    BY <1>1, <2>1, <2>2, Zenon DEF AbortStep
<1>2. ASSUME NEW r \in Requests, Stall(r) PROVE FALSE
  BY <1>2, Zenon DEF Stall, Calm
<1>3. ASSUME NEW r \in Requests, Enqueue(r) \/ Poll(r) \/ FailDeadReady(r) \/ Age(r)
      PROVE  Calm /\ GentleStep
  <2>1. UNCHANGED <<stalled, abort>>
    BY <1>3, Zenon DEF Enqueue, Poll, FailDeadReady, Age, others, history
  <2> QED
    BY <1>3, <2>1, EnqueueGentle, ClientGentle, Zenon DEF Calm
<1>4. ASSUME NEW t \in Tasks, TaskStep(t) \/ KeepAlive(t) \/ Crash(t) PROVE Calm /\ GentleStep
  <2>1. UNCHANGED <<stalled, abort>>
    BY <1>4, Zenon DEF TaskStep, KeepAlive, Crash, Dequeue, Admit, Throttle, AdmitUncounted, Requeue,
                Complete, ReadForRetry, RetryOrFail, others, history
  <2>2. Calm
    BY <2>1, Zenon DEF Calm
  <2> QED
    BY <1>4, <2>2, DequeueGentle, TaskGentle, TaskEndGentle, KeepAliveGentle, Zenon DEF TaskStep
<1>5. CASE CleanerStep \/ CleanupFails
  <2>1. UNCHANGED <<stalled, abort>>
    BY <1>5, Zenon DEF CleanerStep, FindAbandoned, MarkAbandonedAsNew, ReadAbandoned, FailAbandoned,
                CleanupFails, history
  <2>2. Calm
    BY <2>1, Zenon DEF Calm
  <2> QED
    BY <1>5, <2>2, CleanerGentle, Zenon
<1>6. CASE FallBehind
  <2>1. UNCHANGED <<stalled, abort>>
    BY <1>6, Zenon DEF FallBehind, history
  <2> QED
    BY <1>6, <2>1, FallBehindGentle, Zenon DEF Calm
<1> QED
  BY <1>1, <1>2, <1>3, <1>4, <1>5, <1>6, Zenon DEF Next

(* What holds in calm holds in every state of every behaviour. *)
LEMMA CalmInvariant == Spec => []CalmInv
<1>1. Init => CalmInv
  <2> SUFFICES ASSUME Init PROVE CalmFacts
    BY Zenon DEF CalmInv
  <2>1. PICK x \in Requests \cup {NoReq} : table = [r \in Requests |-> IF r = x THEN Orphan ELSE Absent]
    BY Zenon DEF Init
  <2>2. \A r \in Requests : table[r].status # "failed"
    BY <2>1, Zenon DEF Orphan, Absent
  <2>3. \A t \in Tasks : task[t].req = NoReq
    BY Zenon DEF Init, Idle
  <2>4. cleaner.pc = "mark"
    BY Zenon DEF Init, Unoccupied
  <2> QED
    BY <2>2, <2>3, <2>4, Zenon DEF CalmFacts, TasksHold, FailuresHaveRoots
<1>2. Inv /\ CalmInv /\ [Next]_vars => CalmInv'
  <2> SUFFICES ASSUME Inv, CalmInv, [Next]_vars PROVE CalmInv'
    BY Zenon
  <2>1. CASE Next
    <3> SUFFICES ASSUME Calm' PROVE CalmFacts'
      BY Zenon DEF CalmInv
    <3>1. Calm /\ GentleStep
      BY <2>1, CalmStep, Zenon DEF CalmInv
    <3> QED
      BY <3>1, GentleKeeps, Zenon DEF CalmInv
  <2>2. CASE UNCHANGED vars
    BY <2>2, Zenon DEF vars, CalmInv, Calm, CalmFacts, TasksHold, FailuresHaveRoots, Spent, Attended
  <2> QED
    BY <2>1, <2>2, Zenon
<1> QED
  BY <1>1, <1>2, RequestInvariant, PTL DEF Spec

(* While nothing stalled and nothing was aborted, a request without a       *)
(* result fails only after its last retry or because of something it        *)
(* depends on that did, for any dependency graph and whatever dependencies  *)
(* are added when: the failure a cascade began with is never undone, though *)
(* a task may requeue a request that the cascade failed under it.           *)
THEOREM FailuresHaveCauses == Spec => []NoFailureWithoutCause
<1>1. CalmInv => NoFailureWithoutCause
  BY Zenon DEF CalmInv, Calm, CalmFacts, FailuresHaveRoots, Spent, NoFailureWithoutCause
<1> QED
  BY <1>1, CalmInvariant, PTL

-----------------------------------------------------------------------------
(* The limit: the tasks at work on a request in progress. *)
Busy ==
    {t \in Tasks : task[t].pc \in {"work", "again", "fail"} /\ table[task[t].req].status = "inprogress"}

InProgress == {r \in Requests : table[r].status = "inprogress"}

(* What the limit is a limit on. *)
LEMMA LimitOfBusy ==
  /\ LimitHolds <=> (MaxConcurrent > 0 /\ ~uncounted /\ ~stalled => Cardinality(Busy) <= MaxConcurrent)
  /\ LimitHolds' <=> (MaxConcurrent > 0 /\ ~uncounted' /\ ~stalled' => Cardinality(Busy') <= MaxConcurrent)
  BY DEF LimitHolds, Busy

(* Without a stall, such tasks have rows of their own: there are no more of *)
(* them than rows in progress.                                              *)
LEMMA RowsOfTheirOwn ==
  ASSUME Inv, ~stalled, NEW S \in SUBSET Tasks,
         \A t \in S : task[t].pc # "idle" /\ table[task[t].req].status = "inprogress"
  PROVE  IsFiniteSet(S) /\ IsFiniteSet(InProgress) /\ Cardinality(S) <= Cardinality(InProgress)
<1> DEFINE f == [t \in S |-> task[t].req]
<1>1. IsFiniteSet(InProgress)
  BY RequestAssumption, FS_Subset, Zenon DEF InProgress
<1>2. \A t \in S : task[t].req \in InProgress
  BY HasRequest, Zenon DEF InProgress
<1>3. \A t, u \in S : task[t].req = task[u].req => t = u
  BY <1>2, AsyncAssumption, Zenon DEF Inv, NoStallNoDuplicate, InProgress
<1>4. f \in Injection(S, InProgress)
  BY <1>2, <1>3, Zenon DEF Injection, IsInjective
<1> HIDE DEF f
<1> QED
  BY <1>1, <1>4, FS_Injection, Zenon

(* A count that overlooks nothing is no smaller than the rows in progress. *)
LEMMA NothingOverlooked ==
  ASSUME NEW seen, ~Overlooked(seen)
  PROVE  Cardinality(InProgress) <= InProgressCount(seen) /\ InProgressCount(seen) \in Nat
<1> DEFINE R == {r \in Requests : seen[r] # NotInProgress}
<1>1. IsFiniteSet(R)
  BY RequestAssumption, FS_Subset, Zenon
<1>2. InProgress \subseteq R
  BY Zenon DEF InProgress, Overlooked
<1>3. InProgressCount(seen) = Cardinality(R)
  BY Zenon DEF InProgressCount
<1> HIDE DEF R
<1> QED
  BY <1>1, <1>2, <1>3, FS_Subset, FS_CardinalityType, Zenon

(* Only an admitted task joins those at work. *)
LEMMA BusyStep ==
  ASSUME Inv, Next, ~stalled, ~stalled', \A t \in Tasks : ~Admit(t) /\ ~AdmitUncounted(t)
  PROVE  Busy' \subseteq Busy /\ UNCHANGED uncounted
<1>1. TaskType
  BY Types, Zenon DEF Inv
<1>2. UNCHANGED uncounted
  BY Zenon DEF Next, TaskStep, KeepAlive, Crash, Dequeue, Throttle, Requeue, Complete, ReadForRetry,
               RetryOrFail, Enqueue, Poll, FailDeadReady, Age, Stall, CleanerStep, CleanupFails,
               FindAbandoned, MarkAbandonedAsNew, ReadAbandoned, FailAbandoned, AbortStep, AbortNew,
               AbortRead, AbortComplete, AbortReturns, FallBehind, history
<1>3. CASE \E t \in Tasks : Dequeue(t)
  <2>1. PICK t \in Tasks, r \in Requests :
          /\ task[t].pc = "idle" /\ Claimable(r)
          /\ table' = MarkRequestInProgress(r)
          /\ \/ task' = [task EXCEPT ![t] = [pc |-> "load", req |-> r, next |-> 0]]
             \/ UNCHANGED task
    BY <1>3, Zenon DEF Dequeue
  <2>2. ~Attended(r)
    BY <2>1, Unattended, Zenon DEF Claimable
  <2>3. \A x \in Requests \ {r} : table'[x] = table[x]
    BY <2>1, Zenon DEF MarkRequestInProgress, Update, Inv, RequestsTypeOK
  <2>4. ASSUME NEW u \in Busy' PROVE u \in Busy
    <3>1. u \in Tasks /\ task'[u].pc \in {"work", "again", "fail"} /\ table'[task'[u].req].status = "inprogress"
      BY Zenon DEF Busy
    <3>2. task'[u] = task[u]
      BY <1>1, <2>1, <3>1 DEF TaskType
    <3>3. task[u].req \in Requests \ {r}
      BY <2>2, <3>1, <3>2, HasRequest, Zenon DEF Attended
    <3> QED
      BY <2>3, <3>1, <3>2, <3>3, Zenon DEF Busy
  <2> QED
    BY <1>2, <2>4, Zenon
<1>4. CASE ~\E t \in Tasks : Dequeue(t)
  <2>1. StepOK
    BY <1>4, NextOK, Zenon
  <2>2. ASSUME NEW u \in Tasks, task'[u].pc \in {"work", "again", "fail"}
        PROVE  task[u].pc \in {"work", "again", "fail"}
    <3>1. CASE UNCHANGED task
      BY <2>2, <3>1, Zenon
    <3>2. ASSUME NEW t \in Tasks, Leave(t) PROVE task[u].pc \in {"work", "again", "fail"}
      BY <1>1, <2>2, <3>2, LeaveTask, Zenon
    <3>3. ASSUME NEW t \in Tasks, Throttle(t) PROVE task[u].pc \in {"work", "again", "fail"}
      <4>1. task'[t].pc = "requeue" /\ \A v \in Tasks \ {t} : task'[v] = task[v]
        BY <1>1, <3>3, Zenon DEF Throttle, Goto, TaskType, TaskStates
      <4> QED
        BY <2>2, <4>1, Zenon
    <3>4. ASSUME NEW t \in Tasks, ReadForRetry(t) PROVE task[u].pc \in {"work", "again", "fail"}
      <4>1. task[t].pc = "work" /\ \A v \in Tasks \ {t} : task'[v] = task[v]
        BY <1>1, <3>4, Zenon DEF ReadForRetry, Leave, Goto, TaskType
      <4> QED
        BY <2>2, <4>1, Zenon
    <3>5. \/ UNCHANGED task
          \/ \E t \in Tasks : Leave(t) \/ Throttle(t) \/ ReadForRetry(t)
      <4>1. CASE \E t \in Tasks : TaskStep(t) \/ KeepAlive(t) \/ Crash(t)
        BY <1>4, <4>1, Zenon DEF TaskStep, KeepAlive, Crash, Requeue, Complete, RetryOrFail
      <4>2. CASE ~\E t \in Tasks : TaskStep(t) \/ KeepAlive(t) \/ Crash(t)
        BY <4>2, Zenon DEF Next, Enqueue, Poll, FailDeadReady, Age, Stall, CleanerStep, CleanupFails,
               FindAbandoned, MarkAbandonedAsNew, ReadAbandoned, FailAbandoned, AbortStep, AbortNew,
               AbortRead, AbortComplete, AbortReturns, FallBehind
      <4> QED
        BY <4>1, <4>2, Zenon
    <3> QED
      BY <3>1, <3>2, <3>3, <3>4, <3>5, Zenon
  <2>3. ASSUME NEW u \in Busy' PROVE u \in Busy
    <3>1. u \in Tasks /\ task'[u].pc \in {"work", "again", "fail"} /\ table'[task'[u].req].status = "inprogress"
      BY Zenon DEF Busy
    <3>2. task'[u].req = task[u].req /\ task[u].pc \in {"work", "again", "fail"}
      BY <2>1, <2>2, <3>1, Zenon DEF StepOK
    <3>3. PICK r \in Requests : r = task[u].req
      BY <3>1, <3>2, HasRequest, Zenon
    <3>4. Legal(r) /\ table'[r].status = "inprogress"
      BY <2>1, <3>1, <3>2, <3>3, Zenon DEF StepOK
    <3>5. table[r].status = "inprogress"
      BY <3>4, Zenon DEF Legal
    <3> QED
      BY <3>1, <3>2, <3>3, <3>5, Zenon DEF Busy
  <2> QED
    BY <1>2, <2>3, Zenon
<1> QED
  BY <1>3, <1>4, Zenon

(* ... and it found the count within the limit. *)
LEMMA LimitStep == ASSUME Inv, Next, LimitHolds PROVE LimitHolds'
<1> SUFFICES ASSUME MaxConcurrent > 0, ~uncounted', ~stalled' PROVE Cardinality(Busy') <= MaxConcurrent
  BY LimitOfBusy, Zenon
<1>1. TaskType
  BY Types, Zenon DEF Inv
<1>2. ~stalled
  BY NextOK, Zenon DEF StepOK, Dequeue
<1>3. \A t \in Tasks : ~AdmitUncounted(t)
  BY Zenon DEF AdmitUncounted
<1>4. CASE \E t \in Tasks : Admit(t)
  <2>1. PICK t \in Tasks : Admit(t)
    BY <1>4, Zenon
  <2>2. PICK seen : ~LimitReached(seen) /\ ~Overlooked(seen)
    BY <2>1, Zenon DEF Admit
  <2>3. task' = [task EXCEPT ![t].pc = "work"] /\ task[t].pc = "load" /\ UNCHANGED table
    BY <2>1, Zenon DEF Admit, Goto
  <2>4. Busy' \in SUBSET Tasks /\ \A u \in Busy' : task[u].pc # "idle" /\ table[task[u].req].status = "inprogress"
    <3>1. \A u \in Tasks : task'[u].req = task[u].req /\ (u # t => task'[u] = task[u])
      BY <1>1, <2>3, Zenon DEF TaskType, TaskStates
    <3> QED
      BY <2>3, <3>1, Zenon DEF Busy
  <2> DEFINE S == Busy'
  <2> HIDE DEF S
  <2>5. IsFiniteSet(S) /\ IsFiniteSet(InProgress) /\ Cardinality(S) <= Cardinality(InProgress)
    BY <1>2, <2>4, RowsOfTheirOwn, Zenon DEF S
  <2>6. Cardinality(InProgress) <= InProgressCount(seen) /\ InProgressCount(seen) \in Nat
    BY <2>2, NothingOverlooked, Zenon
  <2>7. ~(InProgressCount(seen) > MaxConcurrent)
    BY <2>2, Zenon DEF LimitReached
  <2>8. Cardinality(S) \in Nat /\ Cardinality(InProgress) \in Nat
    BY <2>5, FS_CardinalityType, Zenon
  <2>9. Cardinality(S) <= MaxConcurrent
    BY <2>5, <2>6, <2>7, <2>8, AsyncAssumption
  <2> QED
    BY <2>9, Zenon DEF S
<1>5. CASE ~\E t \in Tasks : Admit(t)
  <2>1. Busy' \subseteq Busy /\ ~uncounted
    <3>1. Busy' \subseteq Busy /\ UNCHANGED uncounted
      BY <1>2, <1>3, <1>5, BusyStep, Zenon
    <3> QED
      BY <3>1, Zenon
  <2>2. Cardinality(Busy) <= MaxConcurrent
    BY <1>2, <2>1, LimitOfBusy, Zenon
  <2>3. IsFiniteSet(Busy)
    <3>1. Busy \in SUBSET Tasks /\ \A t \in Busy : task[t].pc # "idle" /\ table[task[t].req].status = "inprogress"
      BY Zenon DEF Busy
    <3> QED
      BY <1>2, <3>1, RowsOfTheirOwn, Zenon
  <2>4. /\ Cardinality(Busy') <= Cardinality(Busy)
        /\ Cardinality(Busy') \in Nat /\ Cardinality(Busy) \in Nat
    BY <2>1, <2>3, FS_Subset, FS_CardinalityType, Zenon
  <2> QED
    BY <2>2, <2>4, AsyncAssumption
<1> QED
  BY <1>4, <1>5, Zenon

(* The concurrency limit, for any limit and any number of workers: counting *)
(* the rows in progress, the own one included, is enough, although the      *)
(* count is read before the work begins -- as long as the replica it is     *)
(* read from shows every row that is in progress.                           *)
THEOREM LimitIsKept == Spec => []LimitHolds
<1>1. Init => LimitHolds
  <2> SUFFICES ASSUME Init PROVE LimitHolds
    BY Zenon
  <2>1. Busy = {}
    <3>1. \A t \in Tasks : task[t].pc = "idle"
      BY Zenon DEF Init, Idle
    <3> QED
      BY <3>1, Zenon DEF Busy
  <2>2. Cardinality(Busy) <= MaxConcurrent
    <3>1. Cardinality(Busy) = 0
      BY <2>1, FS_EmptySet, Zenon
    <3> QED
      BY <3>1, AsyncAssumption
  <2> QED
    BY <2>2, LimitOfBusy, Zenon
<1>2. Inv /\ LimitHolds /\ [Next]_vars => LimitHolds'
  <2>1. ASSUME LimitHolds, UNCHANGED vars PROVE LimitHolds'
    <3>1. UNCHANGED <<task, table, uncounted, stalled>>
      BY <2>1, Zenon DEF vars
    <3>2. Busy' = Busy
      BY <3>1, Zenon DEF Busy
    <3> QED
      BY <2>1, <3>1, <3>2, LimitOfBusy, Zenon
  <2> QED
    BY <2>1, LimitStep, Zenon
<1> QED
  BY <1>1, <1>2, RequestInvariant, PTL DEF Spec
=============================================================================
