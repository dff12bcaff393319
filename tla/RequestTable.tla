---------------------------- MODULE RequestTable ----------------------------
(***************************************************************************)
(* The statements of features/async_requests/requests_table/src/store.rs   *)
(* on long_running_request_queue, each as the table it leaves; a statement *)
(* whose WHERE matches no row leaves the table as it is.                   *)
(*                                                                         *)
(* Of a row: its status, num_retries, whether inprogress_last_updated_at   *)
(* is past the abandonment threshold (stale) and which result is stored.   *)
(***************************************************************************)
EXTENDS Integers, FiniteSets

CONSTANTS
    Requests,
    MaxRetries   \* scm/mononoke:async_requests_retry_limit

ASSUME RequestAssumption == IsFiniteSet(Requests) /\ MaxRetries \in Nat

VARIABLES
    table,   \* long_running_request_queue
    deps     \* long_running_request_dependencies: deps[r] is what r depends on

NoResult == "none"
Finished == {"ready", "polled"}
Pending == {"new", "inprogress"}
Statuses == Pending \cup Finished \cup {"absent", "failed"}

Absent == [status |-> "absent", retries |-> 0, stale |-> FALSE, result |-> NoResult]

Update(r, row) == [table EXCEPT ![r] = row]

(* AddRequest*: with a repository and a root, a row that is there is kept  *)
(* as it is (ON DUPLICATE KEY).                                            *)
AddRequest(r) ==
    IF table[r].status = "absent" THEN Update(r, [table[r] EXCEPT !.status = "new"]) ELSE table

(* AddDependency, once for each dependency: INSERT IGNORE *)
AddDependencies(r, ds) == [deps EXCEPT ![r] = @ \cup ds]

(* Mutant: any dependency that is no longer running will do. *)
ClaimableUnfailed(r) == table[r].status = "new" /\ \A d \in deps[r] : table[d].status \notin Pending

(* GetOneNewRequest*: which of them has the smallest created_at, in       *)
(* seconds, and which one SKIP LOCKED passes over, is left open.          *)
Claimable(r) == table[r].status = "new" /\ \A d \in deps[r] : table[d].status \in Finished

MarkRequestInProgress(r) == Update(r, [table[r] EXCEPT !.status = "inprogress", !.stale = FALSE])

UpdateInProgressTimestamp(r) ==
    IF table[r].status = "inprogress" THEN Update(r, [table[r] EXCEPT !.stale = FALSE]) ELSE table

(* Mutant: a result is stored whatever the status. *)
MarkRequestReadyAlways(r, result) == Update(r, [table[r] EXCEPT !.status = "ready", !.result = result])

MarkRequestReady(r, result) ==
    IF table[r].status = "inprogress"
    THEN Update(r, [table[r] EXCEPT !.status = "ready", !.result = result])
    ELSE table

(* The one statement that does not look at the status. *)
MarkRequestAsNew(r) == Update(r, [table[r] EXCEPT !.status = "new"])

MarkRequestAsNewForRetry(r, retries) ==
    IF table[r].status = "inprogress"
    THEN Update(r, [table[r] EXCEPT !.status = "new", !.stale = FALSE, !.retries = retries])
    ELSE table

(* Mutant: how long ago the worker was heard of is not compared. *)
AbandonedAtOnce(r) == table[r].status = "inprogress"

Abandoned(r) == table[r].status = "inprogress" /\ table[r].stale

(* Mutant: however often it was retried. *)
MarkRequestAsNewAgainAlways(r) ==
    IF Abandoned(r)
    THEN Update(r, [table[r] EXCEPT !.status = "new", !.stale = FALSE, !.retries = table[r].retries + 1])
    ELSE table

(* MarkRequestAsNewAgainIfAbandoned *)
MarkRequestAsNewAgain(r) ==
    IF Abandoned(r) /\ table[r].retries < MaxRetries
    THEN Update(r, [table[r] EXCEPT !.status = "new", !.stale = FALSE, !.retries = table[r].retries + 1])
    ELSE table

MarkRequestPolled(r) == Update(r, [table[r] EXCEPT !.status = "polled"])
MarkReadyRequestFailed(r) == Update(r, [table[r] EXCEPT !.status = "failed"])

FailAll(S) == [r \in Requests |-> IF r \in S THEN [table[r] EXCEPT !.status = "failed"] ELSE table[r]]

(* FailNewRequestsByRootId *)
FailNewRequests(children) == FailAll({r \in children : table[r].status = "new"})

(* Everything that depends on r in a graph, and r. *)
Closed(graph, S) == \A r \in Requests : graph[r] \cap S # {} => r \in S
Dependents(graph, r) ==
    CHOOSE S \in SUBSET Requests :
        /\ r \in S /\ Closed(graph, S)
        /\ \A T \in SUBSET Requests : r \in T /\ Closed(graph, T) => S \subseteq T

FailRequestWithCascade(r) == FailAll({x \in Dependents(deps, r) : table[x].status \in Pending})

(* What a read of the rows in progress shows of r: its result, or that it   *)
(* is not in progress.                                                      *)
NotInProgress == "other"
Shown == [r \in Requests |-> IF table[r].status = "inprogress" THEN table[r].result ELSE NotInProgress]

(* CountInProgressByTypes, all requests being of one concurrency group, on  *)
(* a replica that shows the rows as seen.                                   *)
InProgressCount(seen) == Cardinality({r \in Requests : seen[r] # NotInProgress})
=============================================================================
