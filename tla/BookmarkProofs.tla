--------------------------- MODULE BookmarkProofs ---------------------------
(***************************************************************************)
(* For any writers, bookmarks, payloads and limits: OneCommitPerCall, and  *)
(* LegacyIdsInCommitOrder, from the shape of a log whose ids all came from *)
(* MAX(id) + 1.  Every step is then described by what it does to the       *)
(* record of its writer; the locks it holds follow from the descriptions.  *)
(***************************************************************************)
EXTENDS Bookmarks, WellFoundedInduction, TLAPS

Fields ==
    {"pc", "attempt", "locked", "locking", "ops", "moves", "wants", "gaps", "ids",
     "todo", "pend", "entries", "snap", "pseq", "commits", "outcome"}

(* The history of a call: nothing took effect while it runs. *)
CallOK(t) ==
    /\ DOMAIN t = Fields
    /\ t.attempt \in 0 .. MaxAttempts /\ t.outcome \in Outcomes
    /\ t.commits \in {0, 1}
    /\ t.pc # "done" => t.commits = 0 /\ t.outcome = "none"
    /\ t.outcome = "some" => t.commits = 1
    /\ t.outcome \in {"null", "processed"} => t.commits = 0

CallInv == DOMAIN txn = Writers /\ \A w \in Writers : CallOK(txn[w])

(* The call goes on. *)
GoesOn(s, t) ==
    DOMAIN t = Fields /\ t.pc # "done" /\ t.attempt = s.attempt /\ t.commits = s.commits /\ t.outcome = s.outcome

-----------------------------------------------------------------------------
(* Assigning the record of one writer. *)
LEMMA BecomesTxn ==
  ASSUME DOMAIN txn = Writers, NEW w \in Writers, NEW t, Becomes(w, t)
  PROVE  DOMAIN txn' = Writers /\ txn'[w] = t /\ \A v \in Writers \ {w} : txn'[v] = txn[v]
  BY Zenon DEF Becomes

(* The fields of a record no call uses. *)
LEMMA FreshFields ==
  /\ DOMAIN Fresh = Fields
  /\ Fresh.pc = "idle" /\ Fresh.locking = FALSE /\ Fresh.ops = <<>> /\ Fresh.ids = <<>>
  /\ Fresh.todo = <<>> /\ Fresh.entries = {} /\ Fresh.snap = <<>>
  /\ Fresh.attempt = 0 /\ Fresh.commits = 0 /\ Fresh.outcome = "none"
  BY Zenon DEF Fields, Fresh

(* The record with which another attempt starts. *)
Again(t) == [Cleared(t, "start") EXCEPT !.attempt = t.attempt + 1]

(* ... and what it keeps of the attempt before. *)
LEMMA AgainFields ==
  ASSUME NEW s, DOMAIN s = Fields
  PROVE  LET t == Again(s)
         IN  /\ DOMAIN t = Fields
             /\ t.pc = "start" /\ t.locking = FALSE /\ t.ops = s.ops /\ t.ids = <<>>
             /\ t.todo = <<>> /\ t.entries = {} /\ t.snap = <<>>
             /\ t.attempt = s.attempt + 1 /\ t.commits = s.commits /\ t.outcome = s.outcome
<1>1. LET t == Cleared(s, "start")
      IN  /\ DOMAIN t = Fields
          /\ t.pc = "start" /\ t.locking = FALSE /\ t.ops = s.ops /\ t.ids = <<>>
          /\ t.todo = <<>> /\ t.entries = {} /\ t.snap = <<>>
          /\ t.commits = s.commits /\ t.outcome = s.outcome
  BY Zenon DEF Fields, Cleared
<1> QED
  BY <1>1, Zenon DEF Fields, Again

(* Who breaks a circle of waits waits at a lock or at a row. *)
LEMMA VictimWaits ==
  ASSUME NEW w, DeadlockVictim(w)
  PROVE  txn[w].pc \in {"lock", "write", "mirror"} /\ Fail(w)
<1>1. PICK C \in SUBSET Writers : w \in C /\ Circular(C)
  BY Zenon DEF DeadlockVictim
<1>2. WaitsFor(w) # {}
  BY <1>1, Zenon DEF Circular
<1>3. txn[w].pc \in {"lock", "write", "mirror"}
  BY <1>2, Zenon DEF WaitsFor, Creating
<1> QED
  BY <1>3, Zenon DEF DeadlockVictim

(* Every step keeps the history of the calls. *)
LEMMA StepCall ==
  ASSUME CallInv, NEW w \in Writers, StoreStep(w)
  PROVE  CallInv'
(* A call whose new record is sound leaves the others as they were. *)
<1>BecomesCall. ASSUME NEW t, Becomes(w, t), CallOK(t)
                PROVE  CallInv'
  <2> USE <1>BecomesCall
  <2>1. DOMAIN txn' = Writers /\ txn'[w] = t /\ \A v \in Writers \ {w} : txn'[v] = txn[v]
    BY BecomesTxn, Zenon DEF CallInv
  <2>2. \A v \in Writers : CallOK(txn'[v])
    BY <2>1, Zenon DEF CallInv
  <2> QED
    BY <2>1, <2>2, Zenon DEF CallInv, CallOK
(* A record with the same history, of a call that is not over. *)
<1>GoesOnCall. ASSUME NEW t, Becomes(w, t), txn[w].pc # "done", GoesOn(txn[w], t)
               PROVE  CallInv'
  <2> USE <1>GoesOnCall
  <2>1. CallOK(t)
    BY Zenon DEF CallInv, CallOK, GoesOn
  <2> QED
    BY <2>1, <1>BecomesCall, Zenon
(* An answer that fits what took effect. *)
<1>EndedCall. ASSUME NEW c \in {0, 1}, NEW o \in Outcomes, o = "some" => c = 1,
                     o \in {"null", "processed"} => c = 0
              PROVE  CallOK(Ended(c, o))
  <2> USE <1>EndedCall
  <2> DEFINE t == Ended(c, o)
  <2>1. DOMAIN t = Fields /\ t.pc = "done" /\ t.attempt = 0 /\ t.commits = c /\ t.outcome = o
    BY FreshFields, Zenon DEF Fields, Ended
  <2> HIDE DEF t
  <2>2. CallOK(t)
    BY <2>1, BookmarkAssumption DEF CallOK
  <2> QED
    BY <2>2, Zenon DEF t
(* A return other than Ok(Some(_)) reports a call without effect. *)
<1>ReturnCall. ASSUME txn[w].pc # "done", NEW o \in Outcomes, o # "some", Return(w, o)
               PROVE  CallInv'
  <2> USE <1>ReturnCall
  <2>1. txn[w].commits = 0
    BY Zenon DEF CallInv, CallOK
  <2>2. CallOK(Ended(txn[w].commits, o))
    BY <2>1, <1>EndedCall, Zenon
  <2>3. Becomes(w, Ended(txn[w].commits, o))
    BY Zenon DEF Return
  <2> QED
    BY <2>2, <2>3, <1>BecomesCall, Zenon
(* A retry keeps the history of the call. *)
<1>RetryCall. ASSUME txn[w].pc # "done", Retry(w)
              PROVE  CallInv'
  <2> USE <1>RetryCall
  <2>1. CASE Return(w, "err")
    BY <2>1, <1>ReturnCall, Zenon DEF Outcomes
  <2>2. CASE Becomes(w, Again(txn[w])) /\ txn[w].attempt < MaxAttempts
    <3> DEFINE s == txn[w]
               t == Again(s)
    <3>1. CallOK(s)
      BY Zenon DEF CallInv
    <3>2. DOMAIN t = Fields /\ t.pc = "start" /\ t.attempt = s.attempt + 1 /\ t.commits = s.commits /\ t.outcome = s.outcome
      BY <3>1, AgainFields, Zenon DEF CallOK
    <3> HIDE DEF t
    <3>3. t.attempt \in 0 .. MaxAttempts
      BY <2>2, <3>1, <3>2, BookmarkAssumption DEF CallOK
    <3>4. CallOK(t)
      BY <3>1, <3>2, <3>3, Zenon DEF CallOK
    <3> QED
      BY <2>2, <3>4, <1>BecomesCall, Zenon DEF t
  <2> QED
    BY <2>1, <2>2, Zenon DEF Retry, Again
(* So does a failed statement. *)
<1>FailCall. ASSUME txn[w].pc # "done", Fail(w)
             PROVE  CallInv'
  BY <1>FailCall, <1>ReturnCall, <1>RetryCall, Zenon DEF Fail, Outcomes
<1> USE DEF GoesOn
<1>0. DOMAIN txn[w] = Fields /\ txn[w].commits \in {0, 1} /\ (txn[w].pc # "done" => txn[w].commits = 0)
  BY Zenon DEF CallInv, CallOK
<1>1. CASE Submit(w)
  <2>1. CASE \E ops \in Ops : Becomes(w, [Fresh EXCEPT !.pc = "start", !.attempt = 1, !.ops = ops])
    <3>1. PICK ops \in Ops : Becomes(w, [Fresh EXCEPT !.pc = "start", !.attempt = 1, !.ops = ops])
      BY <2>1, Zenon
    <3>2. CallOK([Fresh EXCEPT !.pc = "start", !.attempt = 1, !.ops = ops])
      BY FreshFields, BookmarkAssumption DEF CallOK, Fields, Outcomes
    <3> QED
      BY <3>1, <3>2, <1>BecomesCall, Zenon
  <2>2. CASE \E moves \in MirrorBatches : Becomes(w, [Fresh EXCEPT !.pc = "start", !.attempt = 1, !.moves = moves])
    <3>1. PICK moves \in MirrorBatches : Becomes(w, [Fresh EXCEPT !.pc = "start", !.attempt = 1, !.moves = moves])
      BY <2>2, Zenon
    <3>2. CallOK([Fresh EXCEPT !.pc = "start", !.attempt = 1, !.moves = moves])
      BY FreshFields, BookmarkAssumption DEF CallOK, Fields, Outcomes
    <3> QED
      BY <3>1, <3>2, <1>BecomesCall, Zenon
  <2> QED
    BY <1>1, <2>1, <2>2, Zenon DEF Submit
<1>2. CASE SubmitLocked(w)
  <2> DEFINE T(n) == [Fresh EXCEPT !.pc = "lock", !.attempt = 1, !.locked = TRUE, !.locking = TRUE, !.wants = {n},
                                   !.ops = <<[kind |-> "update", name |-> n, old |-> NoCs, new |-> NoCs]>>]
  <2>1. PICK n \in Names : Becomes(w, T(n))
    BY <1>2, Zenon DEF SubmitLocked
  <2>2. CallOK(T(n))
    BY FreshFields, BookmarkAssumption DEF CallOK, Fields, Outcomes
  <2> QED
    BY <2>1, <2>2, <1>BecomesCall, Zenon
<1>3. CASE Answered(w)
  <2>1. CallOK(Fresh)
    BY FreshFields, BookmarkAssumption DEF CallOK, Outcomes
  <2> QED
    BY <1>3, <2>1, <1>BecomesCall, Zenon DEF Answered
<1>4. CASE StartAttempt(w)
  <2>1. GoesOn(txn[w], [txn[w] EXCEPT !.pc = "lock", !.locking = TRUE, !.wants = BookmarkNames(txn[w])])
    BY <1>0, Zenon DEF Fields
  <2>2. GoesOn(txn[w], [txn[w] EXCEPT !.pc = "max"])
    BY <1>0, Zenon DEF Fields
  <2>3. txn[w].pc # "done"
    BY <1>4, Zenon DEF StartAttempt
  <2>4. \/ Becomes(w, [txn[w] EXCEPT !.pc = "lock", !.locking = TRUE, !.wants = BookmarkNames(txn[w])])
        \/ Becomes(w, [txn[w] EXCEPT !.pc = "max"])
    BY <1>4, Zenon DEF StartAttempt
  <2> HIDE DEF GoesOn
  <2> QED
    BY <2>1, <2>2, <2>3, <2>4, <1>GoesOnCall, Zenon
<1>5. CASE AcquireLock(w) \/ LockRowMissing(w) \/ CreateLockRow(w)
  <2> DEFINE T == [txn[w] EXCEPT !.wants = @ \ {Min(txn[w].wants)}]
             U == [txn[w] EXCEPT !.gaps = @ \cup {Min(txn[w].wants)}]
  <2>1. txn[w].pc = "lock" /\ (Becomes(w, T) \/ Becomes(w, U))
    BY <1>5, Zenon DEF AcquireLock, LockRowMissing, CreateLockRow, Creating, TakeLock
  <2>2. GoesOn(txn[w], T) /\ GoesOn(txn[w], U)
    BY <1>0, <2>1, Zenon DEF Fields
  <2> HIDE DEF GoesOn, T, U
  <2> QED
    BY <2>1, <2>2, <1>GoesOnCall, Zenon
<1>6. CASE LocksHeld(w)
  <2>1. GoesOn(txn[w], [txn[w] EXCEPT !.pc = "held", !.snap = Snapshot])
    BY <1>0, Zenon DEF Fields
  <2>2. GoesOn(txn[w], [txn[w] EXCEPT !.pc = "mirror", !.snap = Snapshot])
    BY <1>0, Zenon DEF Fields
  <2>3. GoesOn(txn[w], [txn[w] EXCEPT !.pc = "seed", !.todo = txn[w].ops])
    BY <1>0, Zenon DEF Fields
  <2>4. txn[w].pc # "done"
    BY <1>6, Zenon DEF LocksHeld
  <2>5. \/ Becomes(w, [txn[w] EXCEPT !.pc = "held", !.snap = Snapshot])
        \/ Becomes(w, [txn[w] EXCEPT !.pc = "mirror", !.snap = Snapshot])
        \/ Becomes(w, [txn[w] EXCEPT !.pc = "seed", !.todo = txn[w].ops])
    BY <1>6, Zenon DEF LocksHeld
  <2> HIDE DEF GoesOn
  <2> QED
    BY <2>1, <2>2, <2>3, <2>4, <2>5, <1>GoesOnCall, Zenon
<1>7. CASE LockedCommit(w)
  <2>1. txn[w].pc # "done"
    BY <1>7, Zenon DEF LockedCommit
  <2>2. CASE Return(w, "err")
    BY <2>1, <2>2, <1>ReturnCall, Zenon DEF Outcomes
  <2> DEFINE T(x) == [txn[w] EXCEPT !.pc = "seed", !.todo = x]
  <2>3. CASE \E x : Becomes(w, T(x))
    <3>1. PICK x : Becomes(w, T(x))
      BY <2>3, Zenon
    <3>2. GoesOn(txn[w], T(x))
      BY <1>0, Zenon DEF Fields
    <3> HIDE DEF GoesOn, T
    <3> QED
      BY <2>1, <3>1, <3>2, <1>GoesOnCall, Zenon
  <2> QED
    BY <1>7, <2>2, <2>3, Zenon DEF LockedCommit
<1>8. CASE LockedRollback(w)
  BY <1>8, <1>ReturnCall, Zenon DEF LockedRollback, Outcomes
<1>9. CASE SeedSequence(w)
  <2> DEFINE T(s, p) == [txn[w] EXCEPT !.pc = "alloc", !.snap = <<s>>, !.pseq = p]
  <2>1. PICK s, p : Becomes(w, T(s, p))
    BY <1>9, Zenon DEF SeedSequence
  <2>2. GoesOn(txn[w], T(s, p)) /\ txn[w].pc # "done"
    BY <1>0, <1>9, Zenon DEF Fields, SeedSequence
  <2> HIDE DEF GoesOn, T
  <2> QED
    BY <2>1, <2>2, <1>GoesOnCall, Zenon
<1>10. CASE AllocateLogId(w)
  <2> DEFINE T(x, p, c) == [txn[w] EXCEPT !.ids = x, !.pseq = p, !.pc = c]
  <2>1. PICK x, p, c : c \in {"write", "alloc"} /\ Becomes(w, T(x, p, c))
    BY <1>10, Zenon DEF AllocateLogId
  <2>2. GoesOn(txn[w], T(x, p, c)) /\ txn[w].pc # "done"
    BY <1>0, <1>10, <2>1, Zenon DEF Fields, AllocateLogId
  <2> HIDE DEF GoesOn, T
  <2> QED
    BY <2>1, <2>2, <1>GoesOnCall, Zenon
<1>11. CASE FindNextUpdateLogId(w)
  <2> DEFINE pc == IF replica THEN "mirror" ELSE "write"
             ids == [i \in 1 .. Len(txn[w].ops) |-> MaxLogId + i]
             T == [txn[w] EXCEPT !.pc = pc, !.snap = Snapshot, !.ids = ids, !.todo = txn[w].ops]
  <2>1. Becomes(w, T) /\ txn[w].pc = "max"
    BY <1>11, Zenon DEF FindNextUpdateLogId
  <2>2. pc \in {"mirror", "write"}
    BY Zenon
  <2> HIDE DEF pc, ids
  <2>3. GoesOn(txn[w], T)
    BY <1>0, <2>2, Zenon DEF Fields
  <2> HIDE DEF GoesOn, T
  <2> QED
    BY <2>1, <2>3, <1>GoesOnCall, Zenon
<1>12. CASE WriteRow(w)
  <2>1. txn[w].pc # "done"
    BY <1>12, Zenon DEF WriteRow
  <2>2. CASE Return(w, "null") \/ Return(w, "err")
    BY <2>1, <2>2, <1>ReturnCall, Zenon DEF Outcomes
  <2> DEFINE T(o, x, e, p) == [txn[w] EXCEPT !.todo = o, !.ids = x, !.entries = e, !.pend = p]
  <2>3. CASE \E o, x, e, p : Becomes(w, T(o, x, e, p))
    <3>1. PICK o, x, e, p : Becomes(w, T(o, x, e, p))
      BY <2>3, Zenon
    <3>2. GoesOn(txn[w], T(o, x, e, p))
      BY <1>0, <2>1, Zenon DEF Fields
    <3> HIDE DEF GoesOn, T
    <3> QED
      BY <2>1, <3>1, <3>2, <1>GoesOnCall, Zenon
  <2> QED
    BY <1>12, <2>2, <2>3, Zenon DEF WriteRow
<1>13. CASE StoreLog(w)
  <2>1. txn[w].pc # "done"
    BY <1>13, Zenon DEF StoreLog
  <2>2. CASE Retry(w)
    BY <2>1, <2>2, <1>RetryCall, Zenon
  <2>3. CASE Becomes(w, [txn[w] EXCEPT !.pc = "commit"])
    <3>1. GoesOn(txn[w], [txn[w] EXCEPT !.pc = "commit"])
      BY <1>0, Zenon DEF Fields
    <3> HIDE DEF GoesOn
    <3> QED
      BY <2>1, <2>3, <3>1, <1>GoesOnCall, Zenon
  <2> QED
    BY <1>13, <2>2, <2>3, Zenon DEF StoreLog
<1>14. CASE StoreMirrorBatch(w)
  <2>1. txn[w].pc # "done"
    BY <1>14, Zenon DEF StoreMirrorBatch
  <2>2. CASE Return(w, "null") \/ Return(w, "err") \/ Return(w, "processed")
    BY <2>1, <2>2, <1>ReturnCall, Zenon DEF Outcomes
  <2> DEFINE T(e, p) == [txn[w] EXCEPT !.pc = "commit", !.entries = e, !.pend = p]
  <2>3. CASE \E e, p : Becomes(w, T(e, p))
    <3>1. PICK e, p : Becomes(w, T(e, p))
      BY <2>3, Zenon
    <3>2. GoesOn(txn[w], T(e, p))
      BY <1>0, Zenon DEF Fields
    <3> HIDE DEF GoesOn, T
    <3> QED
      BY <2>1, <3>1, <3>2, <1>GoesOnCall, Zenon
  <2> QED
    BY <1>14, <2>2, <2>3, Zenon DEF StoreMirrorBatch
<1>15. CASE Commit(w)
  <2>1. txn[w].pc = "commit" /\ Becomes(w, Ended(txn[w].commits + 1, "some"))
    BY <1>15, Zenon DEF Commit
  <2>2. txn[w].commits + 1 = 1
    BY <1>0, <2>1
  <2>3. CallOK(Ended(1, "some"))
    BY <1>EndedCall, Zenon DEF Outcomes
  <2> QED
    BY <2>1, <2>2, <2>3, <1>BecomesCall, Zenon
<1>16. CASE CommitError(w)
  <2>1. PICK a \in BOOLEAN : Becomes(w, Ended(txn[w].commits + (IF a THEN 1 ELSE 0), "err"))
    BY <1>16, Zenon DEF CommitError
  <2>2. txn[w].commits = 0
    BY <1>0, <1>16, Zenon DEF CommitError
  <2>3. txn[w].commits + (IF a THEN 1 ELSE 0) \in {0, 1}
    BY <2>2
  <2>4. CallOK(Ended(txn[w].commits + (IF a THEN 1 ELSE 0), "err"))
    BY <2>3, <1>EndedCall, Zenon DEF Outcomes
  <2> QED
    BY <2>1, <2>4, <1>BecomesCall, Zenon
<1>17. CASE StatementError(w)
  BY <1>17, <1>FailCall, Zenon DEF StatementError, Running
<1>18. CASE HookError(w)
  BY <1>18, <1>ReturnCall, <1>RetryCall, Zenon DEF HookError, Outcomes
<1>19. CASE DeadlockVictim(w)
  <2>1. txn[w].pc # "done" /\ Fail(w)
    BY <1>19, VictimWaits, Zenon
  <2> QED
    BY <1>19, <2>1, <1>FailCall, Zenon DEF DeadlockVictim
<1> QED
  BY <1>1, <1>2, <1>3, <1>4, <1>5, <1>6, <1>7, <1>8, <1>9, <1>10, <1>11, <1>12, <1>13, <1>14, Zenon,
     <1>15, <1>16, <1>17, <1>18, <1>19 DEF StoreStep

(* A call runs up to MaxAttempts transactions, whatever fails and whoever  *)
(* else writes; at most one takes effect, and the answer says whether it   *)
(* did.                                                                    *)
THEOREM CallsCommitOnce == Spec => []OneCommitPerCall
<1>1. Init => CallInv
  BY FreshFields, BookmarkAssumption DEF Init, StoreInit, CallInv, CallOK, Outcomes
<1>2. CallInv /\ [Next]_vars => CallInv'
  <2> SUFFICES ASSUME CallInv, [Next]_vars PROVE CallInv'
    BY Zenon
  <2>1. CASE UNCHANGED txn
    BY <2>1, Zenon DEF CallInv, CallOK
  <2>2. CASE \E w \in Writers : StoreStep(w)
    BY <2>2, StepCall, Zenon
  <2> QED
    BY <2>1, <2>2, Zenon DEF Next, StoreNext, FlipKnob, Subscribe, Refresh, ReadNextEntries, storeVars, vars
<1>3. CallInv => OneCommitPerCall
  BY DEF CallInv, CallOK, OneCommitPerCall
<1> QED
  BY <1>1, <1>2, <1>3, PTL DEF Spec

-----------------------------------------------------------------------------
(* Ids of MAX(id) + 1.  A transaction of the legacy path carries ids that   *)
(* follow the maximum of its snapshot without a gap.  As long as all do,    *)
(* the log is 1 .. MaxLogId, and a transaction whose snapshot is old finds  *)
(* its first id taken; past store_log it has the newest maximum.            *)
IsSeq(s) == s \in Seq({s[i] : i \in DOMAIN s})

Topped(S) == S \subseteq Nat /\ \E m \in S \cup {0} : \A x \in S : x <= m

Top(S) == Max({0} \cup S)

ShapeOK(t, auto) ==
    /\ IsSeq(t.ops) /\ IsSeq(t.todo) /\ t.ids \in Seq(Nat)
    /\ Topped(Ids(t.entries))
    /\ t.snap = <<>> \/ t.snap[1].log \in Nat
    /\ t.pc # "mirror"
    /\ t.pc \notin {"write", "commit"} => t.entries = {}
    /\ t.pc = "write" => Len(t.ids) = Len(t.todo)
    /\ t.pc \in {"write", "commit"} /\ t.locking => auto > 0
    /\ t.pc \in {"start", "max"} => ~t.locking

LegacyOK(t, max) ==
    t.pc \in {"write", "commit"} =>
        /\ t.snap[1].log \in 0 .. max
        /\ \E last \in Nat :
             /\ t.snap[1].log <= last
             /\ Ids(t.entries) = t.snap[1].log + 1 .. last
             /\ \A i \in DOMAIN t.ids : t.ids[i] = last + i
             /\ t.pc = "commit" /\ t.snap[1].log < last => t.snap[1].log = max

LegacyInv ==
    ~replica =>
        /\ autoInc \in Nat /\ Topped(Ids(log))
        /\ \A w \in Writers : ShapeOK(txn[w], autoInc)
        /\ autoInc = 0 =>
             /\ Ids(log) = 1 .. MaxLogId
             /\ \A w \in Writers : LegacyOK(txn[w], MaxLogId)
             /\ \A v, w \in Writers :
                  v # w /\ txn[v].pc = "commit" /\ txn[w].pc = "commit" =>
                      Ids(txn[v].entries) \cap Ids(txn[w].entries) = {}

(* The maximum of a set of numbers that has one. *)
LEMMA TopOf ==
  ASSUME NEW S, Topped(S)
  PROVE  Top(S) \in S \cup {0} /\ Top(S) \in Nat /\ \A x \in S : x <= Top(S)
<1>1. S \subseteq Nat
  BY Zenon DEF Topped
<1>2. PICK m \in S \cup {0} : \A x \in S : x <= m
  BY Zenon DEF Topped
<1>3. \A y \in {0} \cup S : m >= y
  BY <1>1, <1>2
<1>4. Top(S) \in {0} \cup S /\ \A y \in {0} \cup S : Top(S) >= y
  BY <1>3, Zenon DEF Top, Max
<1> DEFINE top == Top(S)
<1>5. top \in {0} \cup S /\ \A y \in {0} \cup S : top >= y
  BY <1>4, Zenon
<1> HIDE DEF top
<1>6. top \in S \cup {0} /\ top \in Nat /\ \A x \in S : x <= top
  BY <1>1, <1>5
<1> QED
  BY <1>6, Zenon DEF top

(* 1 .. n has the maximum n. *)
LEMMA TopOfInterval ==
  ASSUME NEW n \in Nat
  PROVE  Topped(1 .. n) /\ Top(1 .. n) = n
<1>1. Topped(1 .. n)
  <2>1. n \in (1 .. n) \cup {0} /\ \A x \in 1 .. n : x <= n
    OBVIOUS
  <2> QED
    BY <2>1 DEF Topped
<1>2. Top(1 .. n) \in (1 .. n) \cup {0} /\ \A x \in 1 .. n : x <= Top(1 .. n)
  BY <1>1, TopOf, Zenon
<1> QED
  BY <1>1, <1>2

(* The union of two sets with a maximum has one. *)
LEMMA ToppedUnion ==
  ASSUME NEW S, NEW T, Topped(S), Topped(T)
  PROVE  Topped(S \cup T)
<1>1. S \subseteq Nat /\ T \subseteq Nat
  BY Zenon DEF Topped
<1>2. PICK m \in S \cup {0} : \A x \in S : x <= m
  BY Zenon DEF Topped
<1>3. PICK n \in T \cup {0} : \A x \in T : x <= n
  BY Zenon DEF Topped
<1>4. CASE m <= n
  <2>1. n \in (S \cup T) \cup {0} /\ \A x \in S \cup T : x <= n
    BY <1>1, <1>2, <1>3, <1>4
  <2> QED
    BY <1>1, <2>1, Zenon DEF Topped
<1>5. CASE n <= m
  <2>1. m \in (S \cup T) \cup {0} /\ \A x \in S \cup T : x <= m
    BY <1>1, <1>2, <1>3, <1>5
  <2> QED
    BY <1>1, <2>1, Zenon DEF Topped
<1> QED
  BY <1>1, <1>2, <1>3, <1>4, <1>5

(* A number is its own maximum. *)
LEMMA ToppedSingle == ASSUME NEW n \in Nat PROVE Topped({n})
  BY DEF Topped

(* A transaction without log rows. *)
LEMMA ToppedEmpty == Topped({}) /\ Ids({}) = {}
  BY Zenon DEF Topped, Ids

(* The ids of two sets of log rows. *)
LEMMA IdsUnion == ASSUME NEW A, NEW B PROVE Ids(A \cup B) = Ids(A) \cup Ids(B)
  BY Zenon DEF Ids

(* MaxLogId, before and after a step. *)
LEMMA MaxLogIdIsTop == MaxLogId = Top(Ids(log)) /\ MaxLogId' = Top(Ids(log'))
  BY Zenon DEF MaxLogId, Top, Ids

(* Sequences of anything. *)
LEMMA SeqIsSeq == ASSUME NEW S, NEW s \in Seq(S) PROVE IsSeq(s)
<1>1. Len(s) \in Nat /\ DOMAIN s = 1 .. Len(s) /\ s \in [1 .. Len(s) -> S]
  OBVIOUS
<1>2. s \in [1 .. Len(s) -> {s[i] : i \in DOMAIN s}]
  BY <1>1, Zenon
<1> QED
  BY <1>1, <1>2, SMTT(30) DEF IsSeq

(* The empty sequence. *)
LEMMA EmptyIsSeq == IsSeq(<<>>) /\ <<>> \in Seq(Nat)
  BY DEF IsSeq

(* The head and the rest of a sequence. *)
LEMMA SeqHead ==
  ASSUME NEW S, NEW s \in Seq(S), s # <<>>
  PROVE  1 \in DOMAIN s /\ s[1] = Head(s) /\ Head(s) \in S /\ Tail(s) \in Seq(S)
  OBVIOUS

(* As many of one as of the other. *)
LEMMA SameLength ==
  ASSUME NEW S, NEW s \in Seq(S), NEW R, NEW r \in Seq(R), Len(s) = Len(r), s # <<>>
  PROVE  r # <<>>
  OBVIOUS

(* A sequence of one thing. *)
LEMMA SingleSeq == ASSUME NEW x PROVE <<x>>[1] = x /\ DOMAIN <<x>> = {1}
  OBVIOUS

(* Nothing in the empty sequence. *)
LEMMA EmptyDomain == DOMAIN <<>> = {}
  OBVIOUS

(* A sequence of numbers and one more. *)
LEMMA AppendOne ==
  ASSUME NEW q \in Seq(Nat), NEW x \in Nat
  PROVE  LET k == Len(q) + 1
         IN  /\ DOMAIN Append(q, x) = DOMAIN q \cup {k} /\ DOMAIN q = 1 .. Len(q) /\ Len(q) \in Nat
             /\ Append(q, x)[k] = x /\ \A i \in DOMAIN q : Append(q, x)[i] = q[i]
  OBVIOUS

(* The first of a sequence of numbers and the others. *)
LEMMA TailOne ==
  ASSUME NEW q \in Seq(Nat), q # <<>>
  PROVE  /\ Head(q) \in Nat /\ 1 \in DOMAIN q /\ q[1] = Head(q)
         /\ \A i \in DOMAIN Tail(q) : i \in Nat \ {0} /\ i + 1 \in DOMAIN q /\ Tail(q)[i] = q[i + 1]
         /\ \A i \in DOMAIN q \ {1} : i - 1 \in DOMAIN Tail(q) /\ Tail(q)[i - 1] = q[i]
  OBVIOUS

(* Rising numbers without the first still rise. *)
LEMMA TailRises ==
  ASSUME NEW q \in Seq(Nat), q # <<>>, \A i, j \in DOMAIN q : i < j => q[i] < q[j]
  PROVE  \A i, j \in DOMAIN Tail(q) : i < j => Tail(q)[i] < Tail(q)[j]
<1> SUFFICES ASSUME NEW i \in DOMAIN Tail(q), NEW j \in DOMAIN Tail(q), i < j PROVE Tail(q)[i] < Tail(q)[j]
  BY Zenon
<1>1. /\ i \in Nat /\ i + 1 \in DOMAIN q /\ Tail(q)[i] = q[i + 1]
      /\ j \in Nat /\ j + 1 \in DOMAIN q /\ Tail(q)[j] = q[j + 1]
  BY TailOne, Zenon
<1>2. i + 1 < j + 1
  BY <1>1
<1> QED
  BY <1>1, <1>2, Zenon

(* A sequence of one operation. *)
LEMMA SingleIsSeq == ASSUME NEW x PROVE IsSeq(<<x>>)
<1>1. <<x>> \in Seq({x})
  OBVIOUS
<1> QED
  BY <1>1, SeqIsSeq, Zenon

(* The operations that are left. *)
LEMMA TailIsSeq ==
  ASSUME NEW s, IsSeq(s), s # <<>>
  PROVE  IsSeq(Tail(s)) /\ Len(s) \in Nat \ {0} /\ Len(Tail(s)) = Len(s) - 1
<1> DEFINE S == {s[i] : i \in DOMAIN s}
<1>1. s \in Seq(S)
  BY Zenon DEF IsSeq
<1> HIDE DEF S
<1>2. Tail(s) \in Seq(S) /\ Len(Tail(s)) = Len(s) - 1
  BY <1>1
<1>3. Len(s) \in Nat \ {0}
  BY <1>1
<1> QED
  BY <1>2, <1>3, SeqIsSeq, Zenon

-----------------------------------------------------------------------------
(* A record before the writes of a transaction, or after its end. *)
Plain(t) ==
    /\ IsSeq(t.ops) /\ IsSeq(t.todo) /\ t.ids \in Seq(Nat)
    /\ t.entries = {}
    /\ t.snap = <<>> \/ t.snap[1].log \in Nat
    /\ t.pc \notin {"mirror", "write", "commit"}
    /\ t.pc \in {"start", "max"} => ~t.locking

(* Such a record satisfies the invariant whatever the log is. *)
LEMMA PlainOK == ASSUME NEW t, Plain(t), NEW a, NEW m PROVE ShapeOK(t, a) /\ LegacyOK(t, m)
  BY ToppedEmpty, Zenon DEF Plain, ShapeOK, LegacyOK

(* What a transaction of the legacy path that takes effect does to the log. *)
LEMMA EffectOnLog ==
  ASSUME LegacyInv, ~replica, autoInc = 0, NEW w \in Writers, txn[w].pc = "commit",
         log' = log \cup txn[w].entries
  PROVE  /\ MaxLogId \in Nat /\ MaxLogId' \in Nat /\ MaxLogId <= MaxLogId'
         /\ Ids(log) = 1 .. MaxLogId /\ Ids(log') = 1 .. MaxLogId'
         /\ Ids(txn[w].entries) = MaxLogId + 1 .. MaxLogId'
(* Ids that follow each other without a gap. *)
<1>JoinIntervals. ASSUME NEW m \in Nat, NEW n \in Nat, m <= n
                  PROVE  (1 .. m) \cup (m + 1 .. n) = 1 .. n
  BY <1>JoinIntervals
<1> DEFINE first == txn[w].snap[1].log
           E == Ids(txn[w].entries)
<1>1. Topped(Ids(log)) /\ Ids(log) = 1 .. MaxLogId /\ LegacyOK(txn[w], MaxLogId)
  BY Zenon DEF LegacyInv
<1>2. MaxLogId \in Nat
  BY <1>1, TopOf, MaxLogIdIsTop, Zenon
<1>3. first \in 0 .. MaxLogId
  BY <1>1, Zenon DEF LegacyOK
<1>4. PICK last \in Nat : first <= last /\ E = first + 1 .. last /\ (first < last => first = MaxLogId)
  BY <1>1, Zenon DEF LegacyOK
<1>5. Ids(log') = Ids(log) \cup E
  BY IdsUnion, Zenon
<1> HIDE DEF first, E
<1>6. CASE first < last
  <2>1. first = MaxLogId
    BY <1>4, <1>6, Zenon
  <2>2. E = MaxLogId + 1 .. last /\ MaxLogId <= last
    BY <1>4, <2>1, Zenon
  <2>3. Ids(log') = 1 .. last
    BY <1>1, <1>2, <1>5, <2>2, <1>JoinIntervals, ZenonT(30)
  <2>4. MaxLogId' = last
    BY <2>3, TopOfInterval, MaxLogIdIsTop, Zenon
  <2> QED
    BY <1>1, <1>2, <2>2, <2>3, <2>4, Zenon DEF E
<1>7. CASE ~(first < last)
  <2>1. E = {} /\ MaxLogId + 1 .. MaxLogId = {}
    BY <1>2, <1>3, <1>4, <1>7
  <2>2. Ids(log') = Ids(log)
    BY <1>5, <2>1, Zenon
  <2>3. MaxLogId' = MaxLogId
    BY <2>2, MaxLogIdIsTop, Zenon
  <2> QED
    BY <1>1, <1>2, <2>1, <2>2, <2>3 DEF E
<1> QED
  BY <1>6, <1>7, Zenon

-----------------------------------------------------------------------------
(* The larger of two numbers is not beyond what neither is beyond. *)
LEMMA MaxAtMost ==
  ASSUME NEW a \in Nat, NEW b \in Nat
  PROVE  /\ Max({a, b}) \in Nat /\ a <= Max({a, b}) /\ b <= Max({a, b})
         /\ \A c \in Nat : a <= c /\ b <= c => Max({a, b}) <= c
<1>1. \E x \in {a, b} : \A y \in {a, b} : x >= y
  OBVIOUS
<1>2. Max({a, b}) \in {a, b} /\ \A y \in {a, b} : Max({a, b}) >= y
  BY <1>1, Zenon DEF Max
<1> DEFINE m == Max({a, b})
<1>3. m \in {a, b} /\ \A y \in {a, b} : m >= y
  BY <1>2, Zenon
<1> HIDE DEF m
<1>4. m \in Nat /\ a <= m /\ b <= m /\ \A c \in Nat : a <= c /\ b <= c => m <= c
  BY <1>3, Zenon
<1> QED
  BY <1>4, Zenon DEF m

(* The maximum of a snapshot is a number. *)
LEMMA SnapLog ==
  ASSUME LegacyInv, ~replica, NEW w \in Writers
  PROVE  Snap(w).log \in Nat /\ Snapshot # <<>> /\ Snapshot[1].log \in Nat
<1>1. Topped(Ids(log)) /\ ShapeOK(txn[w], autoInc)
  BY Zenon DEF LegacyInv
<1>2. MaxLogId \in Nat
  BY <1>1, TopOf, MaxLogIdIsTop, Zenon
<1>3. Snapshot # <<>> /\ Snapshot[1].log = MaxLogId
  BY Zenon DEF Snapshot
<1>4. txn[w].snap = <<>> \/ txn[w].snap[1].log \in Nat
  BY <1>1, Zenon DEF ShapeOK
<1> QED
  BY <1>2, <1>3, <1>4, Zenon DEF Snap

-----------------------------------------------------------------------------
(* A repository does not become a replica. *)
LEMMA StepReplica == ASSUME NEW w \in Writers, StoreStep(w) PROVE replica' = replica
  BY Zenon DEF StoreStep, Submit, SubmitLocked, Answered, StartAttempt, AcquireLock, LockRowMissing, CreateLockRow, TakeLock, LocksHeld, LockedCommit,
         LockedRollback, SeedSequence, AllocateLogId, FindNextUpdateLogId, WriteRow, StoreLog, StoreMirrorBatch,
         Commit, CommitError, StatementError, HookError, DeadlockVictim, Fail, env

(* Every step of a writer keeps the invariant. *)
LEMMA StepLegacy ==
  ASSUME CallInv, LegacyInv, NEW w \in Writers, StoreStep(w)
  PROVE  LegacyInv'
(* A step of w that leaves the log alone. *)
<1>QuietStep. ASSUME ~replica, replica' = replica, log' = log, autoInc' \in Nat, autoInc <= autoInc', NEW t,
                     Becomes(w, t), ShapeOK(t, autoInc'), autoInc' = 0 => LegacyOK(t, MaxLogId),
                     autoInc' = 0 /\ t.pc = "commit" =>
                     \A v \in Writers \ {w} :
                     txn[v].pc = "commit" => Ids(t.entries) \cap Ids(txn[v].entries) = {}
              PROVE  LegacyInv'
  <2> USE <1>QuietStep
  <2>1. txn'[w] = t /\ \A v \in Writers \ {w} : txn'[v] = txn[v]
    BY BecomesTxn, Zenon DEF CallInv
  <2>2. autoInc \in Nat /\ Topped(Ids(log)) /\ \A v \in Writers : ShapeOK(txn[v], autoInc)
    BY Zenon DEF LegacyInv
  <2>3. Topped(Ids(log))' /\ MaxLogId' = MaxLogId /\ Ids(log)' = Ids(log)
    BY <2>2, MaxLogIdIsTop, Zenon DEF Ids
  <2>4. \A v \in Writers \ {w} : ShapeOK(txn[v], autoInc')
    <3> SUFFICES ASSUME NEW v \in Writers \ {w} PROVE ShapeOK(txn[v], autoInc')
      BY Zenon
    <3>1. ShapeOK(txn[v], autoInc) /\ (autoInc > 0 => autoInc' > 0)
      BY <2>2
    <3> QED
      BY <3>1, Zenon DEF ShapeOK
  <2>5. \A v \in Writers : ShapeOK(txn[v], autoInc)'
    <3> SUFFICES ASSUME NEW v \in Writers PROVE ShapeOK(txn'[v], autoInc')
      BY ZenonT(30) DEF ShapeOK, Topped, Ids, IsSeq
    <3> QED
      BY <2>1, <2>4, Zenon
  <2>6. ASSUME autoInc' = 0 PROVE (\A v \in Writers : LegacyOK(txn[v], MaxLogId))'
    <3>1. autoInc = 0
      BY <2>2, <2>6
    <3>2. \A v \in Writers : LegacyOK(txn[v], MaxLogId)
      BY <3>1, Zenon DEF LegacyInv
    <3>3. \A v \in Writers : LegacyOK(txn'[v], MaxLogId)
      BY <2>1, <2>6, <3>2, Zenon
    <3> QED
      BY <2>3, <3>3, Zenon DEF LegacyOK, Ids
  <2>7. ASSUME autoInc' = 0, NEW u \in Writers, NEW v \in Writers, u # v,
               txn'[u].pc = "commit", txn'[v].pc = "commit"
        PROVE  Ids(txn'[u].entries) \cap Ids(txn'[v].entries) = {}
    <3>1. autoInc = 0
      BY <2>2, <2>7
    <3>2. CASE u # w /\ v # w
      BY <2>1, <2>7, <3>1, <3>2, Zenon DEF LegacyInv
    <3>3. CASE u = w
      BY <2>1, <2>7, <3>3, Zenon
    <3>4. CASE v = w
      BY <2>1, <2>7, <3>4, Zenon
    <3> QED
      BY <3>2, <3>3, <3>4, Zenon
  <2>8. autoInc' = 0 => Ids(log)' = 1 .. MaxLogId'
    BY <2>2, <2>3 DEF LegacyInv
  <2>9. \A u, v \in Writers : Ids(txn[u].entries)' = Ids(txn'[u].entries)
    BY Zenon DEF Ids
  <2> QED
    BY <2>3, <2>5, <2>6, <2>7, <2>8, <2>9, Zenon DEF LegacyInv
(* The record of w before its writes is of this kind. *)
<1>OfPlain. ASSUME ~replica, txn[w].pc \notin {"write", "commit"}
            PROVE  Plain(txn[w])
  <2> USE <1>OfPlain
  <2>1. ShapeOK(txn[w], autoInc)
    BY Zenon DEF LegacyInv
  <2> QED
    BY <2>1, Zenon DEF ShapeOK, Plain
(* A step to such a record. *)
<1>PlainStep. ASSUME ~replica, replica' = replica, log' = log, autoInc' \in Nat, autoInc <= autoInc', NEW t,
                     Becomes(w, t), Plain(t)
              PROVE  LegacyInv'
  <2> USE <1>PlainStep
  <2>1. ShapeOK(t, autoInc') /\ LegacyOK(t, MaxLogId) /\ t.pc # "commit"
    BY PlainOK, Zenon DEF Plain
  <2> QED
    BY <2>1, <1>QuietStep, Zenon
(* The end of a call is of this kind. *)
<1>EndedPlain. ASSUME NEW c, NEW o
               PROVE  Plain(Ended(c, o))
  <2> USE <1>EndedPlain
  <2> DEFINE t == Ended(c, o)
  <2>1. t.pc = "done" /\ t.ops = <<>> /\ t.ids = <<>> /\ t.todo = <<>> /\ t.entries = {} /\ t.snap = <<>>
    BY FreshFields, Zenon DEF Fields, Ended
  <2> HIDE DEF t
  <2>2. Plain(t)
    BY <2>1, EmptyIsSeq, Zenon DEF Plain
  <2> QED
    BY <2>2, Zenon DEF t
(* A return keeps the invariant. *)
<1>ReturnLegacy. ASSUME ~replica, replica' = replica, log' = log, autoInc' = autoInc, NEW o, Return(w, o)
                 PROVE  LegacyInv'
  <2> USE <1>ReturnLegacy
  <2>1. autoInc' \in Nat /\ autoInc <= autoInc'
    BY DEF LegacyInv
  <2>2. Becomes(w, Ended(txn[w].commits, o)) /\ Plain(Ended(txn[w].commits, o))
    BY <1>EndedPlain, Zenon DEF Return
  <2> QED
    BY <2>1, <2>2, <1>PlainStep, Zenon
(* A retry keeps the invariant: nothing of the attempt is left. *)
<1>RetryLegacy. ASSUME ~replica, replica' = replica, log' = log, autoInc' = autoInc, Retry(w)
                PROVE  LegacyInv'
  <2> USE <1>RetryLegacy
  <2>1. CASE Return(w, "err")
    BY <2>1, <1>ReturnLegacy, Zenon
  <2>2. CASE Becomes(w, Again(txn[w]))
    <3>1. autoInc' \in Nat /\ autoInc <= autoInc' /\ IsSeq(txn[w].ops)
      BY DEF LegacyInv, ShapeOK
    <3> DEFINE t == Again(txn[w])
    <3>2. DOMAIN txn[w] = Fields
      BY Zenon DEF CallInv, CallOK
    <3>3. t.pc = "start" /\ t.locking = FALSE /\ t.ops = txn[w].ops /\ t.ids = <<>> /\ t.todo = <<>> /\ t.entries = {} /\ t.snap = <<>>
      BY <3>2, AgainFields, Zenon
    <3> HIDE DEF t
    <3>4. Plain(t)
      BY <3>1, <3>3, EmptyIsSeq, Zenon DEF Plain
    <3> QED
      BY <2>2, <3>1, <3>4, <1>PlainStep, Zenon DEF t
  <2> QED
    BY <2>1, <2>2, Zenon DEF Retry, Again
(* A failed statement keeps the invariant. *)
<1>FailLegacy. ASSUME ~replica, replica' = replica, log' = log, autoInc' = autoInc, Fail(w)
               PROVE  LegacyInv'
  BY <1>FailLegacy, <1>ReturnLegacy, <1>RetryLegacy, Zenon DEF Fail
(* The commit of w, or its failure when it took effect. *)
<1>EffectStep. ASSUME ~replica, replica' = replica, autoInc' = autoInc, txn[w].pc = "commit",
                      log' = log \cup txn[w].entries, NEW t, Becomes(w, t), Plain(t)
               PROVE  LegacyInv'
  <2> USE <1>EffectStep
  <2>1. txn'[w] = t /\ \A v \in Writers \ {w} : txn'[v] = txn[v]
    BY BecomesTxn, Zenon DEF CallInv
  <2>2. autoInc \in Nat /\ Topped(Ids(log)) /\ \A v \in Writers : ShapeOK(txn[v], autoInc)
    BY Zenon DEF LegacyInv
  <2>3. Topped(Ids(log'))
    <3>1. Topped(Ids(txn[w].entries)) /\ Ids(log') = Ids(log) \cup Ids(txn[w].entries)
      BY <2>2, IdsUnion, Zenon DEF ShapeOK
    <3> QED
      BY <2>2, <3>1, ToppedUnion, Zenon
  <2>4. \A v \in Writers : ShapeOK(txn'[v], autoInc')
    BY <2>1, <2>2, PlainOK, Zenon
  <2>5. ASSUME autoInc = 0 PROVE \A v \in Writers : LegacyOK(txn'[v], MaxLogId')
    <3> SUFFICES ASSUME NEW v \in Writers PROVE LegacyOK(txn'[v], MaxLogId')
      BY Zenon
    <3>1. CASE v = w
      BY <2>1, <3>1, PlainOK, Zenon
    <3>2. CASE v # w /\ txn[v].pc \in {"write", "commit"}
      <4> DEFINE first == txn[v].snap[1].log
      <4>1. LegacyOK(txn[v], MaxLogId)
        BY <2>5, Zenon DEF LegacyInv
      <4>2. PICK last \in Nat :
              /\ first <= last
              /\ Ids(txn[v].entries) = first + 1 .. last
              /\ \A i \in DOMAIN txn[v].ids : txn[v].ids[i] = last + i
              /\ txn[v].pc = "commit" /\ first < last => first = MaxLogId
        BY <3>2, <4>1, Zenon DEF LegacyOK
      <4>3. /\ first \in 0 .. MaxLogId /\ MaxLogId \in Nat /\ MaxLogId' \in Nat /\ MaxLogId <= MaxLogId'
            /\ Ids(txn[w].entries) = MaxLogId + 1 .. MaxLogId'
        BY <2>5, <3>2, <4>1, EffectOnLog, Zenon DEF LegacyOK
      <4>4. first \in 0 .. MaxLogId'
        BY <4>3
      <4>5. ASSUME txn[v].pc = "commit", first < last PROVE first = MaxLogId'
        <5>1. first = MaxLogId
          BY <4>2, <4>5, Zenon
        <5>2. Ids(txn[v].entries) \cap Ids(txn[w].entries) = {}
          BY <2>5, <3>2, <4>5, Zenon DEF LegacyInv
        <5>3. MaxLogId + 1 \in Ids(txn[v].entries)
          BY <4>2, <4>3, <4>5, <5>1
        <5>4. MaxLogId + 1 \notin MaxLogId + 1 .. MaxLogId'
          BY <4>3, <5>2, <5>3, Zenon
        <5> QED
          BY <4>3, <5>1, <5>4
      <4>6. LegacyOK(txn[v], MaxLogId')
        BY <4>2, <4>4, <4>5, Zenon DEF LegacyOK
      <4> QED
        BY <2>1, <3>2, <4>6, Zenon
    <3>3. CASE v # w /\ txn[v].pc \notin {"write", "commit"}
      BY <2>1, <3>3, Zenon DEF LegacyOK
    <3> QED
      BY <3>1, <3>2, <3>3, Zenon
  <2>6. ASSUME autoInc = 0, NEW u \in Writers, NEW v \in Writers, u # v,
               txn'[u].pc = "commit", txn'[v].pc = "commit"
        PROVE  Ids(txn'[u].entries) \cap Ids(txn'[v].entries) = {}
    <3>1. u # w /\ v # w
      BY <2>1, <2>6, Zenon DEF Plain
    <3> QED
      BY <2>1, <2>6, <3>1, Zenon DEF LegacyInv
  <2>7. autoInc = 0 => Ids(log') = 1 .. MaxLogId'
    BY EffectOnLog, Zenon
  <2>8. Ids(log)' = Ids(log') /\ \A u \in Writers : Ids(txn[u].entries)' = Ids(txn'[u].entries)
    BY Zenon DEF Ids
  <2>9. Topped(Ids(log))' /\ \A v \in Writers : ShapeOK(txn[v], autoInc)'
    BY <2>3, <2>4, <2>8, Zenon DEF ShapeOK, Topped, Ids, IsSeq
  <2>10. ASSUME autoInc = 0 PROVE (\A v \in Writers : LegacyOK(txn[v], MaxLogId))'
    BY <2>5, <2>10, Zenon DEF LegacyOK, Ids
  <2> QED
    BY <2>2, <2>6, <2>7, <2>8, <2>9, <2>10, Zenon DEF LegacyInv
(* find_next_update_log_id: the ids follow the newest maximum. *)
<1>FindNextLegacy. ASSUME ~replica, FindNextUpdateLogId(w)
                   PROVE  LegacyInv'
  <2> USE <1>FindNextLegacy
  <2> DEFINE s == txn[w]
             ids == [i \in 1 .. Len(s.ops) |-> MaxLogId + i]
             t == [s EXCEPT !.pc = "write", !.snap = Snapshot, !.ids = ids, !.todo = s.ops]
  <2>1. Becomes(w, t) /\ s.pc = "max" /\ replica' = replica /\ log' = log /\ autoInc' = autoInc
    BY Zenon DEF FindNextUpdateLogId, tables, env
  <2>2. ShapeOK(s, autoInc) /\ DOMAIN s = Fields /\ autoInc \in Nat /\ Topped(Ids(log))
    BY Zenon DEF LegacyInv, CallInv, CallOK
  <2>3. MaxLogId \in Nat
    BY <2>2, TopOf, MaxLogIdIsTop, Zenon
  <2>4. IsSeq(s.ops) /\ s.entries = {} /\ ~s.locking
    BY <2>1, <2>2, Zenon DEF ShapeOK
  <2>5. Len(s.ops) \in Nat
    BY <2>4 DEF IsSeq
  <2>6. ids \in Seq(Nat) /\ Len(ids) = Len(s.ops) /\ DOMAIN ids = 1 .. Len(s.ops)
        /\ \A i \in DOMAIN ids : ids[i] = MaxLogId + i
    BY <2>3, <2>5
  <2>7. Snapshot[1].log = MaxLogId
    BY Zenon DEF Snapshot
  <2> HIDE DEF ids
  <2>8. /\ t.pc = "write" /\ t.snap = Snapshot /\ t.ids = ids /\ t.todo = s.ops
        /\ t.ops = s.ops /\ t.entries = s.entries /\ t.locking = s.locking
    BY <2>2, Zenon DEF Fields
  <2> HIDE DEF t, s
  <2>9. ShapeOK(t, autoInc)
    BY <2>3, <2>4, <2>6, <2>7, <2>8, ToppedEmpty, Zenon DEF ShapeOK
  <2>10. LegacyOK(t, MaxLogId)
    <3>1. MaxLogId + 1 .. MaxLogId = {} /\ MaxLogId \in 0 .. MaxLogId /\ MaxLogId <= MaxLogId /\ ~(MaxLogId < MaxLogId)
      BY <2>3
    <3> QED
      BY <2>3, <2>4, <2>6, <2>7, <2>8, <3>1, ToppedEmpty, Zenon DEF LegacyOK
  <2>11. autoInc' \in Nat /\ autoInc <= autoInc'
    BY <2>1, <2>2
  <2> QED
    BY <2>1, <2>8, <2>9, <2>10, <2>11, <1>QuietStep, Zenon
(* An operation takes the first of the ids that are left. *)
<1>WriteRowLegacy. ASSUME ~replica, WriteRow(w)
                   PROVE  LegacyInv'
  <2> USE <1>WriteRowLegacy
  <2> DEFINE s == txn[w]
             op == Head(s.todo)
             id == Head(s.ids)
             T(p) == [s EXCEPT !.todo = Tail(@), !.ids = Tail(@), !.entries = @ \cup {LogRow(op, id)}, !.pend = p]
  <2>1. s.pc = "write" /\ s.todo # <<>> /\ replica' = replica /\ log' = log /\ autoInc' = autoInc
    BY Zenon DEF WriteRow, tables, env
  <2>2. CASE Return(w, "null") \/ Return(w, "err")
    BY <2>1, <2>2, <1>ReturnLegacy, Zenon
  <2>3. CASE \E p : Becomes(w, T(p))
    <3>1. PICK p : Becomes(w, T(p))
      BY <2>3, Zenon
    <3> DEFINE t == T(p)
               row == LogRow(op, id)
    <3>2. ShapeOK(s, autoInc) /\ DOMAIN s = Fields /\ autoInc \in Nat /\ (autoInc = 0 => LegacyOK(s, MaxLogId))
      BY Zenon DEF LegacyInv, CallInv, CallOK
    <3>3. row.id = id
      BY Zenon DEF LogRow
    <3> HIDE DEF row, op
    <3>4. /\ t.pc = s.pc /\ t.snap = s.snap /\ t.ids = Tail(s.ids) /\ t.todo = Tail(s.todo)
          /\ t.ops = s.ops /\ t.entries = s.entries \cup {row} /\ t.locking = s.locking
      BY <3>2, Zenon DEF Fields, row
    <3>5. Becomes(w, t)
      BY <3>1, Zenon
    <3> HIDE DEF t
    <3>6. IsSeq(s.todo) /\ s.ids \in Seq(Nat) /\ Len(s.ids) = Len(s.todo) /\ Topped(Ids(s.entries))
      BY <2>1, <3>2, Zenon DEF ShapeOK
    <3>7. IsSeq(Tail(s.todo)) /\ Len(s.todo) \in Nat \ {0} /\ Len(Tail(s.todo)) = Len(s.todo) - 1
      BY <2>1, <3>6, TailIsSeq, Zenon
    <3>8. s.ids # <<>>
      BY <3>6, <3>7, Zenon
    <3>9. /\ Tail(s.ids) \in Seq(Nat) /\ Len(Tail(s.ids)) = Len(s.ids) - 1 /\ id \in Nat
          /\ \A i \in 1 .. Len(Tail(s.ids)) : Tail(s.ids)[i] = s.ids[i + 1]
      BY <3>6, <3>8
    <3>10. id = s.ids[1] /\ DOMAIN s.ids = 1 .. Len(s.ids) /\ DOMAIN Tail(s.ids) = 1 .. Len(Tail(s.ids))
      BY <3>6, <3>9
    <3> HIDE DEF id
    <3>11. Ids(t.entries) = Ids(s.entries) \cup {id}
      BY <3>3, <3>4, Zenon DEF Ids
    <3>12. Topped(Ids(t.entries))
      BY <3>6, <3>9, <3>11, ToppedUnion, ToppedSingle, ZenonT(30)
    <3> HIDE DEF s
    <3>13. ShapeOK(t, autoInc)
      BY <2>1, <3>2, <3>4, <3>6, <3>7, <3>9, <3>12, Zenon DEF ShapeOK
    <3>14. ASSUME autoInc = 0 PROVE LegacyOK(t, MaxLogId)
      <4> DEFINE first == s.snap[1].log
      <4>1. first \in 0 .. MaxLogId
        BY <2>1, <3>2, <3>14, Zenon DEF LegacyOK
      <4>2. PICK last \in Nat :
              first <= last /\ Ids(s.entries) = first + 1 .. last /\ \A i \in DOMAIN s.ids : s.ids[i] = last + i
        BY <2>1, <3>2, <3>14, Zenon DEF LegacyOK
      <4>3. id = last + 1
        <5>1. 1 \in DOMAIN s.ids
          BY <3>6, <3>8, <3>10
        <5> QED
          BY <3>10, <4>2, <5>1, Zenon
      <4>4. Ids(t.entries) = first + 1 .. last + 1 /\ first <= last + 1 /\ last + 1 \in Nat
        BY <3>11, <4>1, <4>2, <4>3
      <4>5. \A i \in DOMAIN Tail(s.ids) : Tail(s.ids)[i] = last + 1 + i
        <5> SUFFICES ASSUME NEW i \in 1 .. Len(Tail(s.ids)) PROVE Tail(s.ids)[i] = last + 1 + i
          BY <3>10, Zenon
        <5>1. i + 1 \in DOMAIN s.ids
          BY <3>6, <3>7, <3>9, <3>10
        <5>2. Tail(s.ids)[i] = s.ids[i + 1] /\ s.ids[i + 1] = last + (i + 1)
          BY <3>9, <4>2, <5>1, Zenon
        <5> QED
          BY <5>2
      <4> QED
        BY <2>1, <3>4, <4>1, <4>4, <4>5, Zenon DEF LegacyOK
    <3>15. autoInc' \in Nat /\ autoInc <= autoInc' /\ t.pc # "commit"
      BY <2>1, <3>2, <3>4
    <3> QED
      BY <2>1, <3>5, <3>13, <3>14, <3>15, <1>QuietStep, Zenon
  <2> QED
    BY <2>2, <2>3, Zenon DEF WriteRow
(* store_log: ids that are free belong to the newest maximum. *)
<1>StoreLogLegacy. ASSUME ~replica, StoreLog(w)
                   PROVE  LegacyInv'
  <2> USE <1>StoreLogLegacy
  <2> DEFINE s == txn[w]
             t == [s EXCEPT !.pc = "commit"]
  <2>1. s.pc = "write" /\ replica' = replica /\ log' = log /\ autoInc' = autoInc
    BY Zenon DEF StoreLog, tables, env
  <2>2. CASE Retry(w)
    BY <2>1, <2>2, <1>RetryLegacy, Zenon
  <2>3. CASE Becomes(w, t) /\ Ids(s.entries) \cap Ids(log) = {}
    <3>1. ShapeOK(s, autoInc) /\ DOMAIN s = Fields /\ autoInc \in Nat /\ (autoInc = 0 => LegacyOK(s, MaxLogId))
      BY Zenon DEF LegacyInv, CallInv, CallOK
    <3>2. /\ t.pc = "commit" /\ t.snap = s.snap /\ t.ids = s.ids /\ t.todo = s.todo
          /\ t.ops = s.ops /\ t.entries = s.entries /\ t.locking = s.locking
      BY <3>1, Zenon DEF Fields
    <3> HIDE DEF t
    <3>3. ShapeOK(t, autoInc)
      BY <2>1, <3>1, <3>2, Zenon DEF ShapeOK
    <3>4. ASSUME autoInc = 0 PROVE LegacyOK(t, MaxLogId)
      <4> DEFINE first == s.snap[1].log
      <4>1. first \in 0 .. MaxLogId /\ Ids(log) = 1 .. MaxLogId /\ Topped(Ids(log))
        BY <2>1, <3>1, <3>4, Zenon DEF LegacyOK, LegacyInv
      <4>2. MaxLogId \in Nat
        BY <4>1, TopOf, MaxLogIdIsTop, Zenon
      <4>3. PICK last \in Nat :
              first <= last /\ Ids(s.entries) = first + 1 .. last /\ \A i \in DOMAIN s.ids : s.ids[i] = last + i
        BY <2>1, <3>1, <3>4, Zenon DEF LegacyOK
      <4> HIDE DEF first
      <4>4. ASSUME first < last PROVE first = MaxLogId
        <5>1. first + 1 \in first + 1 .. last
          BY <4>1, <4>2, <4>4
        <5>2. first + 1 \notin 1 .. MaxLogId
          BY <2>3, <4>1, <4>3, <5>1, Zenon
        <5> QED
          BY <4>1, <4>2, <5>2
      <4> QED
        BY <3>2, <4>1, <4>3, <4>4, Zenon DEF LegacyOK, first
    <3>5. \A v \in Writers \ {w} : txn[v].pc = "commit" => Ids(s.entries) \cap Ids(txn[v].entries) = {}
      BY Zenon DEF StoreLog, WaitsForLog, Inserted, Ids
    <3>6. autoInc' \in Nat /\ autoInc <= autoInc'
      BY <2>1, <3>1
    <3> QED
      BY <2>1, <2>3, <3>2, <3>3, <3>4, <3>5, <3>6, <1>QuietStep, Zenon
  <2> QED
    BY <2>2, <2>3, Zenon DEF StoreLog, Ids
(* allocate_log_ids_from_sequence: the counter only grows, and nothing is  *)
(* written before it is positive.                                          *)
<1>SeedLegacy. ASSUME ~replica, SeedSequence(w)
               PROVE  LegacyInv'
  <2> USE <1>SeedLegacy
  <2> DEFINE s == txn[w]
             n == Snap(w)
             target == IF n.log > n.seq THEN n.log + 1 ELSE 0
             t == [s EXCEPT !.pc = "alloc", !.snap = <<n>>, !.pseq = target]
  <2>1. Becomes(w, t) /\ s.pc = "seed" /\ replica' = replica /\ log' = log /\ autoInc' = Max({autoInc, target})
    BY Zenon DEF SeedSequence, tables, env
  <2>2. Plain(s) /\ DOMAIN s = Fields /\ autoInc \in Nat
    BY <2>1, <1>OfPlain, Zenon DEF LegacyInv, CallInv, CallOK
  <2>3. n.log \in Nat
    BY SnapLog, Zenon
  <2>4. target \in Nat
    BY <2>3
  <2> HIDE DEF target, n
  <2>5. autoInc' \in Nat /\ autoInc <= autoInc'
    BY <2>1, <2>2, <2>4, MaxAtMost, Zenon
  <2>6. /\ t.pc = "alloc" /\ t.snap = <<n>> /\ t.ids = s.ids /\ t.todo = s.todo
        /\ t.ops = s.ops /\ t.entries = s.entries
    BY <2>2, Zenon DEF Fields
  <2> HIDE DEF t
  <2>7. Plain(t)
    BY <2>2, <2>3, <2>6, SMTT(30) DEF Plain
  <2> QED
    BY <2>1, <2>5, <2>7, <1>PlainStep, Zenon
(* Taking a value makes the counter positive. *)
<1>AllocateLegacy. ASSUME ~replica, AllocateLogId(w)
                   PROVE  LegacyInv'
  <2> USE <1>AllocateLegacy
  <2> DEFINE s == txn[w]
             ids == Append(s.ids, autoInc + 1)
             pc == IF Len(s.ids) + 1 = Len(s.todo) THEN "write" ELSE "alloc"
             t == [s EXCEPT !.ids = ids, !.pseq = autoInc + 1, !.pc = pc]
  <2>1. s.pc = "alloc" /\ replica' = replica /\ log' = log /\ autoInc' = autoInc + 1
    BY Zenon DEF AllocateLogId, tables, env
  <2>2. Plain(s) /\ DOMAIN s = Fields /\ autoInc \in Nat
    BY <2>1, <1>OfPlain, Zenon DEF LegacyInv, CallInv, CallOK
  <2>3. t = [s EXCEPT !.ids = Append(@, autoInc + 1), !.pseq = autoInc + 1, !.pc = pc]
    BY <2>2, Zenon DEF Fields
  <2>4. Becomes(w, t)
    BY <2>3, Zenon DEF AllocateLogId
  <2>5. ids \in Seq(Nat) /\ Len(ids) = Len(s.ids) + 1
    BY <2>2 DEF Plain
  <2>6. pc = "alloc" \/ (pc = "write" /\ Len(ids) = Len(s.todo))
    BY <2>5, Zenon
  <2> HIDE DEF ids, pc
  <2>7. /\ t.pc = pc /\ t.snap = s.snap /\ t.ids = ids /\ t.todo = s.todo
        /\ t.ops = s.ops /\ t.entries = s.entries
    BY <2>2, Zenon DEF Fields
  <2> HIDE DEF t
  <2>8. autoInc' \in Nat /\ autoInc <= autoInc' /\ autoInc' > 0 /\ autoInc' # 0
    BY <2>1, <2>2
  <2>9. ShapeOK(t, autoInc')
    BY <2>2, <2>5, <2>6, <2>7, <2>8, ToppedEmpty, Zenon DEF ShapeOK, Plain
  <2> QED
    BY <2>1, <2>4, <2>8, <2>9, <1>QuietStep, Zenon
(* The steps before the ids are taken. *)
<1>EarlyLegacy. ASSUME ~replica,
                       Submit(w) \/ SubmitLocked(w) \/ Answered(w) \/ StartAttempt(w) \/ AcquireLock(w)
                       \/ LockRowMissing(w) \/ CreateLockRow(w) \/ LocksHeld(w) \/ LockedCommit(w)
                PROVE  LegacyInv'
  <2> USE <1>EarlyLegacy
  <2> DEFINE s == txn[w]
  <2>0. replica' = replica /\ log' = log /\ autoInc' = autoInc
    BY ZenonT(30) DEF Submit, SubmitLocked, Answered, StartAttempt, AcquireLock, LockRowMissing, CreateLockRow, TakeLock, LocksHeld, LockedCommit, tables, env
  <2>1. autoInc' \in Nat /\ autoInc <= autoInc' /\ DOMAIN s = Fields
    BY <2>0 DEF LegacyInv, CallInv, CallOK
  <2>2. ASSUME NEW t, Becomes(w, t), Plain(t) PROVE LegacyInv'
    BY <2>0, <2>1, <2>2, <1>PlainStep, Zenon
  <2>3. s.pc \notin {"write", "commit"} => Plain(s)
    BY <1>OfPlain, Zenon
  <2>4. CASE Submit(w)
    <3> DEFINE T(ops) == [Fresh EXCEPT !.pc = "start", !.attempt = 1, !.ops = ops]
    <3>1. PICK ops \in Ops : Becomes(w, T(ops))
      BY <2>4, Zenon DEF Submit
    <3> DEFINE t == T(ops)
    <3>2. IsSeq(ops)
      BY BookmarkAssumption, SeqIsSeq, Zenon
    <3>3. /\ t.pc = "start" /\ t.snap = <<>> /\ t.ids = <<>> /\ t.todo = <<>>
          /\ t.ops = ops /\ t.entries = {} /\ t.locking = FALSE
      BY FreshFields, Zenon DEF Fields
    <3>4. Becomes(w, t)
      BY <3>1, Zenon
    <3> HIDE DEF t
    <3>5. Plain(t)
      BY <3>2, <3>3, EmptyIsSeq, Zenon DEF Plain
    <3> QED
      BY <2>2, <3>4, <3>5, Zenon
  <2>5. CASE SubmitLocked(w)
    <3> DEFINE T(n) == [Fresh EXCEPT !.pc = "lock", !.attempt = 1, !.locked = TRUE, !.locking = TRUE, !.wants = {n},
                                     !.ops = <<[kind |-> "update", name |-> n, old |-> NoCs, new |-> NoCs]>>]
    <3>1. PICK n \in Names : Becomes(w, T(n))
      BY <2>5, Zenon DEF SubmitLocked
    <3> DEFINE t == T(n)
               op == [kind |-> "update", name |-> n, old |-> NoCs, new |-> NoCs]
    <3>2. IsSeq(<<op>>)
      BY SingleIsSeq, Zenon
    <3>3. /\ t.pc = "lock" /\ t.snap = <<>> /\ t.ids = <<>> /\ t.todo = <<>>
          /\ t.ops = <<op>> /\ t.entries = {}
      BY FreshFields, Zenon DEF Fields
    <3>4. Becomes(w, t)
      BY <3>1, Zenon
    <3> HIDE DEF t, op
    <3>5. Plain(t)
      BY <3>2, <3>3, EmptyIsSeq, Zenon DEF Plain
    <3> QED
      BY <2>2, <3>4, <3>5, Zenon
  <2>6. CASE Answered(w)
    <3>1. Plain(Fresh)
      BY FreshFields, EmptyIsSeq, Zenon DEF Plain
    <3> QED
      BY <2>2, <2>6, <3>1, Zenon DEF Answered
  <2>7. CASE StartAttempt(w)
    <3> DEFINE t == [s EXCEPT !.pc = "lock", !.locking = TRUE, !.wants = BookmarkNames(s)]
               u == [s EXCEPT !.pc = "max"]
    <3>1. Plain(s) /\ (Becomes(w, t) \/ Becomes(w, u)) /\ s.pc = "start"
      BY <2>3, <2>7, Zenon DEF StartAttempt
    <3>2. /\ t.pc = "lock" /\ t.snap = s.snap /\ t.ids = s.ids /\ t.todo = s.todo
          /\ t.ops = s.ops /\ t.entries = s.entries
      BY <2>1, Zenon DEF Fields
    <3>3. /\ u.pc = "max" /\ u.snap = s.snap /\ u.ids = s.ids /\ u.todo = s.todo
          /\ u.ops = s.ops /\ u.entries = s.entries /\ u.locking = s.locking
      BY <2>1, Zenon DEF Fields
    <3> HIDE DEF t, u
    <3>4. Plain(t) /\ Plain(u)
      BY <3>1, <3>2, <3>3, Zenon DEF Plain
    <3> QED
      BY <2>2, <3>1, <3>4, Zenon
  <2>8. CASE AcquireLock(w) \/ LockRowMissing(w) \/ CreateLockRow(w)
    <3> DEFINE t == [s EXCEPT !.wants = @ \ {Min(s.wants)}]
               u == [s EXCEPT !.gaps = @ \cup {Min(s.wants)}]
    <3>1. s.pc = "lock" /\ (Becomes(w, t) \/ Becomes(w, u))
      BY <2>8, Zenon DEF AcquireLock, LockRowMissing, CreateLockRow, Creating, TakeLock
    <3>2. /\ t.pc = s.pc /\ t.snap = s.snap /\ t.ids = s.ids /\ t.todo = s.todo
          /\ t.ops = s.ops /\ t.entries = s.entries
      BY <2>1, Zenon DEF Fields
    <3>3. /\ u.pc = s.pc /\ u.snap = s.snap /\ u.ids = s.ids /\ u.todo = s.todo
          /\ u.ops = s.ops /\ u.entries = s.entries
      BY <2>1, Zenon DEF Fields
    <3> HIDE DEF t, u
    <3>4. Plain(t) /\ Plain(u)
      BY <2>3, <3>1, <3>2, <3>3, Zenon DEF Plain
    <3> QED
      BY <2>2, <3>1, <3>4, Zenon
  <2>9. CASE LocksHeld(w)
    <3> DEFINE t == [s EXCEPT !.pc = "held", !.snap = Snapshot]
               u == [s EXCEPT !.pc = "seed", !.todo = s.ops]
    <3>1. Plain(s) /\ (Becomes(w, t) \/ Becomes(w, u))
      BY <2>3, <2>9, Zenon DEF LocksHeld
    <3>2. /\ t.pc = "held" /\ t.snap = Snapshot /\ t.ids = s.ids /\ t.todo = s.todo
          /\ t.ops = s.ops /\ t.entries = s.entries
      BY <2>1, Zenon DEF Fields
    <3>3. /\ u.pc = "seed" /\ u.snap = s.snap /\ u.ids = s.ids /\ u.todo = s.ops
          /\ u.ops = s.ops /\ u.entries = s.entries
      BY <2>1, Zenon DEF Fields
    <3> HIDE DEF t, u
    <3>4. Plain(t) /\ Plain(u)
      BY <3>1, <3>2, <3>3, SnapLog, Zenon DEF Plain
    <3> QED
      BY <2>2, <3>1, <3>4, Zenon
  <2>10. CASE LockedCommit(w)
    <3>1. CASE Return(w, "err")
      BY <2>0, <3>1, <1>ReturnLegacy, Zenon
    <3> DEFINE T(x) == [s EXCEPT !.pc = "seed", !.todo = <<x>>]
    <3>2. CASE \E x : Becomes(w, T(x))
      <4>1. PICK x : Becomes(w, T(x))
        BY <3>2, Zenon
      <4> DEFINE t == T(x)
      <4>2. /\ t.pc = "seed" /\ t.snap = s.snap /\ t.ids = s.ids /\ t.todo = <<x>>
            /\ t.ops = s.ops /\ t.entries = s.entries
        BY <2>1, Zenon DEF Fields
      <4>3. Plain(s) /\ Becomes(w, t)
        BY <2>3, <2>10, <4>1, Zenon DEF LockedCommit
      <4> HIDE DEF t
      <4>4. Plain(t)
        BY <4>2, <4>3, SingleIsSeq, Zenon DEF Plain
      <4> QED
        BY <2>2, <4>3, <4>4, Zenon
    <3> QED
      BY <2>10, <3>1, <3>2, Zenon DEF LockedCommit
  <2> QED
    BY <2>4, <2>5, <2>6, <2>7, <2>8, <2>9, <2>10, Zenon
(* The steps with which a transaction ends. *)
<1>EndLegacy. ASSUME ~replica,
                     Commit(w) \/ CommitError(w) \/ StatementError(w) \/ HookError(w) \/ DeadlockVictim(w) \/ LockedRollback(w)
              PROVE  LegacyInv'
  <2> USE <1>EndLegacy
  <2>a. autoInc \in Nat /\ autoInc <= autoInc
    BY DEF LegacyInv
  <2>b. replica' = replica /\ autoInc' = autoInc
    BY Zenon DEF Commit, CommitError, StatementError, HookError, DeadlockVictim, LockedRollback, Fail, env
  <2>0. replica' = replica /\ autoInc' = autoInc /\ autoInc \in Nat /\ autoInc <= autoInc
    BY <2>a, <2>b, Zenon
  <2>1. CASE Commit(w)
    <3>1. Plain(Ended(txn[w].commits + 1, "some"))
      BY <1>EndedPlain, Zenon
    <3> QED
      BY <2>0, <2>1, <3>1, <1>EffectStep, Zenon DEF Commit, TakeEffect
  <2>2. CASE CommitError(w)
    <3>1. PICK a \in BOOLEAN :
            /\ IF a THEN TakeEffect(w) ELSE UNCHANGED tables
            /\ Becomes(w, Ended(txn[w].commits + (IF a THEN 1 ELSE 0), "err"))
      BY <2>2, Zenon DEF CommitError
    <3> DEFINE t == Ended(txn[w].commits + (IF a THEN 1 ELSE 0), "err")
    <3>2. Becomes(w, t) /\ Plain(t)
      BY <3>1, <1>EndedPlain, Zenon
    <3>3. txn[w].pc = "commit" /\ (log' = log \/ log' = log \cup txn[w].entries)
      BY <2>2, <3>1, Zenon DEF CommitError, TakeEffect, tables
    <3> HIDE DEF t
    <3> QED
      BY <2>0, <3>2, <3>3, <1>EffectStep, <1>PlainStep, ZenonT(30)
  <2>3. CASE StatementError(w) \/ DeadlockVictim(w)
    <3>1. Fail(w) /\ log' = log
      BY <2>3, Zenon DEF StatementError, DeadlockVictim, Fail, tables
    <3> QED
      BY <2>0, <3>1, <1>FailLegacy, Zenon
  <2>4. CASE HookError(w)
    <3>1. log' = log /\ (Retry(w) \/ \E o : Return(w, o))
      BY <2>4, Zenon DEF HookError, tables
    <3> QED
      BY <2>0, <3>1, <1>ReturnLegacy, <1>RetryLegacy, Zenon
  <2>5. CASE LockedRollback(w)
    <3>1. log' = log /\ Return(w, "null")
      BY <2>5, Zenon DEF LockedRollback, tables
    <3> QED
      BY <2>0, <3>1, <1>ReturnLegacy, Zenon
  <2> QED
    BY <2>1, <2>2, <2>3, <2>4, <2>5, Zenon
<1>1. CASE replica
  BY <1>1, StepReplica, Zenon DEF LegacyInv
<1>2. CASE ~replica
  <2>1. ~StoreMirrorBatch(w)
    BY <1>2, ZenonT(30) DEF StoreMirrorBatch, LegacyInv, ShapeOK
  <2> QED
    BY <1>2, <2>1, <1>EarlyLegacy, <1>SeedLegacy, <1>AllocateLegacy, <1>FindNextLegacy, <1>WriteRowLegacy, <1>StoreLogLegacy, Zenon,
       <1>EndLegacy DEF StoreStep
<1> QED
  BY <1>1, <1>2, Zenon

(* The steps of a behaviour, as the invariants see them. *)
LEMMA NextCases ==
  ASSUME [Next]_vars
  PROVE  \/ UNCHANGED <<txn, log, autoInc, replica, tail>>
         \/ UNCHANGED tail /\ \E w \in Writers : StoreStep(w)
         \/ UNCHANGED <<txn, log, autoInc, replica>> /\ ReadNextEntries
  BY Zenon DEF Next, StoreNext, FlipKnob, Subscribe, Refresh, ReadNextEntries, storeVars, vars, tables

(* In the beginning the log of a repository that is not a replica has the  *)
(* row 1, and no transaction runs.                                         *)
LEMMA InitLegacy == Init => CallInv /\ LegacyInv
<1> SUFFICES ASSUME Init PROVE CallInv /\ LegacyInv
  BY Zenon
<1>1. txn = [w \in Writers |-> Fresh] /\ autoInc = seqMax
  BY Zenon DEF Init, StoreInit
<1>2. CallInv
  BY <1>1, FreshFields, BookmarkAssumption DEF CallInv, CallOK, Outcomes
<1>3. ASSUME ~replica PROVE seqMax \in {0, 1} /\ Ids(log) = {1}
  <2>1. seqMax \in {0, 1} /\ \E n, c : log = {[id |-> 1, name |-> n, old |-> NoCs, new |-> c]}
    BY <1>3, Zenon DEF Init, StoreInit
  <2> QED
    BY <2>1 DEF Ids
<1>4. ASSUME ~replica PROVE Topped(Ids(log)) /\ Ids(log) = 1 .. MaxLogId
  <2>1. Ids(log) = 1 .. 1
    BY <1>3, <1>4
  <2> QED
    BY <2>1, TopOfInterval, MaxLogIdIsTop, Zenon
<1>5. Plain(Fresh) /\ Fresh.pc # "commit"
  BY FreshFields, EmptyIsSeq, Zenon DEF Plain
<1>6. \A w \in Writers : ShapeOK(txn[w], autoInc) /\ LegacyOK(txn[w], MaxLogId) /\ txn[w].pc # "commit"
  BY <1>1, <1>5, PlainOK, Zenon
<1>7. ~replica => autoInc \in Nat
  BY <1>1, <1>3
<1> QED
  BY <1>2, <1>4, <1>6, <1>7, Zenon DEF LegacyInv

(* Every step keeps both invariants. *)
LEMMA NextLegacy ==
  ASSUME CallInv, LegacyInv, [Next]_vars
  PROVE  CallInv' /\ LegacyInv'
(* Steps that touch neither the log nor a transaction keep it. *)
<1>LegacyUnchanged. ASSUME UNCHANGED <<txn, log, autoInc, replica>>
                    PROVE  LegacyInv'
  <2> USE <1>LegacyUnchanged
  <2>1. MaxLogId' = MaxLogId /\ Ids(log)' = Ids(log)
    BY MaxLogIdIsTop, Zenon
  <2>2. \A v \in Writers : Ids(txn[v].entries)' = Ids(txn[v].entries)
    BY Zenon DEF Ids
  <2>3. \A v \in Writers : ShapeOK(txn[v], autoInc)' = ShapeOK(txn[v], autoInc)
    BY <2>2, SMTT(30) DEF ShapeOK, Topped, IsSeq
  <2>4. \A v \in Writers : LegacyOK(txn[v], MaxLogId)' = LegacyOK(txn[v], MaxLogId)
    BY <2>1, <2>2, Zenon DEF LegacyOK
  <2>5. Topped(Ids(log))' = Topped(Ids(log))
    BY <2>1, Zenon DEF Topped
  <2> QED
    BY <2>1, <2>2, <2>3, <2>4, <2>5, Zenon DEF LegacyInv
<1>1. CASE UNCHANGED <<txn, log, autoInc, replica>>
  <2>1. CallInv'
    BY <1>1, Zenon DEF CallInv, CallOK
  <2> QED
    BY <1>1, <2>1, <1>LegacyUnchanged, Zenon
<1>2. CASE \E w \in Writers : StoreStep(w)
  BY <1>2, StepCall, StepLegacy, Zenon
<1> QED
  BY <1>1, <1>2, NextCases, Zenon

(* The log grows only when a transaction takes effect. *)
LEMMA StepLog ==
  ASSUME NEW w \in Writers, StoreStep(w)
  PROVE  log' = log \/ (txn[w].pc = "commit" /\ log' = log \cup txn[w].entries)
  BY Zenon DEF StoreStep, Submit, SubmitLocked, Answered, StartAttempt, AcquireLock, LockRowMissing, CreateLockRow, TakeLock, LocksHeld, LockedCommit,
         LockedRollback, SeedSequence, AllocateLogId, FindNextUpdateLogId, WriteRow, StoreLog, StoreMirrorBatch,
         Commit, CommitError, TakeEffect, StatementError, HookError, DeadlockVictim, Fail, tables

(* As long as every id came from MAX(id) + 1, rows are added behind the    *)
(* maximum, by any number of concurrent writers and whatever they retry.   *)
THEOREM LegacyCommitOrder == Spec => LegacyIdsInCommitOrder
<1>1. ASSUME CallInv, LegacyInv, [Next]_vars, autoInc = 0, ~replica, NEW e \in log' \ log, NEW x \in log
      PROVE  x.id < e.id
  <2>1. PICK w \in Writers : txn[w].pc = "commit" /\ log' = log \cup txn[w].entries
    BY <1>1, NextCases, StepLog, Zenon
  <2>2. /\ MaxLogId \in Nat /\ MaxLogId' \in Nat /\ Ids(log) = 1 .. MaxLogId
        /\ Ids(txn[w].entries) = MaxLogId + 1 .. MaxLogId'
    BY <1>1, <2>1, EffectOnLog, Zenon
  <2>3. x.id \in Ids(log) /\ e.id \in Ids(txn[w].entries)
    BY <1>1, <2>1, Zenon DEF Ids
  <2>4. x.id \in 1 .. MaxLogId /\ e.id \in MaxLogId + 1 .. MaxLogId'
    BY <2>2, <2>3, Zenon
  <2> HIDE DEF MaxLogId
  <2> QED
    BY <2>2, <2>4
<1>2. CallInv /\ LegacyInv /\ [Next]_vars =>
        [autoInc = 0 /\ ~replica => \A e \in log' \ log, x \in log : x.id < e.id]_vars
  BY <1>1, Zenon
<1>3. CallInv /\ LegacyInv /\ [Next]_vars => CallInv' /\ LegacyInv'
  BY NextLegacy, Zenon
<1> QED
  BY <1>2, <1>3, InitLegacy, PTL DEF Spec, LegacyIdsInCommitOrder

-----------------------------------------------------------------------------
(* Nothing has been read or written. *)
NoWork(t) ==
    t.ids = <<>> /\ t.todo = <<>> /\ t.pend = <<>> /\ t.entries = {} /\ t.snap = <<>> /\ t.pseq = 0

(* No SQL transaction is open. *)
Blank(t) == t.locking = FALSE /\ t.wants = {} /\ t.gaps = {} /\ NoWork(t)

SamePayload(s, t) == t.ops = s.ops /\ t.moves = s.moves /\ t.locked = s.locked
NoPayload(t) == t.ops = <<>> /\ t.moves = {} /\ t.locked = FALSE

LockedOp(n) == [kind |-> "update", name |-> n, old |-> NoCs, new |-> NoCs]

SameTables == bookmarks' = bookmarks /\ log' = log /\ seqMax' = seqMax /\ lockRows' = lockRows

(* A call begins, or the caller has its answer. *)
Begins(w, s, t) ==
    /\ s.pc \in {"idle", "done"} /\ Blank(t)
    /\ \/ t.pc = "idle" /\ NoPayload(t)
       \/ t.pc = "start" /\ t.locked = FALSE /\ ~replica /\ t.ops \in Ops /\ t.moves = {}
       \/ t.pc = "start" /\ t.locked = FALSE /\ replica /\ t.ops = <<>> /\ t.moves \in MirrorBatches
    /\ held' = held /\ overlap' = overlap /\ autoInc' = autoInc /\ SameTables

(* The transaction ends without effect: another attempt, or an answer. *)
Ends(w, s, t) ==
    /\ s.pc \notin {"idle", "done"} /\ Blank(t)
    /\ (t.pc = "start" /\ ~s.locked /\ SamePayload(s, t)) \/ (t.pc = "done" /\ NoPayload(t))
    /\ held' = Released(w) /\ overlap' = overlap /\ autoInc' = autoInc /\ SameTables

(* It takes effect. *)
Takes(w, s, t) ==
    /\ s.pc = "commit" /\ Blank(t) /\ t.pc = "done" /\ NoPayload(t)
    /\ held' = Released(w) /\ overlap' = overlap /\ autoInc' = autoInc
    /\ bookmarks' = View(w) /\ log' = log \cup s.entries /\ seqMax' = Max({seqMax, s.pseq})
    /\ lockRows' = lockRows \cup {n \in Names : held[n] = w}

(* It starts on the new path, or as a locked transaction. *)
StartsLocking(w, s, t) ==
    /\ \/ s.pc = "start" /\ SamePayload(s, t)
       \/ s.pc = "idle" /\ ~replica /\ t.locked = TRUE /\ t.moves = {} /\ \E n \in Names : t.ops = <<LockedOp(n)>>
    /\ t.pc = "lock" /\ t.locking = TRUE /\ t.wants = BookmarkNames(t) /\ t.gaps = {} /\ NoWork(t)
    /\ held' = held /\ autoInc' = autoInc /\ SameTables
    /\ ~overlap' => ~overlap /\ \A v \in Writers : txn[v].pc \in Running => txn[v].locking

(* It starts on the old path. *)
StartsLegacy(w, s, t) ==
    /\ s.pc = "start" /\ SamePayload(s, t)
    /\ t.pc = "max" /\ t.locking = FALSE /\ t.wants = {} /\ t.gaps = {} /\ NoWork(t)
    /\ held' = held /\ autoInc' = autoInc /\ SameTables
    /\ ~overlap' => ~overlap /\ \A v \in Writers : txn[v].pc \in Running => ~txn[v].locking

(* What the other steps of a transaction leave alone. *)
Within(s, t) == SamePayload(s, t) /\ t.locking = s.locking /\ overlap' = overlap /\ SameTables

(* A statement on the lock row that is next takes it, or finds it missing. *)
AsksLock(w, s, t) ==
    /\ s.pc = "lock" /\ s.wants # {} /\ autoInc' = autoInc /\ Within(s, t) /\ t.pc = "lock"
    /\ LET n == Min(s.wants)
       IN  \/ /\ held[n] = NoWriter /\ held' = [held EXCEPT ![n] = w]
              /\ n \in lockRows \/ WaitsForGaps(w, n) = {}
              /\ t.wants = s.wants \ {n} /\ t.gaps = s.gaps
           \/ ~LockRowExists(n) /\ held' = held /\ t.wants = s.wants /\ t.gaps = s.gaps \cup {n}
    /\ t.ids = s.ids /\ t.todo = s.todo /\ t.pend = s.pend /\ t.entries = s.entries /\ t.snap = s.snap /\ t.pseq = s.pseq

HasLocks(w, s, t) ==
    /\ s.pc = "lock" /\ s.wants = {} /\ held' = held /\ autoInc' = autoInc
    /\ Within(s, t) /\ t.wants = s.wants /\ t.gaps = s.gaps
    /\ \/ s.locked /\ t.pc = "held" /\ t.snap = Snapshot /\ t.todo = s.todo
       \/ ~s.locked /\ replica /\ t.pc = "mirror" /\ t.snap = Snapshot /\ t.todo = s.todo
       \/ ~s.locked /\ ~replica /\ t.pc = "seed" /\ t.snap = s.snap /\ t.todo = s.ops
    /\ t.ids = s.ids /\ t.pend = s.pend /\ t.entries = s.entries /\ t.pseq = s.pseq

CallerWrites(w, s, t) ==
    /\ s.pc = "held" /\ held' = held /\ autoInc' = autoInc
    /\ Within(s, t) /\ t.pc = "seed" /\ t.wants = s.wants /\ t.gaps = s.gaps
    /\ Snap(w).bookmarks[s.ops[1].name].cs # NoCs
    /\ \E new \in Changesets :
         t.todo = <<[s.ops[1] EXCEPT !.old = Snap(w).bookmarks[s.ops[1].name].cs, !.new = new]>>
    /\ t.ids = s.ids /\ t.pend = s.pend /\ t.entries = s.entries /\ t.snap = s.snap /\ t.pseq = s.pseq

Seeds(w, s, t, target) ==
    /\ s.pc = "seed" /\ held' = held /\ autoInc' = Max({autoInc, target})
    /\ target = IF Snap(w).log > Snap(w).seq THEN Snap(w).log + 1 ELSE 0
    /\ Within(s, t) /\ t.pc = "alloc" /\ t.wants = s.wants /\ t.gaps = s.gaps /\ t.snap = <<Snap(w)>> /\ t.pseq = target
    /\ t.ids = s.ids /\ t.todo = s.todo /\ t.pend = s.pend /\ t.entries = s.entries

Allocates(w, s, t) ==
    /\ s.pc = "alloc" /\ held' = held /\ autoInc' = autoInc + 1
    /\ Within(s, t) /\ t.pc \in {"alloc", "write"} /\ t.wants = s.wants /\ t.gaps = s.gaps
    /\ t.ids = Append(s.ids, autoInc + 1) /\ t.pseq = autoInc + 1
    /\ t.todo = s.todo /\ t.pend = s.pend /\ t.entries = s.entries /\ t.snap = s.snap

FindsNext(w, s, t) ==
    /\ s.pc = "max" /\ held' = held /\ autoInc' = autoInc
    /\ Within(s, t) /\ t.pc = (IF replica THEN "mirror" ELSE "write") /\ t.wants = s.wants /\ t.gaps = s.gaps
    /\ t.ids = [i \in 1 .. Len(s.ops) |-> MaxLogId + i] /\ t.todo = s.ops /\ t.snap = Snapshot
    /\ t.pend = s.pend /\ t.entries = s.entries /\ t.pseq = s.pseq

Writes(w, s, t) ==
    /\ s.pc = "write" /\ s.todo # <<>> /\ held' = held /\ autoInc' = autoInc
    /\ WaitsForRows(w, Head(s.todo).name, Head(s.ids)) = {}
    /\ Reply(View(w), Head(s.todo), Head(s.ids)) = "ok"
    /\ Within(s, t) /\ t.pc = "write" /\ t.wants = s.wants /\ t.gaps = s.gaps /\ t.snap = s.snap /\ t.pseq = s.pseq
    /\ t.todo = Tail(s.todo) /\ t.ids = Tail(s.ids) /\ t.entries = s.entries \cup {LogRow(Head(s.todo), Head(s.ids))}
    /\ LET rows == Written(View(w), Head(s.todo), Head(s.ids))
       IN  t.pend = [n \in Changed(w, rows) \cup {Head(s.todo).name} |-> rows[n]]

Logs(w, s, t) ==
    /\ s.pc = "write" /\ s.todo = <<>> /\ held' = held /\ autoInc' = autoInc
    /\ WaitsForLog(w, s.entries) = {} /\ Ids(s.entries) \cap Ids(log) = {}
    /\ Within(s, t) /\ t.pc = "commit" /\ t.wants = s.wants /\ t.gaps = s.gaps
    /\ t.ids = s.ids /\ t.todo = s.todo /\ t.pend = s.pend /\ t.entries = s.entries /\ t.snap = s.snap /\ t.pseq = s.pseq

Mirrors(w, s, t) ==
    LET last == Source[Max(s.moves)]
        left == Unapplied(s.moves, Snap(w).bookmarks[last.name].log_id)
    IN  /\ s.pc = "mirror" /\ left # {} /\ held' = held /\ autoInc' = autoInc
        /\ WaitsForRows(w, last.name, last.log_id) = {} /\ WaitsForLog(w, MirrorRows(left)) = {}
        /\ View(w)[last.name].cs = Source[Min(left)].old /\ Ids(MirrorRows(left)) \cap Ids(log) = {}
        /\ Within(s, t) /\ t.pc = "commit" /\ t.wants = s.wants /\ t.gaps = s.gaps
        /\ t.entries = MirrorRows(left)
        /\ t.pend = [m \in {last.name} |-> [cs |-> last.new, log_id |-> last.log_id]]
        /\ t.ids = s.ids /\ t.todo = s.todo /\ t.snap = s.snap /\ t.pseq = s.pseq

Described(w, s, t) ==
    \/ Begins(w, s, t) \/ Ends(w, s, t) \/ Takes(w, s, t) \/ StartsLocking(w, s, t) \/ StartsLegacy(w, s, t)
    \/ AsksLock(w, s, t) \/ HasLocks(w, s, t) \/ CallerWrites(w, s, t) \/ (\E target : Seeds(w, s, t, target))
    \/ Allocates(w, s, t) \/ FindsNext(w, s, t) \/ Writes(w, s, t) \/ Logs(w, s, t) \/ Mirrors(w, s, t)

-----------------------------------------------------------------------------
(* The fields of a record no call uses. *)
LEMMA FreshBlank == Blank(Fresh) /\ NoPayload(Fresh) /\ Fresh.pc = "idle" /\ DOMAIN Fresh = Fields
  BY ZenonT(30) DEF Fresh, Blank, NoWork, NoPayload, Fields

(* Each step of w is one of those described, and changes its record only. *)
LEMMA StepDescribed ==
  ASSUME CallInv, NEW w \in Writers, StoreStep(w), \A v \in Writers : txn[v].locking \in BOOLEAN,
         txn[w].pc = "start" => Blank(txn[w])
  PROVE  Described(w, txn[w], txn'[w]) /\ replica' = replica /\ \A v \in Writers \ {w} : txn'[v] = txn[v]
(* ... of a call that is over. *)
<1>EndedBlank. ASSUME NEW c, NEW o
               PROVE  Blank(Ended(c, o)) /\ NoPayload(Ended(c, o)) /\ Ended(c, o).pc = "done"
  <2> USE <1>EndedBlank
  <2> DEFINE t == Ended(c, o)
  <2>1. /\ t.pc = "done" /\ t.ops = Fresh.ops /\ t.moves = Fresh.moves /\ t.locked = Fresh.locked
        /\ t.locking = Fresh.locking /\ t.wants = Fresh.wants /\ t.gaps = Fresh.gaps /\ t.ids = Fresh.ids /\ t.todo = Fresh.todo
        /\ t.pend = Fresh.pend /\ t.entries = Fresh.entries /\ t.snap = Fresh.snap /\ t.pseq = Fresh.pseq
    BY FreshBlank, Zenon DEF Ended, Fields
  <2> HIDE DEF t
  <2>2. Blank(t) /\ NoPayload(t) /\ t.pc = "done"
    BY <2>1, FreshBlank, Zenon DEF Blank, NoWork, NoPayload
  <2> QED
    BY <2>2, Zenon DEF t
(* ... and of the next attempt. *)
<1>AgainBlank. ASSUME NEW s, DOMAIN s = Fields
               PROVE  Blank(Again(s)) /\ SamePayload(s, Again(s)) /\ Again(s).pc = "start"
  <2> USE <1>AgainBlank
  <2> DEFINE c == Cleared(s, "start")
             t == Again(s)
  <2>1. /\ DOMAIN c = Fields /\ c.pc = "start" /\ c.ops = s.ops /\ c.moves = s.moves /\ c.locked = s.locked
        /\ c.locking = FALSE /\ c.wants = {} /\ c.gaps = {} /\ c.ids = <<>> /\ c.todo = <<>>
        /\ c.pend = <<>> /\ c.entries = {} /\ c.snap = <<>> /\ c.pseq = 0
    BY Zenon DEF Cleared, Fields
  <2> HIDE DEF c
  <2>2. /\ t.pc = c.pc /\ t.ops = c.ops /\ t.moves = c.moves /\ t.locked = c.locked
        /\ t.locking = c.locking /\ t.wants = c.wants /\ t.gaps = c.gaps /\ t.ids = c.ids /\ t.todo = c.todo
        /\ t.pend = c.pend /\ t.entries = c.entries /\ t.snap = c.snap /\ t.pseq = c.pseq
    BY <2>1, Zenon DEF Again, Fields, c
  <2> HIDE DEF t
  <2>3. Blank(t) /\ SamePayload(s, t) /\ t.pc = "start"
    BY <2>1, <2>2, Zenon DEF Blank, NoWork, SamePayload
  <2> QED
    BY <2>3, Zenon DEF t
(* A return, a retry and a failed statement end the transaction. *)
<1>ReturnEnds. ASSUME NEW o, Return(w, o), txn[w].pc \notin {"idle", "done"}, overlap' = overlap,
                      autoInc' = autoInc, SameTables
               PROVE  Ends(w, txn[w], txn'[w])
  <2> USE <1>ReturnEnds
  <2>1. txn'[w] = Ended(txn[w].commits, o) /\ held' = Released(w)
    BY BecomesTxn, Zenon DEF Return, CallInv
  <2> QED
    BY <2>1, <1>EndedBlank, Zenon DEF Ends
(* A retry, or the error of the last one, drops the transaction.           *)
<1>RetryEnds. ASSUME Retry(w), txn[w].pc \notin {"idle", "done"}, overlap' = overlap, autoInc' = autoInc,
                     SameTables
              PROVE  Ends(w, txn[w], txn'[w])
  <2> USE <1>RetryEnds
  <2>1. CASE Return(w, "err")
    BY <2>1, <1>ReturnEnds, Zenon
  <2>2. CASE ~txn[w].locked /\ Becomes(w, Again(txn[w])) /\ held' = Released(w)
    <3>1. txn'[w] = Again(txn[w]) /\ DOMAIN txn[w] = Fields
      BY <2>2, BecomesTxn, Zenon DEF CallInv, CallOK
    <3> QED
      BY <2>2, <3>1, <1>AgainBlank, Zenon DEF Ends
  <2> QED
    BY <2>1, <2>2, Zenon DEF Retry, Again
(* A failed statement rolls the transaction back, whatever comes next.     *)
<1>FailEnds. ASSUME Fail(w), txn[w].pc \notin {"idle", "done"}
             PROVE  Ends(w, txn[w], txn'[w])
  <2> USE <1>FailEnds
  <2>1. overlap' = overlap /\ autoInc' = autoInc /\ SameTables
    BY Zenon DEF Fail, tables, SameTables
  <2> QED
    BY <2>1, <1>ReturnEnds, <1>RetryEnds, Zenon DEF Fail
(* A call begins. *)
<1>SubmitBegins. ASSUME Submit(w)
                 PROVE  Begins(w, txn[w], txn'[w])
  <2> USE <1>SubmitBegins
  <2>1. txn[w].pc = "idle" /\ held' = held /\ overlap' = overlap /\ autoInc' = autoInc /\ SameTables
    BY Zenon DEF Submit, tables, SameTables
  <2>2. ASSUME NEW ops, NEW moves, NEW t, t.pc = "start", t.ops = ops, t.moves = moves, t.locked = FALSE,
               t.locking = Fresh.locking, t.wants = Fresh.wants, t.gaps = Fresh.gaps, t.ids = Fresh.ids, t.todo = Fresh.todo,
               t.pend = Fresh.pend, t.entries = Fresh.entries, t.snap = Fresh.snap, t.pseq = Fresh.pseq
        PROVE  Blank(t)
    BY <2>2, FreshBlank, Zenon DEF Blank, NoWork
  <2>3. Fresh.locked = FALSE /\ Fresh.ops = <<>> /\ Fresh.moves = {}
    BY FreshBlank, Zenon DEF NoPayload
  <2>4. CASE ~replica /\ \E ops \in Ops : Becomes(w, [Fresh EXCEPT !.pc = "start", !.attempt = 1, !.ops = ops])
    <3>1. PICK ops \in Ops : txn'[w] = [Fresh EXCEPT !.pc = "start", !.attempt = 1, !.ops = ops]
      BY <2>4, BecomesTxn, Zenon DEF CallInv
    <3> DEFINE t == [Fresh EXCEPT !.pc = "start", !.attempt = 1, !.ops = ops]
    <3>2. /\ t.pc = "start" /\ t.ops = ops /\ t.moves = Fresh.moves /\ t.locked = Fresh.locked
          /\ t.locking = Fresh.locking /\ t.wants = Fresh.wants /\ t.gaps = Fresh.gaps /\ t.ids = Fresh.ids /\ t.todo = Fresh.todo
          /\ t.pend = Fresh.pend /\ t.entries = Fresh.entries /\ t.snap = Fresh.snap /\ t.pseq = Fresh.pseq
      BY FreshBlank, Zenon DEF Fields
    <3> HIDE DEF t
    <3>3. Blank(t)
      BY <2>2, <2>3, <3>2, Zenon
    <3>4. txn'[w] = t
      BY <3>1, Zenon DEF t
    <3> QED
      BY <2>1, <2>3, <2>4, <3>2, <3>3, <3>4, Zenon DEF Begins
  <2>5. CASE replica /\ \E moves \in MirrorBatches : Becomes(w, [Fresh EXCEPT !.pc = "start", !.attempt = 1, !.moves = moves])
    <3>1. PICK moves \in MirrorBatches : txn'[w] = [Fresh EXCEPT !.pc = "start", !.attempt = 1, !.moves = moves]
      BY <2>5, BecomesTxn, Zenon DEF CallInv
    <3> DEFINE t == [Fresh EXCEPT !.pc = "start", !.attempt = 1, !.moves = moves]
    <3>2. /\ t.pc = "start" /\ t.ops = Fresh.ops /\ t.moves = moves /\ t.locked = Fresh.locked
          /\ t.locking = Fresh.locking /\ t.wants = Fresh.wants /\ t.gaps = Fresh.gaps /\ t.ids = Fresh.ids /\ t.todo = Fresh.todo
          /\ t.pend = Fresh.pend /\ t.entries = Fresh.entries /\ t.snap = Fresh.snap /\ t.pseq = Fresh.pseq
      BY FreshBlank, Zenon DEF Fields
    <3> HIDE DEF t
    <3>3. Blank(t)
      BY <2>2, <2>3, <3>2, Zenon
    <3>4. txn'[w] = t
      BY <3>1, Zenon DEF t
    <3> QED
      BY <2>1, <2>3, <2>5, <3>2, <3>3, <3>4, Zenon DEF Begins
  <2> QED
    BY <2>4, <2>5, Zenon DEF Submit
(* The record of a writer after a step of its transaction. *)
<1>SubmitLockedStarts. ASSUME SubmitLocked(w)
                       PROVE  StartsLocking(w, txn[w], txn'[w])
  <2> USE <1>SubmitLockedStarts
  <2> DEFINE T(n) == [Fresh EXCEPT !.pc = "lock", !.attempt = 1, !.locked = TRUE, !.locking = TRUE, !.wants = {n},
                                   !.ops = <<[kind |-> "update", name |-> n, old |-> NoCs, new |-> NoCs]>>]
  <2>1. PICK n \in Names : txn'[w] = T(n)
    BY BecomesTxn, ZenonT(60) DEF SubmitLocked, CallInv
  <2>2. txn[w].pc = "idle" /\ ~replica /\ held' = held /\ autoInc' = autoInc /\ SameTables
    BY Zenon DEF SubmitLocked, tables, SameTables
  <2>3. ~overlap' => ~overlap /\ \A v \in Writers : txn[v].pc \in Running => txn[v].locking
    BY Zenon DEF SubmitLocked
  <2> DEFINE t == T(n)
  <2>4. /\ t.pc = "lock" /\ t.locked = TRUE /\ t.locking = TRUE /\ t.wants = {n} /\ t.gaps = Fresh.gaps /\ t.ops = <<LockedOp(n)>>
        /\ t.moves = Fresh.moves /\ t.ids = Fresh.ids /\ t.todo = Fresh.todo /\ t.pend = Fresh.pend
        /\ t.entries = Fresh.entries /\ t.snap = Fresh.snap /\ t.pseq = Fresh.pseq
    BY FreshBlank, ZenonT(30) DEF Fields, LockedOp
  <2> HIDE DEF t
  <2>5. NoWork(t) /\ t.moves = {} /\ t.gaps = {}
    BY <2>4, FreshBlank, Zenon DEF NoWork, Blank, NoPayload
  <2>6. BookmarkNames(t) = {n}
    <3>1. LockedOp(n).name = n
      BY Zenon DEF LockedOp
    <3> HIDE DEF LockedOp
    <3> QED
      BY <2>4, <2>5, <3>1 DEF BookmarkNames
  <2>7. txn'[w] = t
    BY <2>1, Zenon DEF t
  <2> QED
    BY <2>2, <2>3, <2>4, <2>5, <2>6, <2>7, Zenon DEF StartsLocking
(* An attempt starts on the locking path or on the legacy one.             *)
<1>StartAttemptStarts. ASSUME StartAttempt(w), Blank(txn[w])
                       PROVE  StartsLocking(w, txn[w], txn'[w]) \/ StartsLegacy(w, txn[w], txn'[w])
  <2> USE <1>StartAttemptStarts
  <2> DEFINE s == txn[w]
             a == [s EXCEPT !.pc = "lock", !.locking = TRUE, !.wants = BookmarkNames(s)]
             b == [s EXCEPT !.pc = "max"]
  <2>1. s.pc = "start" /\ held' = held /\ autoInc' = autoInc /\ SameTables /\ DOMAIN s = Fields
    BY Zenon DEF StartAttempt, tables, SameTables, CallInv, CallOK
  <2>2. ~overlap' => ~overlap /\ \A v \in Writers : txn[v].pc \in Running => txn[v].locking = knob
    BY Zenon DEF StartAttempt
  <2>3. CASE knob /\ txn'[w] = a
    <3>1. /\ a.pc = "lock" /\ a.locking = TRUE /\ a.wants = BookmarkNames(s) /\ a.gaps = s.gaps /\ SamePayload(s, a)
          /\ a.ids = s.ids /\ a.todo = s.todo /\ a.pend = s.pend /\ a.entries = s.entries /\ a.snap = s.snap /\ a.pseq = s.pseq
      BY <2>1, Zenon DEF Fields, SamePayload
    <3> HIDE DEF a
    <3>2. NoWork(a) /\ a.gaps = {}
      BY <3>1, Zenon DEF NoWork, Blank
    <3>3. BookmarkNames(a) = BookmarkNames(s)
      BY <3>1, ZenonT(30) DEF BookmarkNames, SamePayload
    <3>4. ~overlap' => ~overlap /\ \A v \in Writers : txn[v].pc \in Running => txn[v].locking
      BY <2>2, <2>3, Zenon
    <3> QED
      BY <2>1, <2>3, <3>1, <3>2, <3>3, <3>4, Zenon DEF StartsLocking
  <2>4. CASE ~knob /\ txn'[w] = b
    <3>1. /\ b.pc = "max" /\ b.locking = s.locking /\ b.wants = s.wants /\ b.gaps = s.gaps /\ SamePayload(s, b)
          /\ b.ids = s.ids /\ b.todo = s.todo /\ b.pend = s.pend /\ b.entries = s.entries /\ b.snap = s.snap /\ b.pseq = s.pseq
      BY <2>1, Zenon DEF Fields, SamePayload
    <3> HIDE DEF b
    <3>2. NoWork(b) /\ b.locking = FALSE /\ b.wants = {} /\ b.gaps = {}
      BY <3>1, Zenon DEF NoWork, Blank
    <3>3. ~overlap' => ~overlap /\ \A v \in Writers : txn[v].pc \in Running => ~txn[v].locking
      BY <2>2, <2>4, Zenon
    <3> QED
      BY <2>1, <2>4, <3>1, <3>2, <3>3, Zenon DEF StartsLegacy
  <2> QED
    BY <2>3, <2>4, BecomesTxn, Zenon DEF StartAttempt, CallInv
(* acquire_bookmark_locks takes the first lock still asked for ...         *)
<1>TakeAsksLock. ASSUME AcquireLock(w) \/ CreateLockRow(w)
                 PROVE  AsksLock(w, txn[w], txn'[w])
  <2> USE <1>TakeAsksLock
  <2> DEFINE s == txn[w]
             n == Min(s.wants)
             t == [s EXCEPT !.wants = @ \ {n}]
  <2>0. s.pc = "lock" /\ s.wants # {} /\ TakeLock(w, n) /\ (n \in lockRows \/ WaitsForGaps(w, n) = {})
    BY Zenon DEF AcquireLock, CreateLockRow, Creating
  <2>1. /\ held[n] = NoWriter /\ held' = [held EXCEPT ![n] = w] /\ autoInc' = autoInc
        /\ overlap' = overlap /\ SameTables /\ DOMAIN s = Fields
    BY <2>0, Zenon DEF TakeLock, tables, SameTables, CallInv, CallOK
  <2>2. txn'[w] = t
    BY <2>0, BecomesTxn, Zenon DEF TakeLock, CallInv
  <2>3. /\ t.pc = s.pc /\ t.locking = s.locking /\ t.wants = s.wants \ {n} /\ t.gaps = s.gaps /\ SamePayload(s, t)
        /\ t.ids = s.ids /\ t.todo = s.todo /\ t.pend = s.pend /\ t.entries = s.entries /\ t.snap = s.snap /\ t.pseq = s.pseq
    BY <2>1, Zenon DEF Fields, SamePayload
  <2> HIDE DEF t
  <2> QED
    BY <2>0, <2>1, <2>2, <2>3, Zenon DEF AsksLock, Within
(* ... or finds that its row is not there.                                 *)
<1>MissingAsksLock. ASSUME LockRowMissing(w)
                    PROVE  AsksLock(w, txn[w], txn'[w])
  <2> USE <1>MissingAsksLock
  <2> DEFINE s == txn[w]
             n == Min(s.wants)
             t == [s EXCEPT !.gaps = @ \cup {n}]
  <2>1. /\ s.pc = "lock" /\ s.wants # {} /\ ~LockRowExists(n) /\ held' = held /\ autoInc' = autoInc
        /\ overlap' = overlap /\ SameTables /\ DOMAIN s = Fields
    BY Zenon DEF LockRowMissing, tables, SameTables, CallInv, CallOK
  <2>2. txn'[w] = t
    BY BecomesTxn, Zenon DEF LockRowMissing, CallInv
  <2>3. /\ t.pc = s.pc /\ t.locking = s.locking /\ t.wants = s.wants /\ t.gaps = s.gaps \cup {n} /\ SamePayload(s, t)
        /\ t.ids = s.ids /\ t.todo = s.todo /\ t.pend = s.pend /\ t.entries = s.entries /\ t.snap = s.snap /\ t.pseq = s.pseq
    BY <2>1, Zenon DEF Fields, SamePayload
  <2> HIDE DEF t
  <2> QED
    BY <2>1, <2>2, <2>3, Zenon DEF AsksLock, Within
(* With every lock held: the caller, the mirrored moves or the log ids.    *)
<1>LocksHeldHasLocks. ASSUME LocksHeld(w)
                      PROVE  HasLocks(w, txn[w], txn'[w])
  <2> USE <1>LocksHeldHasLocks
  <2> DEFINE s == txn[w]
             a == [s EXCEPT !.pc = "held", !.snap = Snapshot]
             b == [s EXCEPT !.pc = "mirror", !.snap = Snapshot]
             c == [s EXCEPT !.pc = "seed", !.todo = s.ops]
  <2>1. /\ s.pc = "lock" /\ s.wants = {} /\ held' = held /\ autoInc' = autoInc
        /\ overlap' = overlap /\ SameTables /\ DOMAIN s = Fields
    BY Zenon DEF LocksHeld, tables, SameTables, CallInv, CallOK
  <2>2. CASE s.locked /\ txn'[w] = a
    <3>1. /\ a.pc = "held" /\ a.locking = s.locking /\ a.wants = s.wants /\ a.gaps = s.gaps /\ SamePayload(s, a)
          /\ a.ids = s.ids /\ a.todo = s.todo /\ a.pend = s.pend /\ a.entries = s.entries /\ a.snap = Snapshot /\ a.pseq = s.pseq
      BY <2>1, Zenon DEF Fields, SamePayload
    <3> HIDE DEF a
    <3> QED
      BY <2>1, <2>2, <3>1, Zenon DEF HasLocks, Within
  <2>3. CASE ~s.locked /\ replica /\ txn'[w] = b
    <3>1. /\ b.pc = "mirror" /\ b.locking = s.locking /\ b.wants = s.wants /\ b.gaps = s.gaps /\ SamePayload(s, b)
          /\ b.ids = s.ids /\ b.todo = s.todo /\ b.pend = s.pend /\ b.entries = s.entries /\ b.snap = Snapshot /\ b.pseq = s.pseq
      BY <2>1, Zenon DEF Fields, SamePayload
    <3> HIDE DEF b
    <3> QED
      BY <2>1, <2>3, <3>1, Zenon DEF HasLocks, Within
  <2>4. CASE ~s.locked /\ ~replica /\ txn'[w] = c
    <3>1. /\ c.pc = "seed" /\ c.locking = s.locking /\ c.wants = s.wants /\ c.gaps = s.gaps /\ SamePayload(s, c)
          /\ c.ids = s.ids /\ c.todo = s.ops /\ c.pend = s.pend /\ c.entries = s.entries /\ c.snap = s.snap /\ c.pseq = s.pseq
      BY <2>1, Zenon DEF Fields, SamePayload
    <3> HIDE DEF c
    <3> QED
      BY <2>1, <2>4, <3>1, Zenon DEF HasLocks, Within
  <2> QED
    BY <2>2, <2>3, <2>4, BecomesTxn, Zenon DEF LocksHeld, CallInv
(* The caller, under its lock, ends the call or chooses the moves to write. *)
<1>LockedCommitDescribed. ASSUME LockedCommit(w)
                          PROVE  Ends(w, txn[w], txn'[w]) \/ CallerWrites(w, txn[w], txn'[w])
  <2> USE <1>LockedCommitDescribed
  <2> DEFINE s == txn[w]
             old == Snap(w).bookmarks[s.ops[1].name].cs
             X(new) == <<[s.ops[1] EXCEPT !.old = old, !.new = new]>>
             T(x) == [s EXCEPT !.pc = "seed", !.todo = x]
  <2>1. s.pc = "held" /\ autoInc' = autoInc /\ overlap' = overlap /\ SameTables /\ DOMAIN s = Fields
    BY Zenon DEF LockedCommit, tables, SameTables, CallInv, CallOK
  <2>2. CASE Return(w, "err")
    BY <2>1, <2>2, <1>ReturnEnds, Zenon
  <2>3. CASE old # NoCs /\ held' = held /\ \E new \in Changesets : Becomes(w, T(X(new)))
    <3>1. PICK new \in Changesets : Becomes(w, T(X(new)))
      BY <2>3, Zenon
    <3> DEFINE x == X(new)
               t == T(x)
    <3> HIDE DEF x
    <3>2. /\ t.pc = "seed" /\ t.locking = s.locking /\ t.wants = s.wants /\ t.gaps = s.gaps /\ SamePayload(s, t)
          /\ t.ids = s.ids /\ t.todo = x /\ t.pend = s.pend /\ t.entries = s.entries /\ t.snap = s.snap /\ t.pseq = s.pseq
      BY <2>1, Zenon DEF Fields, SamePayload
    <3>3. txn'[w] = t
      BY <3>1, BecomesTxn DEF CallInv, x
    <3> HIDE DEF t
    <3>4. \E c \in Changesets : t.todo = <<[s.ops[1] EXCEPT !.old = old, !.new = c]>>
      BY <3>2, Zenon DEF x
    <3> QED
      BY <2>1, <2>3, <3>2, <3>3, <3>4, Zenon DEF CallerWrites, Within
  <2> QED
    BY <2>2, <2>3, Zenon DEF LockedCommit
(* Seeding raises the sequence above the log that the transaction reads.   *)
<1>SeedSeeds. ASSUME SeedSequence(w)
              PROVE  \E target : Seeds(w, txn[w], txn'[w], target)
  <2> USE <1>SeedSeeds
  <2> DEFINE s == txn[w]
             n == Snap(w)
             g == IF n.log > n.seq THEN n.log + 1 ELSE 0
             T(x, p) == [s EXCEPT !.pc = "alloc", !.snap = x, !.pseq = p]
  <2>1. /\ s.pc = "seed" /\ held' = held /\ autoInc' = Max({autoInc, g}) /\ overlap' = overlap
        /\ SameTables /\ DOMAIN s = Fields /\ txn'[w] = T(<<n>>, g)
    BY BecomesTxn DEF SeedSequence, tables, SameTables, CallInv, CallOK
  <2>2. PICK target : target = g
    BY Zenon
  <2>3. PICK x : x = <<Snap(w)>>
    BY Zenon
  <2> DEFINE t == T(x, target)
  <2>4. /\ t.pc = "alloc" /\ t.locking = s.locking /\ t.wants = s.wants /\ t.gaps = s.gaps /\ SamePayload(s, t)
        /\ t.ids = s.ids /\ t.todo = s.todo /\ t.pend = s.pend /\ t.entries = s.entries /\ t.snap = x /\ t.pseq = target
    BY <2>1, Zenon DEF Fields, SamePayload
  <2>5. txn'[w] = t
    BY <2>1, <2>2, <2>3, Zenon
  <2> HIDE DEF t
  <2> QED
    BY <2>1, <2>2, <2>3, <2>4, <2>5, Zenon DEF Seeds, Within
(* allocate_log_ids hands the transaction its log ids.                     *)
<1>AllocateAllocates. ASSUME AllocateLogId(w)
                      PROVE  Allocates(w, txn[w], txn'[w])
  <2> USE <1>AllocateAllocates
  <2> DEFINE s == txn[w]
             T(i, c) == [s EXCEPT !.ids = Append(@, i), !.pseq = i, !.pc = c]
  <2>1. /\ s.pc = "alloc" /\ held' = held /\ autoInc' = autoInc + 1 /\ overlap' = overlap
        /\ SameTables /\ DOMAIN s = Fields
    BY Zenon DEF AllocateLogId, tables, SameTables, CallInv, CallOK
  <2>2. PICK c \in {"alloc", "write"} : txn'[w] = T(autoInc + 1, c)
    BY BecomesTxn, Zenon DEF AllocateLogId, CallInv
  <2> DEFINE t == T(autoInc + 1, c)
  <2>3. /\ t.pc = c /\ t.locking = s.locking /\ t.wants = s.wants /\ t.gaps = s.gaps /\ SamePayload(s, t)
        /\ t.ids = Append(s.ids, autoInc + 1) /\ t.pseq = autoInc + 1
        /\ t.todo = s.todo /\ t.pend = s.pend /\ t.entries = s.entries /\ t.snap = s.snap
    BY <2>1, Zenon DEF Fields, SamePayload
  <2> HIDE DEF t
  <2>4. txn'[w] = t
    BY <2>2, Zenon DEF t
  <2> QED
    BY <2>1, <2>2, <2>3, <2>4, Zenon DEF Allocates, Within
(* find_next_update_log_id picks the ids of the legacy path.               *)
<1>FindNextFinds. ASSUME FindNextUpdateLogId(w)
                  PROVE  FindsNext(w, txn[w], txn'[w])
  <2> USE <1>FindNextFinds
  <2> DEFINE s == txn[w]
             ids == [i \in 1 .. Len(s.ops) |-> MaxLogId + i]
             pc == IF replica THEN "mirror" ELSE "write"
             t == [s EXCEPT !.pc = pc, !.snap = Snapshot, !.ids = ids, !.todo = s.ops]
  <2>1. /\ s.pc = "max" /\ held' = held /\ autoInc' = autoInc /\ overlap' = overlap
        /\ SameTables /\ DOMAIN s = Fields /\ txn'[w] = t
    BY BecomesTxn DEF FindNextUpdateLogId, tables, SameTables, CallInv, CallOK
  <2> HIDE DEF ids, pc
  <2>2. /\ t.pc = pc /\ t.locking = s.locking /\ t.wants = s.wants /\ t.gaps = s.gaps /\ SamePayload(s, t) /\ t.pseq = s.pseq
        /\ t.ids = ids /\ t.todo = s.ops /\ t.pend = s.pend /\ t.entries = s.entries /\ t.snap = Snapshot
    BY <2>1, Zenon DEF Fields, SamePayload
  <2> HIDE DEF t
  <2> QED
    BY <2>1, <2>2, Zenon DEF FindsNext, Within, ids, pc
(* A statement on bookmarks writes one row, or the attempt ends.           *)
<1>WriteRowDescribed. ASSUME WriteRow(w)
                      PROVE  Ends(w, txn[w], txn'[w]) \/ Writes(w, txn[w], txn'[w])
  <2> USE <1>WriteRowDescribed
  <2> DEFINE s == txn[w]
             op == Head(s.todo)
             id == Head(s.ids)
             rows == Written(View(w), op, id)
             P == [n \in Changed(w, rows) \cup {op.name} |-> rows[n]]
             R == LogRow(op, id)
             T(r, p) == [s EXCEPT !.todo = Tail(@), !.ids = Tail(@), !.entries = @ \cup {r}, !.pend = p]
  <2>1. /\ s.pc = "write" /\ s.todo # <<>> /\ autoInc' = autoInc /\ overlap' = overlap /\ SameTables /\ DOMAIN s = Fields
        /\ WaitsForRows(w, op.name, id) = {}
    BY ZenonT(30) DEF WriteRow, tables, SameTables, CallInv, CallOK
  <2>2. CASE Return(w, "null") \/ Return(w, "err")
    BY <2>1, <2>2, <1>ReturnEnds, Zenon
  <2>3. CASE Reply(View(w), op, id) = "ok" /\ held' = held /\ Becomes(w, T(R, P))
    <3>1. PICK r, p : r = R /\ p = P
      BY Zenon
    <3> DEFINE t == T(r, p)
    <3>2. txn'[w] = t
      BY <2>3, <3>1, BecomesTxn, Zenon DEF CallInv
    <3>3. /\ t.pc = s.pc /\ t.locking = s.locking /\ t.wants = s.wants /\ t.gaps = s.gaps /\ SamePayload(s, t) /\ t.pseq = s.pseq
          /\ t.ids = Tail(s.ids) /\ t.todo = Tail(s.todo) /\ t.pend = p /\ t.entries = s.entries \cup {r} /\ t.snap = s.snap
      BY <2>1, Zenon DEF Fields, SamePayload
    <3> HIDE DEF t
    <3> QED
      BY <2>1, <2>3, <3>1, <3>2, <3>3, Zenon DEF Writes, Within
  <2> QED
    BY <2>2, <2>3, Zenon DEF WriteRow
(* The rows of the log are inserted, or the attempt ends.                  *)
<1>StoreLogDescribed. ASSUME StoreLog(w)
                      PROVE  Ends(w, txn[w], txn'[w]) \/ Logs(w, txn[w], txn'[w])
  <2> USE <1>StoreLogDescribed
  <2> DEFINE s == txn[w]
             t == [s EXCEPT !.pc = "commit"]
  <2>1. /\ s.pc = "write" /\ s.todo = <<>> /\ autoInc' = autoInc /\ overlap' = overlap /\ SameTables /\ DOMAIN s = Fields
        /\ WaitsForLog(w, s.entries) = {}
    BY Zenon DEF StoreLog, tables, SameTables, CallInv, CallOK
  <2>2. CASE Retry(w)
    BY <2>1, <2>2, <1>RetryEnds, Zenon
  <2>3. CASE Becomes(w, t) /\ held' = held /\ Ids(s.entries) \cap Ids(log) = {}
    <3>1. txn'[w] = t
      BY <2>3, BecomesTxn, Zenon DEF CallInv
    <3>2. /\ t.pc = "commit" /\ t.locking = s.locking /\ t.wants = s.wants /\ t.gaps = s.gaps /\ SamePayload(s, t) /\ t.pseq = s.pseq
          /\ t.ids = s.ids /\ t.todo = s.todo /\ t.pend = s.pend /\ t.entries = s.entries /\ t.snap = s.snap
      BY <2>1, Zenon DEF Fields, SamePayload
    <3> HIDE DEF t
    <3> QED
      BY <2>1, <2>3, <3>1, <3>2, Zenon DEF Logs, Within
  <2> QED
    BY <2>2, <2>3, Zenon DEF StoreLog
(* The mirrored moves are inserted, or the attempt ends.                   *)
<1>StoreMirrorDescribed. ASSUME StoreMirrorBatch(w)
                         PROVE  Ends(w, txn[w], txn'[w]) \/ Mirrors(w, txn[w], txn'[w])
  <2> USE <1>StoreMirrorDescribed
  <2> DEFINE s == txn[w]
             last == Source[Max(s.moves)]
             left == Unapplied(s.moves, Snap(w).bookmarks[last.name].log_id)
             E == MirrorRows(left)
             P == [m \in {last.name} |-> [cs |-> last.new, log_id |-> last.log_id]]
             T(e, p) == [s EXCEPT !.pc = "commit", !.entries = e, !.pend = p]
  <2>1. s.pc = "mirror" /\ autoInc' = autoInc /\ overlap' = overlap /\ SameTables /\ DOMAIN s = Fields
    BY Zenon DEF StoreMirrorBatch, tables, SameTables, CallInv, CallOK
  <2>2. CASE \E o : Return(w, o)
    BY <2>1, <2>2, <1>ReturnEnds, Zenon
  <2>3. CASE /\ left # {} /\ WaitsForRows(w, last.name, last.log_id) = {} /\ WaitsForLog(w, E) = {}
             /\ View(w)[last.name].cs = Source[Min(left)].old /\ Ids(E) \cap Ids(log) = {}
             /\ held' = held /\ Becomes(w, T(E, P))
    <3>1. PICK e, p : e = E /\ p = P
      BY Zenon
    <3> DEFINE t == T(e, p)
    <3>2. txn'[w] = t
      BY <2>3, <3>1, BecomesTxn, Zenon DEF CallInv
    <3>3. /\ t.pc = "commit" /\ t.locking = s.locking /\ t.wants = s.wants /\ t.gaps = s.gaps /\ SamePayload(s, t) /\ t.pseq = s.pseq
          /\ t.ids = s.ids /\ t.todo = s.todo /\ t.pend = p /\ t.entries = e /\ t.snap = s.snap
      BY <2>1, Zenon DEF Fields, SamePayload
    <3> HIDE DEF t
    <3> QED
      BY <2>1, <2>3, <3>1, <3>2, <3>3, Zenon DEF Mirrors, Within
  <2> QED
    BY <2>2, <2>3, Zenon DEF StoreMirrorBatch
<1>1. replica' = replica
  BY StepReplica, Zenon
<1>2. \E t : Becomes(w, t)
  BY ZenonT(30) DEF StoreStep, Submit, SubmitLocked, Answered, StartAttempt, AcquireLock, LockRowMissing, CreateLockRow, TakeLock, LocksHeld, LockedCommit,
     LockedRollback, SeedSequence, AllocateLogId, FindNextUpdateLogId, WriteRow, StoreLog, StoreMirrorBatch,
     Commit, CommitError, StatementError, HookError, DeadlockVictim, Fail, Retry, Return
<1>3. \A v \in Writers \ {w} : txn'[v] = txn[v]
  BY <1>2, BecomesTxn, Zenon DEF CallInv
<1>4. CASE Answered(w)
  <2>1. /\ txn[w].pc = "done" /\ txn'[w] = Fresh /\ held' = held /\ autoInc' = autoInc /\ overlap' = overlap /\ SameTables
    BY <1>4, BecomesTxn, Zenon DEF Answered, tables, SameTables, CallInv
  <2> QED
    BY <1>1, <1>3, <2>1, FreshBlank, ZenonT(30) DEF Begins, Described
<1>5. CASE LockedRollback(w)
  <2>1. txn[w].pc = "held" /\ Return(w, "null") /\ autoInc' = autoInc /\ overlap' = overlap /\ SameTables
    BY <1>5, Zenon DEF LockedRollback, tables, SameTables
  <2> QED
    BY <1>1, <1>3, <2>1, <1>ReturnEnds, Zenon DEF Described
<1>6. CASE Commit(w)
  <2>1. /\ txn[w].pc = "commit" /\ TakeEffect(w) /\ txn'[w] = Ended(txn[w].commits + 1, "some")
        /\ held' = Released(w) /\ autoInc' = autoInc /\ overlap' = overlap
    BY <1>6, BecomesTxn, Zenon DEF Commit, CallInv
  <2> QED
    BY <1>1, <1>3, <2>1, <1>EndedBlank, ZenonT(30) DEF Takes, TakeEffect, Described
<1>7. CASE CommitError(w)
  <2>1. /\ txn[w].pc = "commit" /\ held' = Released(w) /\ autoInc' = autoInc /\ overlap' = overlap
        /\ TakeEffect(w) \/ SameTables
    BY <1>7, Zenon DEF CommitError, tables, SameTables
  <2>2. \E c : txn'[w] = Ended(c, "err")
    BY <1>7, BecomesTxn, ZenonT(30) DEF CommitError, CallInv
  <2> QED
    BY <1>1, <1>3, <2>1, <2>2, <1>EndedBlank, ZenonT(30) DEF Takes, Ends, TakeEffect, Described
<1>8. CASE StatementError(w)
  <2>1. txn[w].pc \notin {"idle", "done"} /\ Fail(w)
    BY <1>8, Zenon DEF StatementError, Running
  <2> QED
    BY <1>1, <1>3, <2>1, <1>FailEnds, ZenonT(30) DEF Described
<1>9. CASE HookError(w)
  <2>1. txn[w].pc = "start" /\ autoInc' = autoInc /\ overlap' = overlap /\ SameTables
    BY <1>9, Zenon DEF HookError, tables, SameTables
  <2>2. Retry(w) \/ \E o : Return(w, o)
    BY <1>9, ZenonT(30) DEF HookError
  <2> QED
    BY <1>1, <1>3, <2>1, <2>2, <1>ReturnEnds, <1>RetryEnds, ZenonT(30) DEF Described
<1>10. CASE DeadlockVictim(w)
  <2>1. txn[w].pc \notin {"idle", "done"} /\ Fail(w)
    BY <1>10, VictimWaits, Zenon
  <2> QED
    BY <1>1, <1>3, <2>1, <1>FailEnds, Zenon DEF Described
<1>11. CASE Submit(w) \/ SubmitLocked(w) \/ AcquireLock(w) \/ LockRowMissing(w) \/ CreateLockRow(w) \/ LocksHeld(w)
            \/ LockedCommit(w) \/ SeedSequence(w)
            \/ AllocateLogId(w) \/ FindNextUpdateLogId(w) \/ WriteRow(w) \/ StoreLog(w) \/ StoreMirrorBatch(w)
  BY <1>1, <1>3, <1>11, <1>SubmitBegins, <1>SubmitLockedStarts, <1>TakeAsksLock, <1>MissingAsksLock, <1>LocksHeldHasLocks, <1>LockedCommitDescribed,
     <1>SeedSeeds, <1>AllocateAllocates, <1>FindNextFinds, <1>WriteRowDescribed, <1>StoreLogDescribed, <1>StoreMirrorDescribed, Zenon
     DEF Described
<1>12. CASE StartAttempt(w)
  <2>1. Blank(txn[w])
    BY <1>12, Zenon DEF StartAttempt
  <2> QED
    BY <1>1, <1>3, <1>12, <2>1, <1>StartAttemptStarts, Zenon DEF Described
<1> QED
  BY <1>4, <1>5, <1>6, <1>7, <1>8, <1>9, <1>10, <1>11, <1>12, ZenonT(30) DEF StoreStep

-----------------------------------------------------------------------------
(* A set of numbers has a smallest one. *)
LEMMA MinOf ==
  ASSUME NEW S, S \subseteq Nat, S # {}
  PROVE  Min(S) \in S /\ Min(S) \in Nat /\ \A y \in S : Min(S) <= y
<1> DEFINE R == OpToRel(<, Nat)
<1>1. IsWellFoundedOn(R, Nat)
  BY NatLessThanWellFounded, Zenon
<1>2. \A x, y \in Nat : x < y => <<x, y>> \in R
  BY Zenon DEF OpToRel
<1> HIDE DEF R
<1>3. PICK x \in S : \A y \in S : ~(<<y, x>> \in R)
  BY <1>1, WFMin, Zenon
<1>4. ASSUME NEW y \in S PROVE x <= y
  <2>1. x \in Nat /\ y \in Nat
    BY Zenon
  <2>2. ~(y < x)
    BY <1>2, <1>3, <2>1, Zenon
  <2> QED
    BY <2>1, <2>2
<1>5. Min(S) \in S /\ \A y \in S : Min(S) <= y
  BY <1>3, <1>4, Zenon DEF Min
<1> QED
  BY <1>5, Zenon

(* The record of a writer: what is open when.  t is its record, r says     *)
(* whether the repository is a replica.                                    *)
RecordOK(t, r) ==
    /\ t.pc \in Running \cup {"idle", "start", "done"}
    /\ t.locking \in BOOLEAN /\ t.locked \in BOOLEAN
    /\ t.pc \in {"idle", "start", "done"} => Blank(t)
    /\ t.pc \in {"lock", "held", "seed", "alloc"} => t.locking
    /\ t.pc = "max" => ~t.locking
    /\ BookmarkNames(t) \subseteq Names
    /\ t.locked => \E n \in Names : t.ops = <<LockedOp(n)>>
    /\ t.pc = "held" => t.locked
    /\ t.pc \in {"start", "max"} => ~t.locked
    /\ t.wants \subseteq Names /\ (t.pc # "lock" => t.wants = {})
    /\ IsSeq(t.ops) /\ IsSeq(t.todo)
    /\ t.pc \in {"lock", "max", "held", "seed"} => t.ids = <<>>
    /\ t.pc \in {"lock", "max", "held"} => t.todo = <<>>
    /\ t.pc \in {"lock", "max"} => t.snap = <<>>
    /\ t.pc \notin {"write", "commit"} => t.pend = <<>> /\ t.entries = {}
    /\ r => ~t.locked /\ t.pc \notin {"held", "seed", "alloc", "write"}

(* The locks of a writer, h says who holds which: it takes them in order,  *)
(* and it has them all before it reads or writes.                          *)
HoldsOK(w, t, h) ==
    /\ \A n \in Names : h[n] = w => t.locking /\ \A m \in t.wants : n < m
    /\ t.pc = "lock" => \A n \in BookmarkNames(t) : n \in t.wants \/ h[n] = w
    /\ t.pc \in {"held", "mirror"} /\ t.locking => \A n \in BookmarkNames(t) : h[n] = w
    /\ t.locking => \A i \in DOMAIN t.todo : t.todo[i].name \in Names /\ h[t.todo[i].name] = w
    /\ t.locking => \A e \in t.entries : e.name \in Names /\ h[e.name] = w

LockInv ==
    /\ held \in [Names -> Writers \cup {NoWriter}]
    /\ \A w \in Writers : RecordOK(txn[w], replica) /\ HoldsOK(w, txn[w], held)

(* A blank record is sound when its writer holds no lock. *)
LEMMA BlankHolds ==
  ASSUME NEW w, NEW t, NEW h, Blank(t), t.pc \notin {"lock", "held", "mirror"}, \A n \in Names : h[n] # w
  PROVE  HoldsOK(w, t, h)
  BY Zenon DEF Blank, NoWork, HoldsOK

(* Every step is one of the descriptions, and keeps the locks in order. *)
LEMMA LockStep ==
  ASSUME CallInv, LockInv, NEW w \in Writers, StoreStep(w)
  PROVE  /\ LockInv' /\ replica' = replica /\ Described(w, txn[w], txn'[w])
         /\ \A v \in Writers \ {w} : txn'[v] = txn[v]
         /\ \A v \in Writers \ {w}, n \in Names : held'[n] = v <=> held[n] = v
(* The first of a sequence and the rest. *)
<1>HeadTail. ASSUME NEW s, IsSeq(s), s # <<>>
             PROVE  /\ 1 \in DOMAIN s /\ Head(s) = s[1]
                    /\ IsSeq(Tail(s)) /\ \A i \in DOMAIN Tail(s) : i + 1 \in DOMAIN s /\ Tail(s)[i] = s[i + 1]
  <2> USE <1>HeadTail
  <2>1. IsSeq(Tail(s))
    BY TailIsSeq, Zenon
  <2>2. PICK S : s \in Seq(S)
    BY Zenon DEF IsSeq
  <2>3. /\ 1 \in DOMAIN s /\ Head(s) = s[1]
        /\ \A i \in DOMAIN Tail(s) : i + 1 \in DOMAIN s /\ Tail(s)[i] = s[i + 1]
    BY <2>2
  <2> QED
    BY <2>1, <2>3, Zenon
(* A step of w after which its record is sound. *)
<1>LockFrame. ASSUME replica' = replica, \A v \in Writers \ {w} : txn'[v] = txn[v], RecordOK(txn'[w], replica),
                     HoldsOK(w, txn'[w], held'), held' \in [Names -> Writers \cup {NoWriter}],
                     \A v \in Writers \ {w}, n \in Names : held'[n] = v <=> held[n] = v
              PROVE  LockInv'
  <2> USE <1>LockFrame
  <2>1. ASSUME NEW v \in Writers PROVE RecordOK(txn'[v], replica) /\ HoldsOK(v, txn'[v], held')
    <3>1. CASE v = w
      BY <3>1, Zenon
    <3>2. CASE v # w
      <4>1. txn'[v] = txn[v] /\ RecordOK(txn[v], replica) /\ HoldsOK(v, txn[v], held)
        BY <3>2, Zenon DEF LockInv
      <4>2. BookmarkNames(txn[v]) \subseteq Names
        BY <4>1, ZenonT(30) DEF RecordOK
      <4>3. HoldsOK(v, txn[v], held')
        <5>1. \A n \in Names : held'[n] = v <=> held[n] = v
          BY <3>2, Zenon
        <5> QED
          BY ONLY <5>1, <4>1, <4>2, Zenon DEF HoldsOK
      <4> QED
        BY <4>1, <4>3, Zenon
    <3> QED
      BY <3>1, <3>2, Zenon
  <2>2. \A v \in Writers : RecordOK(txn[v], replica)' /\ HoldsOK(v, txn[v], held)'
    BY <2>1, Zenon
  <2> QED
    BY <2>2, Zenon DEF LockInv
(* The end of a transaction gives its locks back. *)
<1>ReleasedLocks. ASSUME held \in [Names -> Writers \cup {NoWriter}], held' = Released(w)
                  PROVE  /\ held' \in [Names -> Writers \cup {NoWriter}]
                         /\ \A n \in Names : held'[n] # w
                         /\ \A v \in Writers \ {w}, n \in Names : held'[n] = v <=> held[n] = v
  BY <1>ReleasedLocks, BookmarkAssumption DEF Released
(* Payloads name bookmarks of the repository. *)
<1>PayloadNames. ASSUME NEW t, t.moves \subseteq DOMAIN Source, t.ops \in Seq(Operations)
                 PROVE  BookmarkNames(t) \subseteq Names
  <2> USE <1>PayloadNames
  <2>1. \A i \in DOMAIN t.ops : t.ops[i] \in Operations
    OBVIOUS
  <2>2. \A op \in Operations : op.name \in Names
    BY Zenon DEF Operations
  <2>3. \A i \in DOMAIN Source : Source[i].name \in Names
    <3>1. \A i \in DOMAIN Source : Source[i] \in Moves
      BY SourceAssumption
    <3>2. \A m \in Moves : m.name \in Names
      BY Zenon DEF Moves
    <3> QED
      BY <3>1, <3>2, Zenon
  <2> QED
    BY <2>1, <2>2, <2>3, Zenon DEF BookmarkNames
(* A mirror batch is moves of the source. *)
<1>BatchesAreMoves. \A moves \in MirrorBatches : moves \subseteq DOMAIN Source
  BY DEF MirrorBatches, Stretch, MovesOf
(* The descriptions keep the record of w and its locks sound. *)
<1>BeginsLock. ASSUME NEW t, Begins(w, txn[w], t)
               PROVE  /\ RecordOK(t, replica) /\ HoldsOK(w, t, held')
                      /\ held' \in [Names -> Writers \cup {NoWriter}]
                      /\ \A v \in Writers \ {w}, n \in Names : held'[n] = v <=> held[n] = v
  <2> USE <1>BeginsLock
  <2>1. RecordOK(txn[w], replica) /\ HoldsOK(w, txn[w], held) /\ held \in [Names -> Writers \cup {NoWriter}]
    BY Zenon DEF LockInv
  <2>2. held' = held /\ txn[w].pc \in {"idle", "done"} /\ Blank(t) /\ t.pc \in {"idle", "start"} /\ t.locked = FALSE
    BY ZenonT(30) DEF Begins, NoPayload
  <2>3. \A n \in Names : held[n] # w
    BY <2>1, <2>2, Zenon DEF RecordOK, HoldsOK, Blank
  <2>4. HoldsOK(w, t, held')
    BY <2>2, <2>3, BlankHolds, Zenon
  <2>5. t.moves \subseteq DOMAIN Source /\ t.ops \in Seq(Operations)
    <3>1. <<>> \in Seq(Operations) /\ Ops \subseteq Seq(Operations)
      BY BookmarkAssumption
    <3>2. (t.ops = <<>> \/ t.ops \in Ops) /\ (t.moves = {} \/ t.moves \in MirrorBatches)
      BY Zenon DEF Begins, NoPayload
    <3> QED
      BY <3>1, <3>2, <1>BatchesAreMoves, Zenon
  <2>6. IsSeq(t.ops) /\ IsSeq(<<>>)
    BY <2>5, SeqIsSeq, EmptyIsSeq, Zenon
  <2>7. RecordOK(t, replica)
    BY <2>2, <2>5, <2>6, <1>PayloadNames, Zenon DEF RecordOK, Blank, NoWork
  <2> QED
    BY <2>1, <2>2, <2>4, <2>7, Zenon
(* A transaction that ends releases the locks it holds.                    *)
<1>EndsLock. ASSUME NEW t, Ends(w, txn[w], t) \/ Takes(w, txn[w], t)
             PROVE  /\ RecordOK(t, replica) /\ HoldsOK(w, t, held')
                    /\ held' \in [Names -> Writers \cup {NoWriter}]
                    /\ \A v \in Writers \ {w}, n \in Names : held'[n] = v <=> held[n] = v
  <2> USE <1>EndsLock
  <2>1. RecordOK(txn[w], replica) /\ held \in [Names -> Writers \cup {NoWriter}]
    BY Zenon DEF LockInv
  <2>2. /\ held' = Released(w) /\ Blank(t) /\ t.pc \in {"start", "done"}
        /\ (~txn[w].locked /\ SamePayload(txn[w], t)) \/ NoPayload(t)
    BY Zenon DEF Ends, Takes
  <2>3. /\ held' \in [Names -> Writers \cup {NoWriter}]
        /\ \A n \in Names : held'[n] # w
        /\ \A v \in Writers \ {w}, n \in Names : held'[n] = v <=> held[n] = v
    BY <2>1, <2>2, <1>ReleasedLocks, Zenon
  <2>4. HoldsOK(w, t, held')
    BY <2>2, <2>3, BlankHolds, Zenon
  <2>5. BookmarkNames(t) \subseteq Names
    <3>1. CASE NoPayload(t)
      BY <3>1 DEF NoPayload, BookmarkNames
    <3>2. CASE SamePayload(txn[w], t)
      BY <2>1, <3>2, Zenon DEF SamePayload, BookmarkNames, RecordOK
    <3> QED
      BY <2>2, <3>1, <3>2, Zenon
  <2>6. RecordOK(t, replica)
    BY <2>1, <2>2, <2>5, EmptyIsSeq, Zenon DEF RecordOK, Blank, NoWork, SamePayload, NoPayload
  <2> QED
    BY <2>3, <2>4, <2>6, Zenon
(* A transaction that starts holds no lock.                                *)
<1>StartsLock. ASSUME NEW t, StartsLocking(w, txn[w], t) \/ StartsLegacy(w, txn[w], t)
               PROVE  /\ RecordOK(t, replica) /\ HoldsOK(w, t, held')
                      /\ held' \in [Names -> Writers \cup {NoWriter}]
                      /\ \A v \in Writers \ {w}, n \in Names : held'[n] = v <=> held[n] = v
  <2> USE <1>StartsLock
  <2>1. RecordOK(txn[w], replica) /\ HoldsOK(w, txn[w], held) /\ held \in [Names -> Writers \cup {NoWriter}]
    BY Zenon DEF LockInv
  <2>2. held' = held /\ txn[w].pc \in {"idle", "start"} /\ NoWork(t)
    BY Zenon DEF StartsLocking, StartsLegacy
  <2>3. \A n \in Names : held[n] # w
    BY <2>1, <2>2, Zenon DEF RecordOK, HoldsOK, Blank
  <2>4. CASE StartsLocking(w, txn[w], t)
    <3>1. t.pc = "lock" /\ t.locking = TRUE /\ t.wants = BookmarkNames(t)
      BY <2>4, ZenonT(30) DEF StartsLocking
    <3>2. HoldsOK(w, t, held)
      BY ONLY <2>2, <2>3, <3>1 DEF HoldsOK, NoWork
    <3>3. CASE SamePayload(txn[w], t)
      <4>1. BookmarkNames(t) \subseteq Names
        BY <2>1, <3>3, Zenon DEF SamePayload, BookmarkNames, RecordOK
      <4> QED
        BY <2>1, <2>2, <3>1, <3>2, <3>3, <4>1, EmptyIsSeq, Zenon DEF RecordOK, Running, NoWork, SamePayload
    <3>4. CASE ~replica /\ t.locked = TRUE /\ t.moves = {} /\ \E n \in Names : t.ops = <<LockedOp(n)>>
      <4>1. PICK n \in Names : t.ops = <<LockedOp(n)>>
        BY <3>4, Zenon
      <4>2. LockedOp(n).name = n
        BY Zenon DEF LockedOp
      <4>3. BookmarkNames(t) \subseteq Names
        BY <3>4, <4>1, <4>2 DEF BookmarkNames
      <4>4. IsSeq(t.ops)
        BY <4>1, SingleIsSeq, Zenon
      <4>5. RecordOK(t, replica)
        BY <2>2, <3>1, <3>4, <4>3, <4>4, EmptyIsSeq, ZenonT(30) DEF RecordOK, Running, NoWork
      <4> QED
        BY <2>1, <2>2, <3>2, <4>5, Zenon
    <3> QED
      BY <2>4, <3>3, <3>4, ZenonT(30) DEF StartsLocking
  <2>5. CASE StartsLegacy(w, txn[w], t)
    <3>1. txn[w].pc = "start" /\ t.pc = "max" /\ t.locking = FALSE /\ t.wants = {} /\ SamePayload(txn[w], t)
      BY <2>5, Zenon DEF StartsLegacy
    <3>2. HoldsOK(w, t, held)
      BY <2>2, <2>3, <3>1, Zenon DEF HoldsOK, NoWork
    <3>3. BookmarkNames(t) \subseteq Names
      BY <2>1, <3>1, ZenonT(30) DEF SamePayload, BookmarkNames, RecordOK
    <3>4. t.locked = txn[w].locked /\ t.ops = txn[w].ops
      BY <3>1, Zenon DEF SamePayload
    <3>5. RecordOK(t, replica)
      BY <2>1, <2>2, <3>1, <3>3, <3>4, EmptyIsSeq, Zenon DEF RecordOK, Running, NoWork
    <3> QED
      BY <2>1, <2>2, <3>2, <3>5, Zenon
  <2> QED
    BY <2>4, <2>5, Zenon
(* Taking the next lock keeps the locks held in name order.                *)
<1>AsksLockLock. ASSUME NEW t, AsksLock(w, txn[w], t)
                  PROVE  /\ RecordOK(t, replica) /\ HoldsOK(w, t, held')
                         /\ held' \in [Names -> Writers \cup {NoWriter}]
                         /\ \A v \in Writers \ {w}, n \in Names : held'[n] = v <=> held[n] = v
  <2> USE <1>AsksLockLock
  <2> DEFINE s == txn[w]
  <2>1. RecordOK(s, replica) /\ HoldsOK(w, s, held) /\ held \in [Names -> Writers \cup {NoWriter}]
    BY Zenon DEF LockInv
  <2>2. PICK k : k = Min(s.wants)
    BY Zenon
  <2>a. /\ s.pc = "lock" /\ s.wants # {} /\ Within(s, t) /\ t.pc = "lock"
        /\ t.ids = s.ids /\ t.todo = s.todo /\ t.pend = s.pend /\ t.entries = s.entries /\ t.snap = s.snap
    BY Zenon DEF AsksLock
  <2>b. CASE held' = held /\ t.wants = s.wants
    <3>1. BookmarkNames(t) = BookmarkNames(s) /\ t.locking = s.locking
      BY <2>a, Zenon DEF Within, SamePayload, BookmarkNames
    <3>2. RecordOK(t, replica)
      BY <2>1, <2>a, <2>b, <3>1, ZenonT(30) DEF RecordOK, Within, SamePayload, Blank, NoWork
    <3>3. HoldsOK(w, t, held)
      BY <2>1, <2>a, <2>b, <3>1, ZenonT(30) DEF HoldsOK
    <3> QED
      BY <2>1, <2>b, <3>2, <3>3, Zenon
  <2>c. SUFFICES ASSUME held[k] = NoWriter, held' = [held EXCEPT ![k] = w], t.wants = s.wants \ {k}
                 PROVE  /\ RecordOK(t, replica) /\ HoldsOK(w, t, held')
                        /\ held' \in [Names -> Writers \cup {NoWriter}]
                        /\ \A v \in Writers \ {w}, n \in Names : held'[n] = v <=> held[n] = v
    BY <2>2, <2>b, Zenon DEF AsksLock
  <2>3. /\ s.pc = "lock" /\ s.wants # {} /\ held[k] = NoWriter /\ held' = [held EXCEPT ![k] = w]
        /\ Within(s, t) /\ t.pc = "lock" /\ t.wants = s.wants \ {k}
        /\ t.ids = s.ids /\ t.todo = s.todo /\ t.pend = s.pend /\ t.entries = s.entries /\ t.snap = s.snap
    BY <2>a, <2>c, Zenon
  <2>4. s.wants \subseteq Names /\ s.wants \subseteq Nat
    BY <2>1, BookmarkAssumption, Zenon DEF RecordOK
  <2>5. k \in s.wants /\ k \in Nat /\ \A m \in s.wants : k <= m
    BY <2>2, <2>3, <2>4, MinOf, Zenon
  <2>6. held' \in [Names -> Writers \cup {NoWriter}] /\ k \in Names
    BY <2>1, <2>3, <2>4, <2>5, ZenonT(30)
  <2>7. \A n \in Names : held'[n] = w <=> n = k \/ held[n] = w
    BY <2>1, <2>3, <2>6, BookmarkAssumption, Zenon
  <2>8. \A v \in Writers \ {w}, n \in Names : held'[n] = v <=> held[n] = v
    BY <2>1, <2>3, <2>6, BookmarkAssumption, Zenon
  <2>9. BookmarkNames(t) = BookmarkNames(s)
    BY <2>3, Zenon DEF Within, SamePayload, BookmarkNames
  <2>10. RecordOK(t, replica)
    BY <2>1, <2>3, <2>4, <2>9, ZenonT(30) DEF RecordOK, Within, SamePayload, Blank, NoWork
  <2>11. HoldsOK(w, t, held')
    <3>1. t.locking /\ s.todo = <<>> /\ s.entries = {} /\ BookmarkNames(s) \subseteq Names
      BY <2>1, <2>3, Zenon DEF RecordOK, Within
    <3>2. ASSUME NEW n \in Names, held'[n] = w, NEW m \in t.wants PROVE n < m
      <4>1. m \in s.wants /\ m # k /\ m \in Nat /\ k < m
        BY <2>3, <2>4, <2>5, <3>2
      <4>2. held[n] = w => n < m
        BY <2>1, <4>1, Zenon DEF HoldsOK
      <4> QED
        BY <2>7, <3>2, <4>1, <4>2, Zenon
    <3>3. \A n \in BookmarkNames(t) : n \in t.wants \/ held'[n] = w
      BY <2>1, <2>3, <2>7, <2>9, <3>1, Zenon DEF HoldsOK
    <3> QED
      BY <2>3, <3>1, <3>2, <3>3 DEF HoldsOK
  <2> QED
    BY <2>6, <2>8, <2>10, <2>11, Zenon
(* A step inside the transaction keeps its locks.                          *)
<1>WithinLock. ASSUME NEW t,
                      \/ HasLocks(w, txn[w], t) \/ CallerWrites(w, txn[w], t) \/ (\E g : Seeds(w, txn[w], t, g))
                      \/ Allocates(w, txn[w], t) \/ FindsNext(w, txn[w], t) \/ Writes(w, txn[w], t)
                      \/ Logs(w, txn[w], t) \/ Mirrors(w, txn[w], t)
               PROVE  RecordOK(t, replica) /\ HoldsOK(w, t, held') /\ held' = held
  <2> USE <1>WithinLock
  <2> DEFINE s == txn[w]
  <2>1. RecordOK(s, replica) /\ HoldsOK(w, s, held)
    BY Zenon DEF LockInv
  <2>2. Within(s, t) /\ held' = held /\ t.wants = s.wants /\ s.pc \notin {"idle", "start", "done"}
    BY ZenonT(30) DEF HasLocks, CallerWrites, Seeds, Allocates, FindsNext, Writes, Logs, Mirrors
  <2>3. BookmarkNames(t) = BookmarkNames(s) /\ t.locking = s.locking /\ t.locked = s.locked /\ t.ops = s.ops /\ t.moves = s.moves
    BY <2>2, ZenonT(30) DEF Within, SamePayload, BookmarkNames
  <2>4. SUFFICES RecordOK(t, replica) /\ HoldsOK(w, t, held)
    BY <2>2, Zenon
  <2>5. CASE HasLocks(w, s, t)
    <3>1. s.pc = "lock" /\ s.wants = {} /\ s.locking /\ s.pend = <<>> /\ s.entries = {} /\ s.ids = <<>> /\ s.todo = <<>>
      BY <2>1, <2>5, Zenon DEF HasLocks, RecordOK
    <3>2. t.ids = s.ids /\ t.pend = s.pend /\ t.entries = s.entries
      BY <2>5, Zenon DEF HasLocks
    <3>3. \A n \in BookmarkNames(s) : n \in Names /\ held[n] = w
      BY <2>1, <3>1, Zenon DEF HoldsOK, RecordOK
    <3>4. \/ s.locked /\ t.pc = "held" /\ t.todo = <<>>
          \/ ~s.locked /\ replica /\ t.pc = "mirror" /\ t.todo = <<>>
          \/ ~replica /\ t.pc = "seed" /\ t.todo = s.ops
      BY <2>5, <3>1, Zenon DEF HasLocks
    <3>5. \A i \in DOMAIN s.ops : s.ops[i].name \in BookmarkNames(s)
      BY Zenon DEF BookmarkNames
    <3>6. RecordOK(t, replica)
      BY <2>1, <2>2, <2>3, <3>1, <3>2, <3>4, EmptyIsSeq, Zenon DEF RecordOK, Running
    <3>7. \A i \in DOMAIN t.todo : t.todo[i].name \in Names /\ held[t.todo[i].name] = w
      <4>1. CASE t.todo = <<>>
        BY <4>1, EmptyDomain, Zenon
      <4>2. CASE t.todo = s.ops
        BY <3>3, <3>5, <4>2, Zenon
      <4> QED
        BY <3>4, <4>1, <4>2, Zenon
    <3>8. HoldsOK(w, t, held)
      BY <2>1, <2>2, <2>3, <3>1, <3>2, <3>3, <3>4, <3>7, Zenon DEF HoldsOK
    <3> QED
      BY <3>6, <3>8, Zenon
  <2>6. CASE CallerWrites(w, s, t)
    <3>1. s.pc = "held" /\ s.locking /\ s.locked /\ s.pend = <<>> /\ s.entries = {} /\ s.ids = <<>> /\ s.wants = {} /\ ~replica
      BY <2>1, <2>6, Zenon DEF CallerWrites, RecordOK
    <3>2. t.pc = "seed" /\ t.ids = s.ids /\ t.pend = s.pend /\ t.entries = s.entries
      BY <2>6, Zenon DEF CallerWrites
    <3>3. PICK n \in Names : s.ops = <<LockedOp(n)>>
      BY <2>1, <3>1, Zenon DEF RecordOK
    <3>4. s.ops[1] = LockedOp(n) /\ DOMAIN s.ops = {1}
      BY <3>3, SingleSeq, Zenon
    <3>5. n \in BookmarkNames(s)
      <4>1. LockedOp(n).name = n
        BY Zenon DEF LockedOp
      <4> QED
        BY <3>4, <4>1, Zenon DEF BookmarkNames
    <3>6. held[n] = w
      BY <2>1, <3>1, <3>5, Zenon DEF HoldsOK
    <3>7. PICK o, c : t.todo = <<[LockedOp(n) EXCEPT !.old = o, !.new = c]>>
      BY <2>6, <3>4, ZenonT(30) DEF CallerWrites
    <3>8. PICK x : x = [LockedOp(n) EXCEPT !.old = o, !.new = c]
      BY Zenon
    <3>9. \A i \in DOMAIN t.todo : t.todo[i].name = n
      <4>1. x.name = n
        BY <3>8, Zenon DEF LockedOp
      <4>2. t.todo = <<x>>
        BY <3>7, <3>8, Zenon
      <4> QED
        BY <4>1, <4>2, SingleSeq, Zenon
    <3>10. RecordOK(t, replica)
      <4>1. IsSeq(t.todo)
        BY <3>7, SingleIsSeq, Zenon
      <4> QED
        BY <2>1, <2>2, <2>3, <3>1, <3>2, <4>1, Zenon DEF RecordOK, Running
    <3>11. HoldsOK(w, t, held)
      BY <2>1, <2>2, <2>3, <3>1, <3>2, <3>6, <3>9, Zenon DEF HoldsOK
    <3> QED
      BY <3>10, <3>11, Zenon
  <2>7. CASE (\E g : Seeds(w, s, t, g)) \/ Allocates(w, s, t)
    <3>1. /\ s.pc \in {"seed", "alloc"} /\ t.pc \in {"alloc", "write"}
          /\ t.todo = s.todo /\ t.pend = s.pend /\ t.entries = s.entries
      BY <2>7, Zenon DEF Seeds, Allocates
    <3>2. s.locking /\ ~replica
      BY <2>1, <3>1, Zenon DEF RecordOK
    <3>3. RecordOK(t, replica)
      BY <2>1, <2>2, <2>3, <3>1, <3>2, Zenon DEF RecordOK, Running
    <3>4. HoldsOK(w, t, held)
      BY <2>1, <2>2, <2>3, <3>1, <3>2, ZenonT(30) DEF HoldsOK
    <3> QED
      BY <3>3, <3>4, Zenon
  <2>8. CASE FindsNext(w, s, t)
    <3>1. /\ s.pc = "max" /\ t.pc \in {"mirror", "write"} /\ (t.pc = "write" => ~replica)
          /\ t.todo = s.ops /\ t.pend = s.pend /\ t.entries = s.entries
      BY <2>8, Zenon DEF FindsNext
    <3>2. ~s.locking
      BY <2>1, <3>1, Zenon DEF RecordOK
    <3>3. RecordOK(t, replica)
      BY <2>1, <2>2, <2>3, <3>1, <3>2, Zenon DEF RecordOK, Running
    <3>4. HoldsOK(w, t, held)
      BY <2>1, <2>2, <2>3, <3>1, <3>2, Zenon DEF HoldsOK
    <3> QED
      BY <3>3, <3>4, Zenon
  <2>9. CASE Writes(w, s, t)
    <3> DEFINE op == Head(s.todo)
               row == LogRow(op, Head(s.ids))
    <3>1. s.pc = "write" /\ t.pc = "write" /\ s.todo # <<>> /\ t.todo = Tail(s.todo) /\ t.entries = s.entries \cup {row}
      BY <2>9, Zenon DEF Writes
    <3>2. row.name = op.name
      BY Zenon DEF LogRow
    <3>todo. /\ 1 \in DOMAIN s.todo /\ op = s.todo[1] /\ IsSeq(t.todo)
             /\ \A i \in DOMAIN t.todo : i + 1 \in DOMAIN s.todo /\ t.todo[i] = s.todo[i + 1]
      <4>1. IsSeq(s.todo)
        BY <2>1, Zenon DEF RecordOK
      <4> QED
        BY <3>1, <4>1, <1>HeadTail, ZenonT(30)
    <3>3. RecordOK(t, replica)
      BY <2>1, <2>2, <2>3, <3>1, <3>todo, Zenon DEF RecordOK
    <3> HIDE DEF row, op
    <3>4. ASSUME s.locking
          PROVE  /\ \A i \in DOMAIN t.todo : t.todo[i].name \in Names /\ held[t.todo[i].name] = w
                 /\ op.name \in Names /\ held[op.name] = w
      <4>1. \A i \in DOMAIN s.todo : s.todo[i].name \in Names /\ held[s.todo[i].name] = w
        BY <2>1, <3>4, Zenon DEF HoldsOK
      <4> QED
        BY <3>todo, <4>1, Zenon
    <3>5. HoldsOK(w, t, held)
      BY <2>1, <2>2, <2>3, <3>1, <3>2, <3>4, Zenon DEF HoldsOK
    <3> QED
      BY <3>3, <3>5, Zenon
  <2>10. CASE Logs(w, s, t)
    <3>1. s.pc = "write" /\ t.pc = "commit" /\ t.todo = s.todo /\ t.pend = s.pend /\ t.entries = s.entries
      BY <2>10, Zenon DEF Logs
    <3>2. RecordOK(t, replica)
      BY <2>1, <2>2, <2>3, <3>1, Zenon DEF RecordOK, Running
    <3>3. HoldsOK(w, t, held)
      BY <2>1, <2>2, <2>3, <3>1, Zenon DEF HoldsOK
    <3> QED
      BY <3>2, <3>3, Zenon
  <2>11. CASE Mirrors(w, s, t)
    <3>1. s.pc = "mirror" /\ t.pc = "commit" /\ t.todo = s.todo /\ \E left \in SUBSET s.moves : t.entries = MirrorRows(left)
      BY <2>11, ZenonT(30) DEF Mirrors, Unapplied
    <3>2. PICK left \in SUBSET s.moves : t.entries = MirrorRows(left)
      BY <3>1, ZenonT(30)
    <3>3. \A e \in t.entries : e.name \in BookmarkNames(s)
      <4> SUFFICES ASSUME NEW i \in left PROVE LogRowOfMove(Source[i]).name \in BookmarkNames(s)
        BY <3>2, Zenon DEF MirrorRows
      <4>1. LogRowOfMove(Source[i]).name = Source[i].name
        BY Zenon DEF LogRowOfMove
      <4> QED
        BY <4>1, ZenonT(30) DEF BookmarkNames
    <3>4. RecordOK(t, replica)
      BY <2>1, <2>2, <2>3, <3>1, Zenon DEF RecordOK, Running
    <3>5. s.locking => \A n \in BookmarkNames(s) : n \in Names /\ held[n] = w
      BY <2>1, <3>1, Zenon DEF HoldsOK, RecordOK
    <3>6. HoldsOK(w, t, held)
      BY <2>1, <2>2, <2>3, <3>1, <3>3, <3>5, ZenonT(30) DEF HoldsOK
    <3> QED
      BY <3>4, <3>6, Zenon
  <2> QED
    BY <2>5, <2>6, <2>7, <2>8, <2>9, <2>10, <2>11, Zenon
<1>1. \A v \in Writers : txn[v].locking \in BOOLEAN /\ (txn[v].pc = "start" => Blank(txn[v]))
  BY Zenon DEF LockInv, RecordOK
<1>2. Described(w, txn[w], txn'[w]) /\ replica' = replica /\ \A v \in Writers \ {w} : txn'[v] = txn[v]
  BY <1>1, StepDescribed, Zenon
<1>3. held \in [Names -> Writers \cup {NoWriter}]
  BY Zenon DEF LockInv
<1>4. /\ RecordOK(txn'[w], replica) /\ HoldsOK(w, txn'[w], held')
      /\ held' \in [Names -> Writers \cup {NoWriter}]
      /\ \A v \in Writers \ {w}, n \in Names : held'[n] = v <=> held[n] = v
  <2>1. CASE Begins(w, txn[w], txn'[w])
    BY <2>1, <1>BeginsLock, Zenon
  <2>2. CASE Ends(w, txn[w], txn'[w]) \/ Takes(w, txn[w], txn'[w])
    BY <2>2, <1>EndsLock, Zenon
  <2>3. CASE StartsLocking(w, txn[w], txn'[w]) \/ StartsLegacy(w, txn[w], txn'[w])
    BY <2>3, <1>StartsLock, Zenon
  <2>4. CASE AsksLock(w, txn[w], txn'[w])
    BY <2>4, <1>AsksLockLock, Zenon
  <2>5. CASE \/ HasLocks(w, txn[w], txn'[w]) \/ CallerWrites(w, txn[w], txn'[w])
             \/ (\E g : Seeds(w, txn[w], txn'[w], g))
             \/ Allocates(w, txn[w], txn'[w]) \/ FindsNext(w, txn[w], txn'[w]) \/ Writes(w, txn[w], txn'[w])
             \/ Logs(w, txn[w], txn'[w]) \/ Mirrors(w, txn[w], txn'[w])
    <3>1. RecordOK(txn'[w], replica) /\ HoldsOK(w, txn'[w], held') /\ held' = held
      BY <2>5, <1>WithinLock, ZenonT(30)
    <3> QED
      BY <1>3, <3>1, Zenon
  <2> QED
    BY <1>2, <2>1, <2>2, <2>3, <2>4, <2>5, Zenon DEF Described
<1>5. LockInv'
  BY <1>2, <1>4, <1>LockFrame, Zenon
<1> QED
  BY <1>2, <1>4, <1>5, Zenon

(* As long as no attempts of both kinds met, all open transactions are of  *)
(* one kind.                                                               *)
OverlapInv ==
    ~overlap => \A v, w \in Writers :
        txn[v].pc \in Running /\ txn[w].pc \in Running => (txn[v].locking <=> txn[w].locking)

(* The steps that open a transaction look at all others. *)
LEMMA OverlapStep ==
  ASSUME LockInv, OverlapInv, NEW w \in Writers, Described(w, txn[w], txn'[w]),
         \A v \in Writers \ {w} : txn'[v] = txn[v]
  PROVE  OverlapInv' /\ (~overlap' => ~overlap)
<1> DEFINE s == txn[w]
           t == txn'[w]
<1>2. CASE t.pc \notin Running /\ overlap' = overlap
  BY <1>2, Zenon DEF OverlapInv
<1>3. CASE s.pc \in Running /\ t.locking = s.locking /\ overlap' = overlap
  <2>1. ASSUME ~overlap, NEW u \in Writers, NEW v \in Writers, txn'[u].pc \in Running, txn'[v].pc \in Running
        PROVE  txn'[u].locking <=> txn'[v].locking
    <3>1. txn[u].pc \in Running /\ txn[v].pc \in Running
      BY <1>3, <2>1, Zenon
    <3>2. txn'[u].locking = txn[u].locking /\ txn'[v].locking = txn[v].locking
      BY <1>3, Zenon
    <3> QED
      BY <2>1, <3>1, <3>2, Zenon DEF OverlapInv
  <2> QED
    BY <1>3, <2>1, Zenon DEF OverlapInv
<1>4. CASE StartsLocking(w, s, t)
  <2>1. ~overlap' => ~overlap /\ \A v \in Writers : txn[v].pc \in Running => txn[v].locking
    BY <1>4, Zenon DEF StartsLocking
  <2>2. t.locking
    BY <1>4, Zenon DEF StartsLocking
  <2>3. ~overlap' => \A v \in Writers : txn'[v].pc \in Running => txn'[v].locking
    BY <2>1, <2>2, Zenon
  <2> QED
    BY <2>1, <2>3, Zenon DEF OverlapInv
<1>5. CASE StartsLegacy(w, s, t)
  <2>1. ~overlap' => ~overlap /\ \A v \in Writers : txn[v].pc \in Running => ~txn[v].locking
    BY <1>5, Zenon DEF StartsLegacy
  <2>2. ~t.locking
    BY <1>5, Zenon DEF StartsLegacy
  <2>3. ~overlap' => \A v \in Writers : txn'[v].pc \in Running => ~txn'[v].locking
    BY <2>1, <2>2, Zenon
  <2> QED
    BY <2>1, <2>3, Zenon DEF OverlapInv
<1>6. CASE Begins(w, s, t) \/ Ends(w, s, t) \/ Takes(w, s, t)
  <2>1. t.pc \notin Running /\ overlap' = overlap
    BY <1>6, Zenon DEF Begins, Ends, Takes, Running
  <2> QED
    BY <1>2, <2>1, Zenon
<1>7. CASE \/ AsksLock(w, s, t) \/ HasLocks(w, s, t) \/ CallerWrites(w, s, t) \/ (\E g : Seeds(w, s, t, g))
           \/ Allocates(w, s, t) \/ FindsNext(w, s, t) \/ Writes(w, s, t) \/ Logs(w, s, t) \/ Mirrors(w, s, t)
  <2>1. s.pc \in {"lock", "held", "seed", "alloc", "max", "write", "mirror"} /\ Within(s, t)
    BY <1>7, ZenonT(30) DEF AsksLock, HasLocks, CallerWrites, Seeds, Allocates, FindsNext, Writes, Logs, Mirrors
  <2>2. s.pc \in Running /\ t.locking = s.locking /\ overlap' = overlap
    BY <2>1, Zenon DEF Running, Within
  <2> QED
    BY <1>3, <2>2, Zenon
<1> QED
  BY <1>4, <1>5, <1>6, <1>7, Zenon DEF Described

=============================================================================
