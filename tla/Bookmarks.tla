----------------------------- MODULE Bookmarks -----------------------------
(***************************************************************************)
(* The bookmark tables with those who follow them: the subscription of the *)
(* warm bookmarks cache (dbbookmarks/src/subscription.rs) and a tailer of  *)
(* bookmarks_update_log, which remembers the last id it saw and asks for   *)
(* larger ones (dbbookmarks/src/store.rs).                                 *)
(***************************************************************************)
EXTENDS BookmarkStore

CONSTANTS
    BatchLimit   \* LIMIT of read_next_bookmark_log_entries

ASSUME LimitAssumption == BatchLimit \in Nat \ {0}

VARIABLES
    sub,   \* the subscription: its log_id and its bookmarks
    tail   \* the tailer: the last id it saw, and history: the ids it saw

vars ==
    <<bookmarks, log, seqMax, lockRows, autoInc, held, txn, replica, knob, overlap, calls, faults, flips,
      sub, tail>>

Values == [n \in Names |-> bookmarks[n].cs]

(* Mutant: the bookmarks are read, and then the log id, without a snapshot. *)
SubscribeTorn ==
    /\ \/ sub' = [sub EXCEPT !.bookmarks = Values]
       \/ sub' = [sub EXCEPT !.log_id = MaxLogId]
    /\ sub' # sub
    /\ UNCHANGED <<storeVars, tail>>

(* SqlBookmarksSubscription::create, also when a refresh finds it aged out: *)
(* both queries read one snapshot.                                          *)
Subscribe ==
    /\ sub' = [log_id |-> MaxLogId, bookmarks |-> Values]
    /\ sub' # sub
    /\ UNCHANGED <<storeVars, tail>>

(* The newest row of n after the id the subscription is at, joined with the *)
(* bookmark whose log_id it is.                                             *)
Newer(n) == Ids({e \in log : e.name = n /\ e.id > sub.log_id})

Joined(n) ==
    LET matches == {m \in Names : Present(bookmarks[m]) /\ bookmarks[m].log_id = Max(Newer(n))}
    IN  IF matches = {} THEN NoCs ELSE bookmarks[CHOOSE m \in matches : TRUE].cs

(* Names are ordered by number; "master" is the first. *)
Master == Min(Names)

(* SqlBookmarksSubscription::refresh *)
Refresh ==
    /\ MaxLogId > sub.log_id
    /\ sub' = [log_id |-> MaxLogId,
               bookmarks |-> [n \in Names |->
                  IF Newer(n) = {} \/ (Joined(n) = NoCs /\ n = Master) THEN sub.bookmarks[n] ELSE Joined(n)]]
    /\ UNCHANGED <<storeVars, tail>>

(* Mutant: the query has a LIMIT and no ORDER BY. *)
ReadNextEntriesUnordered ==
    /\ \E batch \in SUBSET (Ids(log) \ (0 .. tail.last)) :
         /\ Cardinality(batch) = BatchLimit
         /\ tail' = [last |-> Max(batch), seen |-> tail.seen \cup batch]
    /\ UNCHANGED <<storeVars, sub>>

(* read_next_bookmark_log_entries, and the counter moves to the last one. *)
ReadNextEntries ==
    LET later == Ids(log) \ (0 .. tail.last)
        batch == {i \in later : Cardinality({j \in later : j <= i}) <= BatchLimit}
    IN  /\ later # {}
        /\ tail' = [last |-> Max(batch), seen |-> tail.seen \cup batch]
        /\ UNCHANGED <<storeVars, sub>>

Init ==
    /\ StoreInit
    /\ sub = [log_id |-> MaxLogId, bookmarks |-> Values]
    /\ tail = [last |-> MaxLogId, seen |-> Ids(log)]

Next ==
    \/ StoreNext /\ UNCHANGED <<sub, tail>>
    \/ Subscribe
    \/ Refresh
    \/ ReadNextEntries

Spec == Init /\ [][Next]_vars

-----------------------------------------------------------------------------
RowsOf(n) == {e \in log : e.name = n}
Newest(entries) == CHOOSE e \in entries : \A x \in entries : x.id <= e.id

(* The tables hold what the schema allows: one log row per id, no two       *)
(* bookmarks with one log_id, and a lock row has one holder.                *)
BookmarksTypeOK ==
    /\ bookmarks \in [Names -> [cs : Changesets \cup {NoCs}, log_id : Nat]]
    /\ \A e, x \in log : e.id = x.id => e = x
    /\ \A m, n \in Names : m # n /\ Present(bookmarks[m]) => bookmarks[m].log_id # bookmarks[n].log_id
    /\ held \in [Names -> Writers \cup {NoWriter}]
    /\ \A w \in Writers : txn[w].outcome \in Outcomes /\ txn[w].attempt \in 0 .. MaxAttempts

(* Replaying bookmarks_update_log in id order gives the bookmarks table:   *)
(* the newest row of a bookmark says where it is.  This is what hg sync,   *)
(* backsyncer and modern sync rely on, and it needs ids of one bookmark to *)
(* be in the order of their transactions, on both paths of attempt_write   *)
(* and in a locked transaction.                                            *)
LogReplaysToBookmarks ==
    ~overlap => \A n \in Names : RowsOf(n) # {} => Newest(RowsOf(n)).new = bookmarks[n].cs

(* The rows of one bookmark have their ids in commit order, with           *)
(* per-bookmark locks because the id is taken under the lock.              *)
CommitOrderIsIdOrder ==
    [][\A e \in log' \ log, x \in log : ~overlap /\ e.name = x.name => x.id < e.id]_vars

(* As long as every id came from MAX(id) + 1, all rows of the repository   *)
(* have their ids in commit order: an id from a stale snapshot is not free *)
(* any more, and the transaction is tried again.                           *)
LegacyIdsInCommitOrder ==
    [][autoInc = 0 /\ ~replica => \A e \in log' \ log, x \in log : x.id < e.id]_vars

(* allocate_log_ids_from_sequence: "the next auto-increment allocation     *)
(* cannot collide with an existing (repo_id, id) row", through changes of  *)
(* the knob in either direction, as long as no attempts of the two kinds   *)
(* were in flight together.                                                *)
AllocatedIdsAreFree ==
    \A w \in Writers :
        (txn[w].locking /\ ~replica /\ ~overlap) =>
            {txn[w].ids[i] : i \in DOMAIN txn[w].ids} \cap Ids(log) = {}

(* acquire_bookmark_locks: "Locks are acquired in sorted order to prevent   *)
(* deadlocks".  Transactions of the new path wait in a circle only when two *)
(* of them create lock rows that fall in one gap, which both have locked:   *)
(* not for lock rows that are there, and not later, for while ids are free  *)
(* a transaction that holds its locks waits for nobody.                     *)
LocksNeverDeadlock ==
    ~overlap => \A C \in SUBSET {w \in Writers : txn[w].locking} :
        Circular(C) =>
            \E v, w \in C :
                /\ v # w /\ Creating(v) /\ Creating(w)
                /\ SameGap(Min(txn[v].wants), Min(txn[w].wants))

(* commit_with_hooks runs up to ten transactions, and at most one of them  *)
(* takes effect; Some is answered when one did, None and AlreadyProcessed  *)
(* when none did.                                                          *)
OneCommitPerCall ==
    \A w \in Writers :
        /\ txn[w].commits <= 1
        /\ txn[w].outcome = "some" => txn[w].commits = 1
        /\ txn[w].outcome \in {"null", "processed"} => txn[w].commits = 0

(* store_mirror_batches: however batches are replayed, regrouped or raced, *)
(* the log of a replica is the source's up to the id its bookmark carries. *)
ReplicaFollowsSource ==
    replica =>
        \A n \in Names :
            RowsOf(n) = {LogRowOfMove(Source[i]) :
                            i \in {j \in MovesOf(n) : Source[j].log_id <= bookmarks[n].log_id}}

(* A bookmark whose last row a subscription is past has, in the             *)
(* subscription, the value it has in the table.  Exempt are what refresh    *)
(* protects (a deleted master) and a row that creates_or_updates left with  *)
(* an older log_id than its newest log row.                                 *)
SubscriptionIsCurrent ==
    ~overlap => \A n \in Names :
        LET newest == Newest(RowsOf(n))
        IN  (RowsOf(n) # {} /\ newest.id <= sub.log_id) =>
                \/ sub.bookmarks[n] = bookmarks[n].cs
                \/ ~Present(bookmarks[n]) /\ n = Master
                \/ Present(bookmarks[n]) /\ bookmarks[n].log_id # newest.id

(* As long as every id came from MAX(id) + 1, a subscription misses no     *)
(* change, whatever the order in which concurrent transactions took their  *)
(* ids and committed.                                                      *)
LegacySubscriptionIsCurrent == autoInc = 0 => SubscriptionIsCurrent

(* ... and a tailer misses no row. *)
LegacyTailerMissesNothing ==
    autoInc = 0 => \A id \in Ids(log) : id <= tail.last => id \in tail.seen
=============================================================================
