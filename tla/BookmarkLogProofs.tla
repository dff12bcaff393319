------------------------- MODULE BookmarkLogProofs --------------------------
(***************************************************************************)
(* For any writers, bookmarks, payloads and limits: what a reader of       *)
(* bookmarks_update_log may rely on. The log replays to the rows of        *)
(* bookmarks, a tailer misses no entry and a subscription is current.      *)
(***************************************************************************)
EXTENDS BookmarkOrderProofs, FiniteSetTheorems

(* Replaying the log.  A transaction that may still commit has one pending *)
(* row for each bookmark it logs a move of, where its last move says.      *)
LastOf(E, n, cs) == \E e \in E : e.name = n /\ e.new = cs /\ \A x \in E : x.name = n => x.id <= e.id

PendOK(t) ==
    /\ \A e \in t.entries : e.name \in DOMAIN t.pend
    /\ \A n \in DOMAIN t.pend : LastOf(t.entries, n, t.pend[n].cs)

MayCommit(t, K) == t.locking \/ t.snap[1].log = Top(K)

ReplayInv ==
    ~replica /\ ~overlap =>
        /\ \A n \in Names : RowsOf(n) # {} => LastOf(log, n, bookmarks[n].cs)
        /\ \A w \in Writers : txn[w].pc \in {"write", "commit"} /\ MayCommit(txn[w], Ids(log)) => PendOK(txn[w])

(* The first states. *)
LEMMA InitReplay == Init => ReplayInv
<1> SUFFICES ASSUME Init, ~replica PROVE ReplayInv
  BY Zenon DEF ReplayInv
<1>1. \A w \in Writers : txn[w].pc = "idle"
  BY InitRecords, FreshBlank, Zenon
<1> DEFINE first == Min(Names)
           c == CHOOSE x \in Changesets : TRUE
<1>2. /\ log = {[id |-> 1, name |-> first, old |-> NoCs, new |-> c]}
      /\ bookmarks = [n \in Names |-> IF n = first THEN [cs |-> c, log_id |-> 1] ELSE NoRow]
  BY Zenon DEF Init, StoreInit
<1> HIDE DEF first, c
<1>3. PICK e : e = [id |-> 1, name |-> first, old |-> NoCs, new |-> c]
  BY Zenon
<1>4. e.id = 1 /\ e.name = first /\ e.new = c /\ log = {e}
  BY <1>2, <1>3, Zenon
<1>5. ASSUME NEW n \in Names, RowsOf(n) # {} PROVE LastOf(log, n, bookmarks[n].cs)
  <2>1. n = first
    BY <1>4, <1>5, Zenon DEF RowsOf
  <2>2. bookmarks[n].cs = c
    BY <1>2, <2>1, Zenon
  <2> QED
    BY <1>4, <2>1, <2>2 DEF LastOf
<1> QED
  BY <1>1, <1>5, Zenon DEF ReplayInv

(* Every step keeps it. *)
LEMMA NextReplay ==
  ASSUME LogInv, ReplayInv, [Next]_vars
  PROVE  ReplayInv'
(* Every step of a writer keeps the log replayable. *)
<1>ReplayStep. ASSUME ~replica, replica' = replica, NEW w \in Writers, Described(w, txn[w], txn'[w]),
                      \A v \in Writers \ {w} : txn'[v] = txn[v]
               PROVE  ReplayInv'
                      (* Without a clash the row of an operation says where it moves to. *)
  <2> USE <1>ReplayStep
  <2>WrittenOwn. ASSUME NEW view \in [Names -> Rows], NEW op \in Operations, NEW id \in Nat,
                        Clash(view, op.name, id) = {}
                 PROVE  Written(view, op, id)[op.name].cs = op.new
    <3> USE <2>WrittenOwn
    <3> DEFINE n == op.name
               new == [cs |-> op.new, log_id |-> id]
               rows == Written(view, op, id)
    <3>1. n \in Names /\ op.kind \in {"force_set", "create", "create_or_update", "update", "delete", "force_delete"}
          /\ (op.kind \in {"delete", "force_delete"} => op.new = NoCs)
      BY Zenon DEF Operations
    <3>2. new.cs = op.new /\ NoRow.cs = NoCs
      BY Zenon DEF NoRow
    <3>3. view[n] \in Rows
      BY <3>1, Zenon
    <3>4. CASE op.kind = "force_set"
      <4>1. rows = [m \in Names |-> IF m = n THEN new ELSE IF m \in Clash(view, n, id) THEN NoRow ELSE view[m]]
        BY <3>4, Zenon DEF Written
      <4> HIDE DEF rows, new, n
      <4>2. rows[n].cs = op.new
        BY <3>1, <3>2, <4>1, Zenon
      <4> QED
        BY <4>2, Zenon DEF rows, n
    <3>5. CASE rows = [view EXCEPT ![n].cs = op.new]
      <4>1. PICK r : r = [view[n] EXCEPT !.cs = op.new]
        BY Zenon
      <4>2. r.cs = op.new
        BY <3>3, <4>1, Zenon DEF Rows
      <4>3. rows = [view EXCEPT ![n] = r]
        BY <3>5, <4>1, Zenon
      <4> HIDE DEF rows
      <4>4. rows[n] = r
        BY <3>1, <4>3, Zenon
      <4> QED
        BY <4>2, <4>4, Zenon DEF rows
    <3>6. CASE rows = [view EXCEPT ![n] = new]
      <4> HIDE DEF rows, new
      <4>1. rows[n] = new
        BY <3>1, <3>6, Zenon
      <4> QED
        BY <3>2, <4>1, Zenon DEF rows
    <3>7. CASE op.kind = "create_or_update"
      <4>1. rows = [view EXCEPT ![n].cs = op.new] \/ rows = [view EXCEPT ![n] = new]
        BY <3>7, Zenon DEF Written
      <4> QED
        BY <3>5, <3>6, <4>1, Zenon
    <3>8. CASE op.kind \in {"create", "update"}
      <4>1. rows = [view EXCEPT ![n] = new]
        BY <3>8, Zenon DEF Written
      <4> QED
        BY <3>6, <4>1, Zenon
    <3>9. CASE op.kind \in {"delete", "force_delete"}
      <4>1. rows = [view EXCEPT ![n] = NoRow]
        BY <3>9, Zenon DEF Written
      <4> HIDE DEF rows
      <4>2. rows[n] = NoRow
        BY <3>1, <4>1, Zenon
      <4> QED
        BY <3>1, <3>2, <3>9, <4>2, Zenon DEF rows
    <3> QED
      BY <3>1, <3>4, <3>7, <3>8, <3>9, Zenon
  (* The next id of a transaction that may commit is in no row it sees. *)
  <2>NextIdIsFree. ASSUME ~overlap, txn[w].pc = "write", txn[w].todo # <<>>, MayCommit(txn[w], Ids(log))
                   PROVE  /\ Head(txn[w].ids) \in Nat /\ \A e \in Ids(txn[w].entries) : e < Head(txn[w].ids)
                          /\ \A n \in Names : Clash(View(w), n, Head(txn[w].ids)) = {}
    <3> USE <2>NextIdIsFree
    <3> DEFINE s == txn[w]
               id == Head(s.ids)
               K == Ids(log)
               E == Ids(s.entries)
    <3>1. /\ RowOK(s, K) /\ ShapeOK(s, autoInc) /\ UniqueOK(s, K, autoInc) /\ OldOK(s, K) /\ Topped(K)
      BY Zenon DEF LogInv, WriterInv, RowInv, LegacyInv, UniqueInv, OldInv
    <3>2. s.ids \in Seq(Nat) /\ s.ids # <<>>
      BY <3>1, NextIds, Zenon
    <3>3. id \in Nat /\ 1 \in DOMAIN s.ids /\ s.ids[1] = id
      BY <3>2, TailOne, Zenon
    <3>4. id # 0 /\ \A e \in E : e < id
      BY <3>1, <3>3, Zenon DEF UniqueOK
    <3>5. id \notin K
      <4>1. CASE s.locking
        <5>1. IdsOf(s) \cap K = {}
          BY <4>1, Zenon DEF LogInv, WriterInv, FreshInv, FreshOK
        <5>2. id \in IdsOf(s)
          BY <3>3, Zenon DEF IdsOf, Allocated
        <5> QED
          BY <5>1, <5>2, Zenon
      <4>2. CASE ~s.locking
        <5> DEFINE b == Top(K)
        <5>1. b \in Nat /\ \A x \in K : x <= b
          BY <3>1, TopOf, Zenon
        <5>2. s.snap[1].log = b
          BY <4>2, Zenon DEF MayCommit
        <5>3. PICK last \in Nat : b <= last /\ \A i \in DOMAIN s.ids : s.ids[i] = last + i
          BY <3>1, <4>2, <5>2, Zenon DEF OldOK
        <5> HIDE DEF b
        <5>4. b < id
          BY <3>3, <5>1, <5>3
        <5> QED
          BY <3>3, <5>1, <5>4
      <4> QED
        BY <4>1, <4>2, Zenon
    <3>6. \A n \in Names : View(w)[n].log_id \in {0} \cup K \cup E
      BY ViewRows, Zenon DEF LogInv, WriterInv
    <3>7. E \subseteq Nat
      BY <3>1, Zenon DEF ShapeOK, Topped
    <3> HIDE DEF id, K, E
    <3>8. id \notin E
      BY <3>3, <3>4, <3>7
    <3>9. \A n \in Names : Clash(View(w), n, id) = {}
      BY <3>4, <3>5, <3>6, <3>8, Zenon DEF Clash
    <3> QED
      BY <3>3, <3>4, <3>9, Zenon DEF id, E
  (* A row written by a transaction that may commit. *)
  <2>WritesPend. ASSUME ~overlap, NEW t, Writes(w, txn[w], t), MayCommit(txn[w], Ids(log)), PendOK(txn[w])
                 PROVE  PendOK(t)
    <3> USE <2>WritesPend
    <3> DEFINE s == txn[w]
               op == Head(s.todo)
               id == Head(s.ids)
               V == View(w)
               rows == Written(V, op, id)
               row == LogRow(op, id)
               D == Changed(w, rows) \cup {op.name}
               P == DOMAIN s.pend
    <3>1. s.pc = "write" /\ s.todo # <<>> /\ t.entries = s.entries \cup {row} /\ t.pend = [n \in D |-> rows[n]]
      BY Zenon DEF Writes
    <3>2. RowOK(s, Ids(log)) /\ Topped(Ids(s.entries))
      BY Zenon DEF LogInv, WriterInv, RowInv, LegacyInv, ShapeOK
    <3>3. op \in Operations /\ P \subseteq Names
      <4>1. s.todo \in Seq(Operations) /\ P \subseteq Names
        BY <3>2, Zenon DEF RowOK
      <4> QED
        BY <3>1, <4>1, SeqHead, Zenon
    <3>4. op.name \in Names
      BY <3>3, Zenon DEF Operations
    <3>5. id \in Nat /\ (\A e \in Ids(s.entries) : e < id) /\ Clash(V, op.name, id) = {}
      BY <3>1, <3>4, <2>NextIdIsFree, Zenon
    <3>6. V \in [Names -> Rows] /\ \A n \in Names : V[n] = IF n \in P THEN s.pend[n] ELSE bookmarks[n]
      BY ViewRows, Zenon DEF LogInv, WriterInv
    <3>7. row.id = id /\ row.name = op.name /\ row.new = op.new
      BY Zenon DEF LogRow
    <3>8. D = {n \in Names : rows[n] # bookmarks[n] \/ n \in P} \cup {op.name}
      BY Zenon DEF Changed, Touched
    <3>9. (\A m \in Names \ {op.name} : rows[m] = V[m]) /\ rows[op.name].cs = op.new
      <4> HIDE DEF V, op, id
      <4>1. V \in [Names -> Rows] /\ op \in Operations /\ id \in Nat /\ Clash(V, op.name, id) = {}
        BY <3>3, <3>5, <3>6, Zenon
      <4> QED
        BY ONLY <4>1, WrittenRows, <2>WrittenOwn, Zenon
    <3>10. \A e \in s.entries : e.id \in Ids(s.entries) /\ e.id \in Nat
      BY <3>2, Zenon DEF Ids, Topped
    <3> HIDE DEF op, id, V, rows, row, D, P
    <3>11. D = P \cup {op.name}
      <4>1. ASSUME NEW n \in D, n # op.name PROVE n \in P
        BY <3>6, <3>8, <3>9, <4>1, Zenon
      <4>2. P \cup {op.name} \subseteq D
        BY <3>3, <3>8, Zenon
      <4> QED
        BY <4>1, <4>2, Zenon
    <3>12. DOMAIN t.pend = D /\ \A n \in D : t.pend[n] = rows[n]
      BY <3>1, Zenon
    <3>13. \A e \in s.entries : e.id < id /\ e.id <= id
      BY <3>5, <3>10
    <3>14. LastOf(t.entries, op.name, t.pend[op.name].cs)
      <4>1. row \in t.entries /\ t.pend[op.name].cs = row.new
        BY <3>1, <3>7, <3>9, <3>11, <3>12, Zenon
      <4>2. \A x \in t.entries : x.id <= row.id
        BY <3>1, <3>5, <3>7, <3>13
      <4> QED
        BY <3>7, <4>1, <4>2, Zenon DEF LastOf
    <3>15. ASSUME NEW n \in P, n # op.name PROVE LastOf(t.entries, n, t.pend[n].cs)
      <4>1. t.pend[n] = s.pend[n]
        BY <3>3, <3>6, <3>9, <3>11, <3>12, <3>15, Zenon
      <4>2. PICK e \in s.entries : e.name = n /\ e.new = s.pend[n].cs /\ \A x \in s.entries : x.name = n => x.id <= e.id
        BY Zenon DEF PendOK, LastOf, P
      <4>3. \A x \in t.entries : x.name = n => x \in s.entries
        BY <3>1, <3>7, <3>15, Zenon
      <4> QED
        BY <3>1, <4>1, <4>2, <4>3, Zenon DEF LastOf
    <3>16. \A e \in t.entries : e.name \in DOMAIN t.pend
      BY <3>1, <3>7, <3>11, <3>12, Zenon DEF PendOK, P
    <3> QED
      BY <3>11, <3>12, <3>14, <3>15, <3>16, Zenon DEF PendOK
  (* Rows are pending only in a transaction that writes. *)
  <2>NothingPends. ASSUME NEW t, t.pend = <<>>, t.entries = {}
                   PROVE  PendOK(t)
    BY <2>NothingPends DEF PendOK
  (* The record of w after a step that is not a commit. *)
  <2>PendRecord. ASSUME ~overlap, NEW t, Described(w, txn[w], t), ~Takes(w, txn[w], t),
                        t.pc \in {"write", "commit"}, MayCommit(t, Ids(log))
                 PROVE  PendOK(t)
    <3> USE <2>PendRecord
    <3> DEFINE s == txn[w]
               K == Ids(log)
    <3>1. RecordOK(s, replica)
      BY Zenon DEF LogInv, WriterInv, LockInv
    <3>2. s.pc = "write" /\ MayCommit(s, K) => PendOK(s)
      BY Zenon DEF ReplayInv
    <3>3. CASE Allocates(w, s, t) \/ FindsNext(w, s, t)
      <4>1. s.pc \in {"alloc", "max"} /\ t.pend = s.pend /\ t.entries = s.entries
        BY <3>3, Zenon DEF Allocates, FindsNext
      <4>2. s.pend = <<>> /\ s.entries = {}
        BY <3>1, <4>1, Zenon DEF RecordOK
      <4> QED
        BY <4>1, <4>2, <2>NothingPends, Zenon
    <3>4. CASE Writes(w, s, t)
      <4>1. s.pc = "write" /\ t.locking = s.locking /\ t.snap = s.snap
        BY <3>4, Zenon DEF Writes, Within
      <4>2. MayCommit(s, K)
        BY <4>1, Zenon DEF MayCommit
      <4> QED
        BY <3>2, <3>4, <4>1, <4>2, <2>WritesPend, Zenon
    <3>5. CASE Logs(w, s, t)
      <4>1. s.pc = "write" /\ t.locking = s.locking /\ t.snap = s.snap /\ t.pend = s.pend /\ t.entries = s.entries
        BY <3>5, Zenon DEF Logs, Within
      <4>2. PendOK(s)
        BY <3>2, <4>1, Zenon DEF MayCommit
      <4> QED
        BY <4>1, <4>2, Zenon DEF PendOK
    <3>6. CASE Mirrors(w, s, t)
      <4>1. s.pc = "mirror"
        BY <3>6, Zenon DEF Mirrors
      <4> QED
        BY <4>1, Zenon DEF LogInv, WriterInv, LegacyInv, ShapeOK
    <3>7. CASE \/ Begins(w, s, t) \/ Ends(w, s, t) \/ StartsLocking(w, s, t) \/ StartsLegacy(w, s, t)
               \/ AsksLock(w, s, t) \/ HasLocks(w, s, t) \/ CallerWrites(w, s, t) \/ (\E g : Seeds(w, s, t, g))
      BY <3>7, Zenon DEF Begins, Ends, StartsLocking, StartsLegacy, AsksLock, HasLocks, CallerWrites, Seeds
    <3> QED
      BY <3>3, <3>4, <3>5, <3>6, <3>7, Zenon DEF Described
  (* The rows of a bookmark that a commit adds none of. *)
  <2>LastOfUnion. ASSUME NEW E, NEW F, NEW n, NEW cs, LastOf(E, n, cs), \A x \in F : x.name # n
                  PROVE  LastOf(E \cup F, n, cs)
    BY <2>LastOfUnion, Zenon DEF LastOf
  (* A commit of rows that all come after those of the log. *)
  <2>TakesReplay. ASSUME ~overlap, txn[w].pc = "commit", txn[w].entries # {}, NEW n \in Names,
                         \E x \in log \cup txn[w].entries : x.name = n
                  PROVE  LastOf(log \cup txn[w].entries, n, View(w)[n].cs)
    <3> USE <2>TakesReplay
    <3> DEFINE s == txn[w]
               K == Ids(log)
    <3>1. MayCommit(s, K)
      BY Zenon DEF LogInv, OldInv, OldOK, MayCommit
    <3>2. PendOK(s)
      BY <3>1, Zenon DEF ReplayInv
    <3>3. View(w)[n] = IF n \in DOMAIN s.pend THEN s.pend[n] ELSE bookmarks[n]
      BY ViewRows, Zenon DEF LogInv, WriterInv
    <3>4. CASE n \in DOMAIN s.pend
      <4>1. PICK e \in s.entries : e.name = n /\ e.new = s.pend[n].cs /\ \A x \in s.entries : x.name = n => x.id <= e.id
        BY <3>2, <3>4, Zenon DEF PendOK, LastOf
      <4>2. \A x \in log : x.name = n => x.id < e.id
        BY <4>1, TakesInOrder, Zenon
      <4>3. e.id \in Nat /\ \A x \in log : x.id \in Nat
        BY Zenon DEF LogInv, WriterInv, LegacyInv, ShapeOK, Topped, Ids
      <4>4. \A x \in log : x.name = n => x.id <= e.id
        BY <4>2, <4>3
      <4> QED
        BY <3>3, <3>4, <4>1, <4>4, Zenon DEF LastOf
    <3>5. CASE n \notin DOMAIN s.pend
      <4>1. \A x \in s.entries : x.name # n
        BY <3>2, <3>5, Zenon DEF PendOK
      <4>2. RowsOf(n) # {}
        BY <4>1, Zenon DEF RowsOf
      <4>3. LastOf(log, n, bookmarks[n].cs)
        BY <4>2, Zenon DEF ReplayInv
      <4> QED
        BY <3>3, <3>5, <4>1, <4>3, <2>LastOfUnion, Zenon
    <3> QED
      BY <3>4, <3>5, Zenon
  (* One that may commit after another has could do so before. *)
  <2>MayCommitEarlier. ASSUME ~overlap, txn[w].pc = "commit", txn[w].entries # {}, NEW v \in Writers,
                              txn[v].pc \in {"write", "commit"}, MayCommit(txn[v], Ids(log \cup txn[w].entries))
                       PROVE  MayCommit(txn[v], Ids(log))
    <3> USE <2>MayCommitEarlier
    <3> DEFINE K == Ids(log)
               E == Ids(txn[w].entries)
               a == txn[v].snap[1].log
    <3> SUFFICES ASSUME ~txn[v].locking PROVE FALSE
      BY Zenon DEF MayCommit
    <3>1. a = Top(K \cup E)
      BY IdsUnion, Zenon DEF MayCommit
    <3>2. ~txn[w].locking
      <4>1. txn[w].pc \in Running /\ txn[v].pc \in Running
        BY Zenon DEF Running
      <4> QED
        BY <4>1, Zenon DEF LogInv, WriterInv, OverlapInv
    <3>3. Top(K) \in Nat /\ Topped(K \cup E) /\ Top(K) < Top(K \cup E)
      BY <3>2, OldTakes, Zenon DEF LogInv, WriterInv
    <3>4. a \in 0 .. Top(K)
      BY Zenon DEF LogInv, OldInv, OldOK
    <3>5. Top(K \cup E) \in Nat
      BY <3>3, TopOf, Zenon
    <3> HIDE DEF K, E, a
    <3> QED
      BY <3>1, <3>3, <3>4, <3>5
  <2> DEFINE s == txn[w]
             t == txn'[w]
  <2> SUFFICES ASSUME ~overlap'
               PROVE  /\ \A n \in Names : (\E x \in log' : x.name = n) => LastOf(log', n, bookmarks'[n].cs)
                      /\ \A v \in Writers : txn'[v].pc \in {"write", "commit"} /\ MayCommit(txn'[v], Ids(log')) => PendOK(txn'[v])
    <3>1. \A n \in Names : RowsOf(n)' # {} => \E x \in log' : x.name = n
      BY Zenon DEF RowsOf
    <3> QED
      BY <3>1, Zenon DEF ReplayInv
  <2>1. ~overlap
    BY OverlapStep, Zenon DEF LogInv, WriterInv
  <2>2. \A n \in Names : (\E x \in log : x.name = n) => LastOf(log, n, bookmarks[n].cs)
    BY <2>1, Zenon DEF ReplayInv, RowsOf
  <2>3. \A v \in Writers : txn[v].pc \in {"write", "commit"} /\ MayCommit(txn[v], Ids(log)) => PendOK(txn[v])
    BY <2>1, Zenon DEF ReplayInv
  <2>4. CASE ~Takes(w, s, t)
    <3>1. bookmarks' = bookmarks /\ log' = log
      BY <2>4, UniqueRecord, Zenon DEF SameTables, LogInv, WriterInv
    <3>2. t.pc \in {"write", "commit"} /\ MayCommit(t, Ids(log)) => PendOK(t)
      BY <2>1, <2>4, <2>PendRecord, Zenon
    <3> QED
      BY <2>2, <2>3, <3>1, <3>2, Zenon
  <2>5. CASE Takes(w, s, t)
    <3>1. s.pc = "commit" /\ t.pc = "done" /\ bookmarks' = View(w) /\ log' = log \cup s.entries
      BY <2>5, Zenon DEF Takes
    <3>2. CASE s.entries = {}
      <4>1. log' = log
        BY <3>1, <3>2, Zenon
      <4>2. s.pend = <<>>
        BY <3>2, Zenon DEF LogInv, UniqueInv, UniqueOK
      <4>3. \A n \in Names : bookmarks'[n] = bookmarks[n]
        BY <3>1, <4>2, ViewRows DEF LogInv, WriterInv
      <4> QED
        BY <2>2, <2>3, <3>1, <4>1, <4>3, Zenon
    <3>3. CASE s.entries # {}
      <4>1. \A n \in Names : (\E x \in log' : x.name = n) => LastOf(log', n, bookmarks'[n].cs)
        BY <2>1, <3>1, <3>3, <2>TakesReplay, Zenon
      <4>2. \A v \in Writers \ {w} : txn[v].pc \in {"write", "commit"} /\ MayCommit(txn[v], Ids(log')) => PendOK(txn[v])
        BY <2>1, <2>3, <3>1, <3>3, <2>MayCommitEarlier, Zenon
      <4> QED
        BY <3>1, <4>1, <4>2, Zenon
    <3> QED
      BY <3>2, <3>3, Zenon
  <2> QED
    BY <2>4, <2>5, Zenon
<1>1. CASE UNCHANGED writerVars
  <2>1. UNCHANGED <<bookmarks, log, txn, replica, overlap>>
    BY <1>1, Zenon DEF writerVars
  <2>2. \A n \in Names : RowsOf(n)' = RowsOf(n)
    BY <2>1, Zenon DEF RowsOf
  <2> QED
    BY <2>1, <2>2, ZenonT(60) DEF ReplayInv
<1>2. CASE \E w \in Writers : StoreStep(w)
  <2>1. PICK w \in Writers : StoreStep(w)
    BY <1>2, Zenon
  <2>2. replica' = replica /\ Described(w, txn[w], txn'[w]) /\ \A v \in Writers \ {w} : txn'[v] = txn[v]
    BY <2>1, LockStep, Zenon DEF LogInv, WriterInv
  <2>3. CASE replica
    BY <2>2, <2>3, Zenon DEF ReplayInv
  <2>4. CASE ~replica
    BY <2>2, <2>4, <1>ReplayStep, Zenon
  <2> QED
    BY <2>3, <2>4, Zenon
<1> QED
  BY <1>1, <1>2, WriterCases, Zenon

(* The newest row of a bookmark. *)
LEMMA NewestIsLast ==
  ASSUME NEW E, UniqueIds(E), \A e \in E : e.id \in Nat,
         NEW e \in E, \A x \in E : x.id <= e.id
  PROVE  Newest(E) = e
<1>1. Newest(E) \in E /\ \A x \in E : x.id <= Newest(E).id
  BY Zenon DEF Newest
<1>2. Newest(E).id = e.id
  BY <1>1
<1> QED
  BY <1>1, <1>2, Zenon DEF UniqueIds

(* hg sync, backsyncer and modern sync replay bookmarks_update_log in id   *)
(* order.  For any writers, payloads, bookmarks and source, and whatever   *)
(* fails: the newest row of a bookmark says where the bookmark is, unless  *)
(* attempts of the two kinds were in flight together.                      *)
THEOREM LogReplays == Spec => []LogReplaysToBookmarks
(* On a replica the row of n is where the newest of the mirrored moves of  *)
(* n went.                                                                 *)
<1>ReplicaReplays. ASSUME FollowInv, replica, NEW n \in Names, RowsOf(n) # {}
                   PROVE  UniqueIds(RowsOf(n)) /\ (\A e \in RowsOf(n) : e.id \in Nat) /\ LastOf(RowsOf(n), n, bookmarks[n].cs)
  <2> USE <1>ReplicaReplays
  <2> DEFINE S == Stored(n, bookmarks[n].log_id)
  <2>1. RowsOf(n) = MirrorRows(S) /\ Carries(bookmarks[n], n)
    BY Zenon DEF FollowInv
  <2>2. \A i \in S : i \in MovesOf(n) /\ Source[i].log_id <= bookmarks[n].log_id
    BY Zenon DEF Stored
  <2>3. \A i \in MovesOf(n) : i \in DOMAIN Source /\ i \in Nat /\ Source[i].name = n /\ Source[i].log_id \in Nat /\ Source[i].log_id # 0
    BY SourceMoves DEF MovesOf
  <2>4. \A e \in RowsOf(n) : \E i \in S : e = LogRowOfMove(Source[i])
    BY <2>1, Zenon DEF MirrorRows
  <2>5. UniqueIds(RowsOf(n))
    <3> SUFFICES ASSUME NEW e \in RowsOf(n), NEW x \in RowsOf(n), e.id = x.id PROVE e = x
      BY Zenon DEF UniqueIds
    <3>1. PICK i \in S : e = LogRowOfMove(Source[i])
      BY <2>4, Zenon
    <3>2. PICK j \in S : x = LogRowOfMove(Source[j])
      BY <2>4, Zenon
    <3>3. Source[i].log_id = Source[j].log_id
      BY <3>1, <3>2, MoveRow, Zenon
    <3>4. i \in DOMAIN Source /\ j \in DOMAIN Source /\ i \in Nat /\ j \in Nat /\ Source[i].log_id \in Nat
      BY <2>2, <2>3, Zenon
    <3>5. i <= j /\ j <= i
      BY <3>3, <3>4, SourceMoves
    <3>6. i = j
      BY <3>4, <3>5
    <3> QED
      BY <3>1, <3>2, <3>6, Zenon
  <2>6. \A e \in RowsOf(n) : e.id \in Nat /\ e.id <= bookmarks[n].log_id
    BY <2>2, <2>3, <2>4, MoveRow
  <2>7. PICK i \in MovesOf(n) : bookmarks[n] = RowOfMove(i)
    <3>1. bookmarks[n] # NoRow
      <4> SUFFICES ASSUME bookmarks[n] = NoRow PROVE FALSE
        BY Zenon
      <4>1. bookmarks[n].log_id = 0
        BY DEF NoRow
      <4>2. S = {}
        BY <2>2, <2>3, <4>1
      <4> QED
        BY <2>4, <4>2, Zenon
    <3> QED
      BY <2>1, <3>1, Zenon DEF Carries
  <2>8. i \in S /\ bookmarks[n].cs = Source[i].new /\ bookmarks[n].log_id = Source[i].log_id
    BY <2>3, <2>7, MoveRow DEF Stored
  <2>9. LogRowOfMove(Source[i]) \in RowsOf(n)
    BY <2>1, <2>8, Zenon DEF MirrorRows
  <2>10. LastOf(RowsOf(n), n, bookmarks[n].cs)
    <3>1. PICK e \in RowsOf(n) : e = LogRowOfMove(Source[i])
      BY <2>9, Zenon
    <3>2. e.name = n /\ e.new = bookmarks[n].cs /\ e.id = bookmarks[n].log_id
      BY <2>3, <2>8, <3>1, MoveRow, Zenon
    <3> QED
      BY <2>6, <3>2, Zenon DEF LastOf
  <2> QED
    BY <2>5, <2>6, <2>10, Zenon
<1> DEFINE I == LogInv /\ ReplayInv
<1>1. Init => I
  BY InitLog, InitReplay, Zenon
<1>2. I /\ [Next]_vars => I'
  BY NextLog, NextReplay, Zenon
<1>3. I => LogReplaysToBookmarks
  <2> SUFFICES ASSUME I, ~overlap, NEW n \in Names, RowsOf(n) # {} PROVE Newest(RowsOf(n)).new = bookmarks[n].cs
    BY Zenon DEF LogReplaysToBookmarks
  <2>1. UniqueIds(RowsOf(n)) /\ (\A e \in RowsOf(n) : e.id \in Nat) /\ LastOf(RowsOf(n), n, bookmarks[n].cs)
    <3>1. CASE replica
      BY <3>1, <1>ReplicaReplays, Zenon DEF LogInv
    <3>2. CASE ~replica
      <4>1. UniqueIds(log) /\ \A e \in log : e.id \in Nat
        BY <3>2, Zenon DEF LogInv, WriterInv, LegacyInv, UniqueInv, Topped, Ids
      <4>2. LastOf(log, n, bookmarks[n].cs)
        BY <3>2, Zenon DEF ReplayInv
      <4> QED
        BY <4>1, <4>2, Zenon DEF RowsOf, UniqueIds, LastOf
    <3> QED
      BY <3>1, <3>2, Zenon
  <2>2. PICK e \in RowsOf(n) : e.new = bookmarks[n].cs /\ \A x \in RowsOf(n) : x.id <= e.id
    BY <2>1, Zenon DEF LastOf, RowsOf
  <2>3. Newest(RowsOf(n)) = e
    BY <2>1, <2>2, NewestIsLast, Zenon
  <2> QED
    BY <2>2, <2>3, Zenon
<1> QED
  BY <1>1, <1>2, <1>3, PTL DEF Spec

-----------------------------------------------------------------------------
(* UNIQUE (repo_id, log_id) of the bookmarks table.  A row carries the id  *)
(* of a log row of its own bookmark, on whatever paths it was written.     *)
NamedRow(r, n, E) == r = NoRow \/ (r.cs \in Changesets /\ \E e \in E : e.name = n /\ e.id = r.log_id)

NamedOK(t, L) == \A n \in DOMAIN t.pend : NamedRow(t.pend[n], n, L \cup t.entries)

NamedInv ==
    /\ bookmarks = [n \in Names |-> bookmarks[n]]
    /\ ~replica => /\ \A n \in Names : NamedRow(bookmarks[n], n, log)
                   /\ \A w \in Writers : NamedOK(txn[w], log)

(* The first states. *)
LEMMA InitNamed == Init => NamedInv
<1> SUFFICES ASSUME Init PROVE NamedInv
  BY Zenon
<1>1. \A w \in Writers : txn[w].pend = <<>>
  BY InitRecords, FreshBlank, Zenon DEF Blank, NoWork
<1>2. \A w \in Writers : NamedOK(txn[w], log)
  BY <1>1 DEF NamedOK
<1>3. bookmarks = [n \in Names |-> bookmarks[n]]
  BY Zenon DEF Init, StoreInit
<1>4. ASSUME ~replica, NEW n \in Names PROVE NamedRow(bookmarks[n], n, log)
  <2> DEFINE first == Min(Names)
             c == CHOOSE x \in Changesets : TRUE
  <2>1. /\ log = {[id |-> 1, name |-> first, old |-> NoCs, new |-> c]}
        /\ bookmarks = [m \in Names |-> IF m = first THEN [cs |-> c, log_id |-> 1] ELSE NoRow]
    BY <1>4, Zenon DEF Init, StoreInit
  <2>2. c \in Changesets
    BY SomeMove, Zenon
  <2> HIDE DEF first, c
  <2>3. PICK e : e = [id |-> 1, name |-> first, old |-> NoCs, new |-> c]
    BY Zenon
  <2>4. e.id = 1 /\ e.name = first /\ e \in log
    BY <2>1, <2>3, Zenon
  <2>5. bookmarks[n] = IF n = first THEN [cs |-> c, log_id |-> 1] ELSE NoRow
    BY <2>1, Zenon
  <2> QED
    BY <2>2, <2>4, <2>5 DEF NamedRow
<1> QED
  BY <1>2, <1>3, <1>4, Zenon DEF NamedInv

(* Every step keeps it. *)
LEMMA NextNamed ==
  ASSUME LogInv, NamedInv, [Next]_vars
  PROVE  NamedInv'
(* Every step of a writer keeps the rows of their bookmarks apart. *)
<1>NamedStep. ASSUME replica' = replica, NEW w \in Writers, Described(w, txn[w], txn'[w]),
                     \A v \in Writers \ {w} : txn'[v] = txn[v]
              PROVE  NamedInv'
                     (* Log rows are only added. *)
  <2> USE <1>NamedStep
  <2>NamedGrows. ASSUME NEW E, NEW F, E \subseteq F, NEW r, NEW n, NamedRow(r, n, E)
                 PROVE  NamedRow(r, n, F)
    BY <2>NamedGrows, Zenon DEF NamedRow
  (* A statement gives its own row the new id; a row that had that id before *)
  (* is deleted, or keeps it.                                                *)
  <2>WrittenNamed. ASSUME NEW view \in [Names -> Rows], NEW op \in Operations, NEW id \in Nat, id # 0, NEW E,
                          NEW e \in E, e.name = op.name, e.id = id, \A m \in Names : NamedRow(view[m], m, E)
                   PROVE  \A m \in Names : NamedRow(Written(view, op, id)[m], m, E)
    <3> USE <2>WrittenNamed
    <3> DEFINE n == op.name
               new == [cs |-> op.new, log_id |-> id]
               clash == Clash(view, n, id)
               rows == Written(view, op, id)
    <3>1. /\ n \in Names /\ op.kind \in {"force_set", "create", "create_or_update", "update", "delete", "force_delete"}
          /\ op.kind \notin {"delete", "force_delete"} => op.new \in Changesets
      BY Zenon DEF Operations
    <3>2. new.cs = op.new /\ new.log_id = id /\ NoRow.cs = NoCs /\ NoRow.log_id = 0
      BY Zenon DEF NoRow
    <3>3. op.new \in Changesets => NamedRow(new, n, E)
      BY <3>2, Zenon DEF NamedRow
    <3>4. \A m \in Names : NamedRow(NoRow, m, E)
      BY Zenon DEF NamedRow
    <3>5. ASSUME NEW k \in Names, NEW r, NamedRow(r, k, E), rows = [view EXCEPT ![k] = r]
          PROVE  \A m \in Names : NamedRow(rows[m], m, E)
      <4> HIDE DEF rows
      <4>1. \A m \in Names : rows[m] = IF m = k THEN r ELSE view[m]
        BY <3>5, Zenon
      <4> QED
        BY <3>5, <4>1, Zenon
    <3>6. ASSUME NEW k \in Names, view[k] # NoRow, op.new \in Changesets, rows = [view EXCEPT ![k].cs = op.new]
          PROVE  \A m \in Names : NamedRow(rows[m], m, E)
      <4>1. PICK r : r = [view[k] EXCEPT !.cs = op.new]
        BY Zenon
      <4>2. r.cs = op.new /\ r.log_id = view[k].log_id
        BY <4>1, Zenon DEF Rows
      <4>3. rows = [view EXCEPT ![k] = r]
        BY <3>6, <4>1, Zenon
      <4>4. NamedRow(r, k, E)
        BY <3>6, <4>2 DEF NamedRow
      <4> QED
        BY <3>5, <4>3, <4>4, Zenon
    <3>7. CASE op.kind = "force_set"
      <4>1. rows = [m \in Names |-> IF m = n THEN new ELSE IF m \in clash THEN NoRow ELSE view[m]]
        BY <3>7, Zenon DEF Written
      <4> HIDE DEF rows, new, clash
      <4>2. \A m \in Names : rows[m] = IF m = n THEN new ELSE IF m \in clash THEN NoRow ELSE view[m]
        BY <4>1, Zenon
      <4>3. \A m \in Names : NamedRow(rows[m], m, E)
        BY <3>1, <3>3, <3>4, <3>7, <4>2, Zenon
      <4> QED
        BY <4>3, Zenon DEF rows
    <3>8. CASE op.kind = "create_or_update"
      <4>1. CASE Present(view[n])
        <5>1. rows = [view EXCEPT ![n].cs = op.new]
          BY <3>8, <4>1, Zenon DEF Written
        <5>2. view[n] # NoRow
          BY <3>2, <4>1, Zenon DEF Present
        <5> QED
          BY <3>1, <3>6, <3>8, <5>1, <5>2, Zenon
      <4>2. CASE ~Present(view[n]) /\ clash = {}
        <5>1. rows = [view EXCEPT ![n] = new]
          BY <3>8, <4>2, Zenon DEF Written
        <5> QED
          BY <3>1, <3>3, <3>5, <3>8, <5>1, Zenon
      <4>3. CASE ~Present(view[n]) /\ clash # {}
        <5>1. PICK k : k = CHOOSE m \in clash : TRUE
          BY Zenon
        <5>2. k \in clash
          BY <4>3, <5>1, Zenon
        <5>3. k \in Names /\ view[k].log_id = id
          BY <5>2, Zenon DEF Clash
        <5>4. rows = [view EXCEPT ![k].cs = op.new]
          BY <3>8, <4>3, <5>1, Zenon DEF Written
        <5>5. view[k] # NoRow
          BY <3>2, <5>3, Zenon
        <5> QED
          BY <3>1, <3>6, <3>8, <5>3, <5>4, <5>5, ZenonT(30)
      <4> QED
        BY <4>1, <4>2, <4>3, Zenon
    <3>9. CASE op.kind \in {"create", "update"}
      <4>1. rows = [view EXCEPT ![n] = new]
        BY <3>9, Zenon DEF Written
      <4> QED
        BY <3>1, <3>3, <3>5, <3>9, <4>1, Zenon
    <3>10. CASE op.kind \in {"delete", "force_delete"}
      <4>1. rows = [view EXCEPT ![n] = NoRow]
        BY <3>10, Zenon DEF Written
      <4> QED
        BY <3>1, <3>4, <3>5, <4>1, Zenon
    <3> QED
      BY <3>1, <3>7, <3>8, <3>9, <3>10, Zenon
  (* The rows a transaction sees. *)
  <2>ViewNamed. ASSUME RowInv, ~replica
                PROVE  \A n \in Names : NamedRow(View(w)[n], n, log \cup txn[w].entries)
    <3> USE <2>ViewNamed
    <3> SUFFICES ASSUME NEW n \in Names PROVE NamedRow(View(w)[n], n, log \cup txn[w].entries)
      BY Zenon
    <3>1. View(w)[n] = IF n \in DOMAIN txn[w].pend THEN txn[w].pend[n] ELSE bookmarks[n]
      BY ViewRows, Zenon
    <3>2. NamedRow(bookmarks[n], n, log) /\ NamedOK(txn[w], log)
      BY Zenon DEF NamedInv
    <3>3. NamedRow(bookmarks[n], n, log \cup txn[w].entries)
      BY <3>2, <2>NamedGrows, Zenon
    <3> QED
      BY <3>1, <3>2, <3>3, Zenon DEF NamedOK
  (* The record of w after a step that is not a commit. *)
  <2>NamedRecord. ASSUME ~replica, NEW t, Described(w, txn[w], t), ~Takes(w, txn[w], t)
                  PROVE  NamedOK(t, log)
    <3> USE <2>NamedRecord
    <3> DEFINE s == txn[w]
    <3>1. RecordOK(s, replica) /\ ShapeOK(s, autoInc) /\ NamedOK(s, log) /\ RowOK(s, Ids(log)) /\ UniqueOK(s, Ids(log), autoInc)
      BY Zenon DEF LogInv, WriterInv, LockInv, LegacyInv, NamedInv, RowInv, UniqueInv
    <3>2. CASE Writes(w, s, t)
      <4> DEFINE op == Head(s.todo)
                 id == Head(s.ids)
                 V == View(w)
                 rows == Written(V, op, id)
                 row == LogRow(op, id)
                 E == log \cup s.entries \cup {row}
                 D == Changed(w, rows) \cup {op.name}
      <4>1. s.pc = "write" /\ s.todo # <<>> /\ t.entries = s.entries \cup {row} /\ t.pend = [n \in D |-> rows[n]]
        BY <3>2, Zenon DEF Writes
      <4>2. s.ids \in Seq(Nat) /\ s.ids # <<>>
        BY <3>1, <4>1, NextIds, Zenon
      <4>3. id \in Nat /\ 1 \in DOMAIN s.ids /\ s.ids[1] = id
        BY <4>2, TailOne, Zenon
      <4>4. id # 0
        BY <3>1, <4>3, Zenon DEF UniqueOK
      <4>5. op \in Operations
        <5>1. s.todo \in Seq(Operations)
          BY <3>1, Zenon DEF RowOK
        <5> QED
          BY <4>1, <5>1, SeqHead, Zenon
      <4>6. row.id = id /\ row.name = op.name
        BY Zenon DEF LogRow
      <4>7. V \in [Names -> Rows]
        BY ViewRows, Zenon DEF LogInv, WriterInv
      <4>8. \A m \in Names : NamedRow(V[m], m, log \cup s.entries)
        BY <2>ViewNamed, Zenon DEF LogInv, WriterInv
      <4>9. D \subseteq Names
        BY <4>5, Zenon DEF Changed, Operations
      <4> HIDE DEF op, id, V, row, D
      <4>10. \A m \in Names : NamedRow(V[m], m, E)
        BY <4>8, <2>NamedGrows, Zenon
      <4>11. row \in E
        BY Zenon
      <4> HIDE DEF E
      <4>12. \A m \in Names : NamedRow(rows[m], m, E)
        BY ONLY <4>3, <4>4, <4>5, <4>6, <4>7, <4>10, <4>11, <2>WrittenNamed, Zenon DEF rows
      <4> HIDE DEF rows
      <4>13. \A n \in DOMAIN t.pend : NamedRow(t.pend[n], n, E)
        BY <4>1, <4>9, <4>12, Zenon
      <4>14. E = log \cup t.entries
        BY <4>1, Zenon DEF E
      <4> QED
        BY <4>13, <4>14, Zenon DEF NamedOK
    <3>3. CASE Logs(w, s, t)
      BY <3>1, <3>3, Zenon DEF Logs, NamedOK
    <3>4. CASE Mirrors(w, s, t)
      BY <3>1, <3>4, Zenon DEF Mirrors, ShapeOK
    <3>5. CASE \/ Begins(w, s, t) \/ Ends(w, s, t) \/ StartsLocking(w, s, t) \/ StartsLegacy(w, s, t)
               \/ AsksLock(w, s, t) \/ HasLocks(w, s, t) \/ CallerWrites(w, s, t) \/ (\E g : Seeds(w, s, t, g))
               \/ Allocates(w, s, t) \/ FindsNext(w, s, t)
      <4>1. t.pend = <<>>
        BY <3>1, <3>5, Zenon DEF Begins, Ends, StartsLocking, StartsLegacy, AsksLock, HasLocks, CallerWrites, Seeds, Allocates,
           FindsNext, Blank, NoWork, RecordOK
      <4> QED
        BY <4>1, EmptyDomain, Zenon DEF NamedOK
    <3> QED
      BY <3>2, <3>3, <3>4, <3>5, ZenonT(30) DEF Described
  <2> DEFINE s == txn[w]
             t == txn'[w]
  <2>1. CASE Takes(w, s, t)
    <3>1. bookmarks' = View(w) /\ log' = log \cup s.entries /\ t.pend = <<>>
      BY <2>1, Zenon DEF Takes, Blank, NoWork
    <3>2. View(w) = [n \in Names |-> View(w)[n]]
      BY Zenon DEF View
    <3>3. ASSUME ~replica PROVE (\A n \in Names : NamedRow(bookmarks'[n], n, log')) /\ \A v \in Writers : NamedOK(txn'[v], log')
      <4>1. \A n \in Names : NamedRow(bookmarks'[n], n, log')
        BY <3>1, <3>3, <2>ViewNamed, Zenon DEF LogInv, WriterInv
      <4>2. ASSUME NEW v \in Writers \ {w} PROVE NamedOK(txn[v], log')
        <5>1. NamedOK(txn[v], log) /\ log \cup txn[v].entries \subseteq log' \cup txn[v].entries
          BY <3>1, <3>3, Zenon DEF NamedInv
        <5> QED
          <6> SUFFICES ASSUME NEW n \in DOMAIN txn[v].pend
                       PROVE  NamedRow(txn[v].pend[n], n, log' \cup txn[v].entries)
            BY Zenon DEF NamedOK
          <6>1. NamedRow(txn[v].pend[n], n, log \cup txn[v].entries)
            BY <5>1, Zenon DEF NamedOK
          <6> QED
            BY <5>1, <6>1, Zenon DEF NamedRow
      <4>3. NamedOK(t, log')
        BY <3>1, EmptyDomain, Zenon DEF NamedOK
      <4> QED
        BY <4>1, <4>2, <4>3, Zenon
    <3> QED
      BY <3>1, <3>2, <3>3, Zenon DEF NamedInv
  <2>2. CASE ~Takes(w, s, t)
    <3>1. bookmarks' = bookmarks /\ log' = log
      BY <2>2, Zenon DEF Described, Begins, Ends, StartsLocking, StartsLegacy, AsksLock, HasLocks, CallerWrites, Seeds,
         Allocates, FindsNext, Writes, Logs, Mirrors, Within, SameTables
    <3>2. ~replica => \A v \in Writers : NamedOK(txn'[v], log)
      BY <2>2, <2>NamedRecord, Zenon DEF NamedInv
    <3> QED
      BY <3>1, <3>2, Zenon DEF NamedInv
  <2> QED
    BY <2>1, <2>2, Zenon
<1>1. CASE UNCHANGED writerVars
  <2>1. UNCHANGED <<bookmarks, log, txn, replica>>
    BY <1>1, Zenon DEF writerVars
  <2> QED
    BY <2>1, ZenonT(60) DEF NamedInv
<1>2. CASE \E w \in Writers : StoreStep(w)
  <2>1. PICK w \in Writers : StoreStep(w)
    BY <1>2, Zenon
  <2>2. replica' = replica /\ Described(w, txn[w], txn'[w]) /\ \A v \in Writers \ {w} : txn'[v] = txn[v]
    BY <2>1, LockStep, Zenon DEF LogInv, WriterInv
  <2> QED
    BY <2>2, <1>NamedStep, Zenon
<1> QED
  BY <1>1, <1>2, WriterCases, Zenon

(* The id of a row that is there is that of one bookmark. *)
LEMMA RowsApart ==
  ASSUME LogInv, NamedInv, ~replica, NEW m \in Names, NEW n \in Names, Present(bookmarks[m]),
         NEW x \in log, x.name = n, x.id = bookmarks[m].log_id
  PROVE  m = n
<1>1. bookmarks[m] # NoRow
  BY DEF Present, NoRow
<1>2. PICK e \in log : e.name = m /\ e.id = bookmarks[m].log_id
  BY <1>1, Zenon DEF NamedInv, NamedRow
<1>3. UniqueIds(log)
  BY Zenon DEF LogInv, UniqueInv
<1> QED
  BY <1>2, <1>3, Zenon DEF UniqueIds

(* What the schema promises of the tables holds whatever attempts met:     *)
(* one log row per id, no two bookmarks with one log_id, one holder per    *)
(* lock row; and a call stays within its attempts.                         *)
THEOREM BookmarkTypes == Spec => []BookmarksTypeOK
(* The rows of a replica's log, and of its bookmarks, come from different  *)
(* moves.                                                                  *)
<1>ReplicaUnique. ASSUME FollowInv, replica
                  PROVE  /\ \A e, x \in log : e.id = x.id => e = x
                         /\ \A m, n \in Names : m # n /\ Present(bookmarks[m]) => bookmarks[m].log_id # bookmarks[n].log_id
  <2> USE <1>ReplicaUnique
  <2>1. \A i \in DOMAIN Source : i \in Nat /\ Source[i].log_id \in Nat /\ Source[i].log_id # 0
    BY SourceMoves
  <2>2. ASSUME NEW i \in DOMAIN Source, NEW j \in DOMAIN Source, Source[i].log_id = Source[j].log_id PROVE i = j
    <3>1. i <= j /\ j <= i
      BY <2>1, <2>2, SourceMoves
    <3> QED
      BY <2>1, <3>1
  <2>3. ASSUME NEW e \in log PROVE \E i \in DOMAIN Source : e = LogRowOfMove(Source[i])
    <3>1. e.name \in Names /\ e \in RowsOf(e.name)
      BY Zenon DEF FollowInv, RowsOf
    <3>2. e \in MirrorRows(Stored(e.name, bookmarks[e.name].log_id))
      BY <3>1, Zenon DEF FollowInv
    <3> QED
      BY <3>2, Zenon DEF MirrorRows, Stored, MovesOf
  <2>4. ASSUME NEW e \in log, NEW x \in log, e.id = x.id PROVE e = x
    <3>1. PICK i \in DOMAIN Source : e = LogRowOfMove(Source[i])
      BY <2>3, Zenon
    <3>2. PICK j \in DOMAIN Source : x = LogRowOfMove(Source[j])
      BY <2>3, Zenon
    <3>3. Source[i].log_id = Source[j].log_id
      BY <2>4, <3>1, <3>2, MoveRow, Zenon
    <3>4. i = j
      BY <2>2, <3>3, Zenon
    <3> QED
      BY <3>1, <3>2, <3>4, Zenon
  <2>5. ASSUME NEW m \in Names, NEW n \in Names, m # n, Present(bookmarks[m]), bookmarks[m].log_id = bookmarks[n].log_id
        PROVE  FALSE
    <3>1. NoRow.cs = NoCs /\ NoRow.log_id = 0
      BY Zenon DEF NoRow
    <3>2. Carries(bookmarks[m], m) /\ Carries(bookmarks[n], n)
      BY Zenon DEF FollowInv
    <3>3. PICK i \in MovesOf(m) : bookmarks[m] = RowOfMove(i)
      BY <2>5, <3>1, <3>2, Zenon DEF Carries, Present
    <3>4. i \in DOMAIN Source /\ Source[i].name = m /\ bookmarks[m].log_id = Source[i].log_id
      BY <3>3, MoveRow, Zenon DEF MovesOf
    <3>5. PICK j \in MovesOf(n) : bookmarks[n] = RowOfMove(j)
      BY <2>1, <2>5, <3>1, <3>2, <3>4, ZenonT(30) DEF Carries
    <3>6. j \in DOMAIN Source /\ Source[j].name = n /\ bookmarks[n].log_id = Source[j].log_id
      BY <3>5, MoveRow, Zenon DEF MovesOf
    <3> QED
      BY <2>2, <2>5, <3>4, <3>6, Zenon
  <2> QED
    BY <2>4, <2>5, Zenon
<1> DEFINE I == LogInv /\ NamedInv
<1>1. Init => I
  BY InitLog, InitNamed, Zenon
<1>2. I /\ [Next]_vars => I'
  BY NextLog, NextNamed, Zenon
<1>3. I => BookmarksTypeOK
  <2> SUFFICES ASSUME I PROVE BookmarksTypeOK
    BY Zenon
  <2>1. held \in [Names -> Writers \cup {NoWriter}] /\ \A w \in Writers : txn[w].outcome \in Outcomes /\ txn[w].attempt \in 0 .. MaxAttempts
    BY Zenon DEF LogInv, WriterInv, LockInv, CallInv, CallOK
  <2>2. bookmarks \in [Names -> Rows]
    <3>1. CASE replica
      <4>1. \A n \in Names : bookmarks[n] \in Rows
        BY <3>1, CarriedId, Zenon DEF LogInv, FollowInv
      <4> QED
        BY <4>1, Zenon DEF NamedInv
    <3>2. CASE ~replica
      BY <3>2, Zenon DEF LogInv, WriterInv, RowInv
    <3> QED
      BY <3>1, <3>2, Zenon
  <2>3. \A e, x \in log : e.id = x.id => e = x
    BY <1>ReplicaUnique, Zenon DEF LogInv, UniqueInv, UniqueIds
  <2>4. ASSUME ~replica, NEW m \in Names, NEW n \in Names, m # n, Present(bookmarks[m])
        PROVE  bookmarks[m].log_id # bookmarks[n].log_id
    <3>1. NamedRow(bookmarks[m], m, log) /\ NamedRow(bookmarks[n], n, log) /\ 0 \notin Ids(log)
      BY <2>4, Zenon DEF NamedInv, LogInv, UniqueInv
    <3>2. NoRow.log_id = 0 /\ bookmarks[m] # NoRow
      BY <2>4 DEF Present, NoRow
    <3>3. PICK e \in log : e.name = m /\ e.id = bookmarks[m].log_id
      BY <3>1, <3>2, Zenon DEF NamedRow
    <3>4. e.id # 0
      BY <3>1, Zenon DEF Ids
    <3>5. CASE bookmarks[n] = NoRow
      BY <3>2, <3>3, <3>4, <3>5, Zenon
    <3>6. CASE \E x \in log : x.name = n /\ x.id = bookmarks[n].log_id
      BY <2>4, <3>6, RowsApart, Zenon
    <3> QED
      BY <3>1, <3>5, <3>6, Zenon DEF NamedRow
  <2>5. \A m, n \in Names : m # n /\ Present(bookmarks[m]) => bookmarks[m].log_id # bookmarks[n].log_id
    BY <2>4, <1>ReplicaUnique, Zenon DEF LogInv
  <2> QED
    BY <2>1, <2>2, <2>3, <2>5, Zenon DEF BookmarksTypeOK, Rows
<1> QED
  BY <1>1, <1>2, <1>3, PTL DEF Spec

-----------------------------------------------------------------------------
(* The tailer has seen everything up to its counter, and rows are added    *)
(* behind it.                                                              *)
TailInv ==
    ~replica /\ autoInc = 0 => tail.last \in 0 .. MaxLogId /\ 1 .. tail.last \subseteq tail.seen

(* AUTO_INCREMENT values are never given back. *)
LEMMA StepAutoInc ==
  ASSUME LegacyInv, LegacyInv', ~replica, NEW w \in Writers, StoreStep(w), autoInc' = 0
  PROVE  autoInc = 0
<1>1. autoInc \in Nat
  BY Zenon DEF LegacyInv
<1>2. CASE SeedSequence(w)
  <2> DEFINE n == Snap(w)
             target == IF n.log > n.seq THEN n.log + 1 ELSE 0
  <2>1. autoInc' = Max({autoInc, target})
    BY <1>2, Zenon DEF SeedSequence
  <2>2. n.log \in Nat
    BY SnapLog, Zenon
  <2>3. target \in Nat
    BY <2>2
  <2> HIDE DEF target
  <2> QED
    BY <1>1, <2>1, <2>3, MaxAtMost
<1>3. CASE AllocateLogId(w)
  BY <1>1, <1>3 DEF AllocateLogId
<1>4. CASE autoInc' = autoInc
  BY <1>4, Zenon
<1> QED
  BY <1>2, <1>3, <1>4, Zenon DEF StoreStep, Submit, SubmitLocked, Answered, StartAttempt, AcquireLock, LockRowMissing,
     CreateLockRow, TakeLock, LocksHeld, LockedCommit, LockedRollback, FindNextUpdateLogId, WriteRow, StoreLog, StoreMirrorBatch,
     Commit, CommitError, StatementError, HookError, DeadlockVictim, Fail

(* As long as every id came from MAX(id) + 1, a reader that remembers the  *)
(* last id it saw and asks for larger ones misses no row, however many     *)
(* rows it takes at a time and whenever it reads.                          *)
THEOREM LegacyTailerComplete == Spec => [](~replica => LegacyTailerMissesNothing)
(* read_next_bookmark_log_entries returns a stretch of the log. *)
<1>ReadTail. ASSUME LegacyInv, TailInv, ~replica, autoInc = 0, ReadNextEntries
             PROVE  tail'.last \in 0 .. MaxLogId /\ 1 .. tail'.last \subseteq tail'.seen
  <2> USE <1>ReadTail
  <2> DEFINE a == tail.last
             m == MaxLogId
             later == Ids(log) \ (0 .. a)
             upto(i) == {j \in later : j <= i}
             batch == {i \in later : Cardinality(upto(i)) <= BatchLimit}
             b == IF a + BatchLimit <= m THEN a + BatchLimit ELSE m
  <2>1. Topped(Ids(log)) /\ Ids(log) = 1 .. m
    BY Zenon DEF LegacyInv
  <2>2. m \in Nat
    BY <2>1, TopOf, MaxLogIdIsTop, Zenon
  <2>3. a \in 0 .. m /\ 1 .. a \subseteq tail.seen
    BY Zenon DEF TailInv
  <2>4. later # {} /\ tail' = [last |-> Max(batch), seen |-> tail.seen \cup batch]
    BY Zenon DEF ReadNextEntries, Ids
  <2> HIDE DEF a, m
  <2>5. later = a + 1 .. m
    BY <2>1, <2>2, <2>3
  <2>6. a < m
    BY <2>2, <2>3, <2>4, <2>5
  <2>7. BatchLimit \in Nat \ {0}
    BY LimitAssumption, Zenon
  <2>8. b \in Nat /\ a < b /\ b <= m /\ b <= a + BatchLimit /\ (b = m \/ b = a + BatchLimit)
    BY <2>2, <2>3, <2>6, <2>7
  <2> HIDE DEF later, b
  <2>9. \A i \in a + 1 .. m : Cardinality(upto(i)) = i - a
    <3> SUFFICES ASSUME NEW i \in a + 1 .. m PROVE Cardinality(upto(i)) = i - a
      BY Zenon
    <3>1. upto(i) = a + 1 .. i
      BY <2>2, <2>3, <2>5
    <3>2. Cardinality(a + 1 .. i) = i - (a + 1) + 1
      BY <2>2, <2>3, FS_Interval
    <3>3. i - (a + 1) + 1 = i - a
      BY <2>2, <2>3
    <3> QED
      BY <3>1, <3>2, <3>3, Zenon
  <2> HIDE DEF upto
  <2>10. batch = a + 1 .. b
    <3>1. \A i \in a + 1 .. m : Cardinality(upto(i)) <= BatchLimit <=> i <= b
      BY <2>2, <2>3, <2>7, <2>8, <2>9
    <3> QED
      BY <2>2, <2>3, <2>5, <2>8, <3>1
  <2> HIDE DEF batch
  <2>11. Max(a + 1 .. b) = b
    <3>1. b \in a + 1 .. b /\ \A y \in a + 1 .. b : b >= y
      BY <2>2, <2>3, <2>8
    <3>2. \A x \in a + 1 .. b : (\A y \in a + 1 .. b : x >= y) => x = b
      BY <2>2, <2>3, <2>8, <3>1
    <3> QED
      BY <3>1, <3>2, Zenon DEF Max
  <2>12. tail'.last = b /\ tail'.seen = tail.seen \cup (a + 1 .. b)
    BY <2>4, <2>10, <2>11, Zenon
  <2>13. 1 .. b \subseteq (1 .. a) \cup (a + 1 .. b) /\ b \in 0 .. m
    BY <2>2, <2>3, <2>8
  <2> QED
    BY <2>3, <2>12, <2>13, Zenon DEF m
(* A counter in the log stays one when the log grows. *)
<1>StepTail. ASSUME CallInv, LegacyInv, LegacyInv', TailInv, NEW w \in Writers, StoreStep(w), UNCHANGED tail
             PROVE  TailInv'
  <2> USE <1>StepTail
  <2> SUFFICES ASSUME ~replica', autoInc' = 0 PROVE tail.last \in 0 .. MaxLogId' /\ 1 .. tail.last \subseteq tail.seen
    BY Zenon DEF TailInv
  <2>1. ~replica
    BY StepReplica, Zenon
  <2>2. autoInc = 0
    BY <2>1, StepAutoInc, Zenon
  <2>3. tail.last \in 0 .. MaxLogId /\ 1 .. tail.last \subseteq tail.seen
    BY <2>1, <2>2, Zenon DEF TailInv
  <2>4. Topped(Ids(log))
    BY <2>1, Zenon DEF LegacyInv
  <2>5. MaxLogId \in Nat
    BY <2>4, TopOf, MaxLogIdIsTop, Zenon
  <2>6. MaxLogId' \in Nat /\ MaxLogId <= MaxLogId'
    <3>1. CASE log' = log
      BY <2>5, <3>1, MaxLogIdIsTop
    <3>2. CASE txn[w].pc = "commit" /\ log' = log \cup txn[w].entries
      BY <2>1, <2>2, <3>2, EffectOnLog, Zenon
    <3> QED
      BY <3>1, <3>2, StepLog, Zenon
  <2> HIDE DEF MaxLogId
  <2> QED
    BY <2>3, <2>5, <2>6
<1> DEFINE I == CallInv /\ LegacyInv /\ TailInv
<1>1. Init => I
  <2> SUFFICES ASSUME Init PROVE TailInv
    BY InitLegacy, Zenon
  <2>1. CallInv /\ LegacyInv
    BY InitLegacy, Zenon
  <2>2. tail = [last |-> MaxLogId, seen |-> Ids(log)]
    BY Zenon DEF Init
  <2>3. ASSUME ~replica, autoInc = 0 PROVE MaxLogId \in Nat /\ Ids(log) = 1 .. MaxLogId
    BY <2>1, <2>3, TopOf, MaxLogIdIsTop, Zenon DEF LegacyInv
  <2> QED
    BY <2>2, <2>3 DEF TailInv, Ids
<1>2. I /\ [Next]_vars => I'
  <2> SUFFICES ASSUME I, [Next]_vars PROVE I'
    BY Zenon
  <2>1. CallInv' /\ LegacyInv'
    BY NextLegacy, Zenon
  <2>2. CASE UNCHANGED <<txn, log, autoInc, replica, tail>>
    BY <2>1, <2>2, MaxLogIdIsTop, Zenon DEF TailInv
  <2>3. CASE UNCHANGED tail /\ \E w \in Writers : StoreStep(w)
    BY <2>1, <2>3, <1>StepTail, Zenon
  <2>4. CASE UNCHANGED <<txn, log, autoInc, replica>> /\ ReadNextEntries
    <3>1. MaxLogId' = MaxLogId
      BY <2>4, MaxLogIdIsTop, Zenon
    <3> QED
      BY <2>1, <2>4, <3>1, <1>ReadTail, Zenon DEF TailInv
  <2> QED
    BY <2>2, <2>3, <2>4, NextCases, Zenon
<1>3. I => (~replica => LegacyTailerMissesNothing)
  <2> SUFFICES ASSUME I, ~replica, autoInc = 0, NEW id \in Ids(log), id <= tail.last PROVE id \in tail.seen
    BY Zenon DEF LegacyTailerMissesNothing
  <2>1. Ids(log) = 1 .. MaxLogId /\ tail.last \in 0 .. MaxLogId /\ 1 .. tail.last \subseteq tail.seen /\ Topped(Ids(log))
    BY Zenon DEF LegacyInv, TailInv
  <2>2. MaxLogId \in Nat
    BY <2>1, TopOf, MaxLogIdIsTop, Zenon
  <2>3. id \in 1 .. tail.last
    BY <2>1, <2>2
  <2> QED
    BY <2>1, <2>3, Zenon
<1> QED
  BY <1>1, <1>2, <1>3, PTL DEF Spec

-----------------------------------------------------------------------------
(* A subscription of a repository that is not a replica, as long as every  *)
(* id came from MAX(id) + 1.                                               *)
NewestOf(L, n, f) == f.name = n /\ \A x \in L : x.name = n => x.id <= f.id

SubOK(s, B, n, f) ==
    \/ s.bookmarks[n] = B[n].cs
    \/ ~Present(B[n]) /\ n = Master
    \/ Present(B[n]) /\ B[n].log_id # f.id

SubCurrent(s, B, L) ==
    \A n \in Names, f \in L : NewestOf(L, n, f) /\ f.id <= s.log_id => SubOK(s, B, n, f)

SubInv ==
    ~replica /\ autoInc = 0 => sub.log_id \in 0 .. MaxLogId /\ (~overlap => SubCurrent(sub, bookmarks, log))

(* As long as every id came from MAX(id) + 1, a subscription of a          *)
(* repository that is not a replica misses no change, however it is        *)
(* created and refreshed between the steps of concurrent transactions.     *)
THEOREM LegacySubscriptionCurrent == Spec => [](~replica => LegacySubscriptionIsCurrent)
(* A refresh gives a bookmark with new rows the value of the row that      *)
(* carries the newest of their ids, if that is still there.                *)
(* Numbers up to a number. *)
<1>UpTo. ASSUME NEW a \in Nat, NEW x \in 0 .. a
         PROVE  x \in Nat /\ x <= a
  BY <1>UpTo
(* Numbers in order. *)
<1>LeqTrans. ASSUME NEW a \in Nat, NEW b \in Nat, NEW c \in Nat, a <= b, b <= c
             PROVE  a <= c
  BY <1>LeqTrans
<1>RefreshCurrent. ASSUME LogInv, NamedInv, ~replica, sub.log_id \in Nat, SubCurrent(sub, bookmarks, log),
                          Refresh
                   PROVE  SubCurrent(sub', bookmarks, log)
  <2> USE <1>RefreshCurrent
  <2> SUFFICES ASSUME NEW n \in Names, NEW f \in log, NewestOf(log, n, f) PROVE SubOK(sub', bookmarks, n, f)
    BY Zenon DEF SubCurrent
  <2> DEFINE S == Newer(n)
             matches == {m \in Names : Present(bookmarks[m]) /\ bookmarks[m].log_id = Max(S)}
  <2>1. \A e \in log : e.id \in Nat
    BY Zenon DEF LogInv, WriterInv, LegacyInv, Topped, Ids
  <2>2. sub'.bookmarks[n] = IF S = {} \/ (Joined(n) = NoCs /\ n = Master) THEN sub.bookmarks[n] ELSE Joined(n)
    BY Zenon DEF Refresh
  <2>3. CASE S = {}
    <3>1. ~(f.id > sub.log_id)
      BY <2>3, Zenon DEF Newer, Ids, NewestOf
    <3>2. f.id <= sub.log_id
      BY <2>1, <3>1
    <3>3. SubOK(sub, bookmarks, n, f)
      BY <3>2, Zenon DEF SubCurrent
    <3> QED
      BY <2>2, <2>3, <3>3, Zenon DEF SubOK
  <2>4. CASE S # {}
    <3>1. f.id \in S /\ \A y \in S : y \in Nat /\ f.id >= y
      <4>1. PICK x \in log : x.name = n /\ x.id > sub.log_id
        BY <2>4, Zenon DEF Newer, Ids
      <4>2. x.id <= f.id /\ x.id \in Nat /\ f.id \in Nat
        BY <2>1, <4>1, Zenon DEF NewestOf
      <4>3. f.id > sub.log_id
        BY <4>1, <4>2
      <4>4. \A y \in S : \E e \in log : e.name = n /\ y = e.id
        BY Zenon DEF Newer, Ids
      <4>5. \A y \in S : y \in Nat /\ f.id >= y
        BY <2>1, <4>4, Zenon DEF NewestOf
      <4> QED
        BY <4>3, <4>5, Zenon DEF Newer, Ids, NewestOf
    <3>2. Max(S) = f.id
      <4>1. \A x \in S : (\A y \in S : x >= y) => x = f.id
        BY <3>1
      <4> QED
        BY <3>1, <4>1, Zenon DEF Max
    <3>3. \A m \in matches : m = n
      BY <3>2, RowsApart, Zenon DEF NewestOf
    <3>4. Joined(n) = IF matches = {} THEN NoCs ELSE bookmarks[CHOOSE m \in matches : TRUE].cs
      BY Zenon DEF Joined
    <3>5. CASE matches = {}
      <4>1. Joined(n) = NoCs /\ ~(Present(bookmarks[n]) /\ bookmarks[n].log_id = f.id)
        BY <3>2, <3>4, <3>5, Zenon
      <4> QED
        <5>1. CASE Present(bookmarks[n])
          BY <4>1, <5>1, Zenon DEF SubOK
        <5>2. CASE ~Present(bookmarks[n]) /\ n = Master
          BY <5>2, Zenon DEF SubOK
        <5>3. CASE ~Present(bookmarks[n]) /\ n # Master
          <6>1. sub'.bookmarks[n] = NoCs
            BY <2>2, <2>4, <4>1, <5>3, Zenon
          <6>2. bookmarks[n].cs = NoCs
            BY <5>3, Zenon DEF Present
          <6> QED
            BY <6>1, <6>2, Zenon DEF SubOK
        <5> QED
          BY <5>1, <5>2, <5>3, Zenon
    <3>6. CASE matches # {}
      <4> HIDE DEF matches
      <4>1. (CHOOSE m \in matches : TRUE) = n
        BY <3>3, <3>6, Zenon
      <4>2. Joined(n) = bookmarks[n].cs /\ n \in matches
        BY <3>3, <3>4, <3>6, <4>1, Zenon
      <4>3. Joined(n) # NoCs
        BY <4>2, Zenon DEF matches, Present
      <4> QED
        BY <2>2, <2>4, <4>2, <4>3, Zenon DEF SubOK
    <3> QED
      BY <3>5, <3>6, Zenon
  <2> QED
    BY <2>3, <2>4, Zenon
(* Every step of a writer leaves a subscription right about what it is     *)
(* past.                                                                   *)
<1>SubStep. ASSUME LogInv, LogInv', ReplayInv, SubInv, NEW w \in Writers, StoreStep(w), UNCHANGED sub
            PROVE  SubInv'
                   (* A commit moves the bookmarks it logs, under ids above those the         *)
                   (* subscription is past, and no others.                                    *)
  <2> USE <1>SubStep
  <2>TakesCurrent. ASSUME ~replica, ~overlap, autoInc = 0, sub.log_id \in 0 .. MaxLogId,
                          SubCurrent(sub, bookmarks, log), txn[w].pc = "commit", txn[w].entries # {}
                   PROVE  SubCurrent(sub, View(w), log \cup txn[w].entries)
    <3> USE <2>TakesCurrent
    <3> DEFINE s == txn[w]
               K == Ids(log)
               L == log \cup s.entries
    <3> SUFFICES ASSUME NEW n \in Names, NEW f \in L, NewestOf(L, n, f), f.id <= sub.log_id PROVE SubOK(sub, View(w), n, f)
      BY Zenon DEF SubCurrent
    <3>1. ~s.locking
      <4>1. ShapeOK(s, autoInc)
        BY Zenon DEF LogInv, WriterInv, LegacyInv
      <4>2. s.locking => autoInc > 0
        BY <4>1, Zenon DEF ShapeOK
      <4> QED
        BY <4>2
    <3>2. Top(K) \in Nat /\ \A e \in Ids(s.entries) : e \in Nat /\ Top(K) < e
      BY <3>1, OldTakes, Zenon DEF LogInv, WriterInv
    <3>3. MaxLogId = Top(K)
      BY MaxLogIdIsTop, Zenon
    <3>4. \A x \in s.entries : x.id \in Nat /\ ~(x.id <= sub.log_id)
      <4>1. \A x \in s.entries : x.id \in Ids(s.entries)
        BY Zenon DEF Ids
      <4> HIDE DEF K
      <4> QED
        BY <3>2, <3>3, <4>1
    <3>5. f \in log
      BY <3>4, Zenon
    <3>6. \A x \in log : x.id \in Nat
      BY Zenon DEF LogInv, WriterInv, LegacyInv, Topped, Ids
    <3>7. \A x \in s.entries : x.name # n
      <4> SUFFICES ASSUME NEW x \in s.entries, x.name = n PROVE FALSE
        BY Zenon
      <4>1. x.id <= f.id
        BY Zenon DEF NewestOf
      <4>2. x.id \in Nat /\ f.id \in Nat /\ sub.log_id \in Nat
        BY <3>2, <3>3, <3>4, <3>5, <3>6, <1>UpTo, Zenon
      <4> QED
        BY <3>4, <4>1, <4>2, <1>LeqTrans, Zenon
    <3>8. MayCommit(s, K)
      BY Zenon DEF LogInv, OldInv, OldOK, MayCommit
    <3>9. n \notin DOMAIN s.pend
      <4>1. PendOK(s)
        BY <3>8, Zenon DEF ReplayInv
      <4> QED
        BY <3>7, <4>1, Zenon DEF PendOK, LastOf
    <3>10. View(w)[n] = bookmarks[n]
      BY <3>9, ViewRows, Zenon DEF LogInv, WriterInv
    <3>11. SubOK(sub, bookmarks, n, f)
      BY <3>5, Zenon DEF SubCurrent, NewestOf
    <3> QED
      BY <3>10, <3>11, Zenon DEF SubOK
  <2> DEFINE s == txn[w]
  <2> SUFFICES ASSUME ~replica', autoInc' = 0
               PROVE  sub.log_id \in 0 .. MaxLogId' /\ (~overlap' => SubCurrent(sub, bookmarks', log'))
    BY Zenon DEF SubInv
  <2>1. /\ CallInv /\ LegacyInv /\ LegacyInv'
        /\ Described(w, s, txn'[w]) /\ \A v \in Writers \ {w} : txn'[v] = txn[v]
    BY LockStep, Zenon DEF LogInv, WriterInv
  <2>2. ~replica /\ (~overlap' => ~overlap)
    BY <2>1, StepReplica, OverlapStep, Zenon DEF LogInv, WriterInv
  <2>3. autoInc = 0
    BY <2>1, <2>2, StepAutoInc, Zenon
  <2>4. sub.log_id \in 0 .. MaxLogId /\ (~overlap => SubCurrent(sub, bookmarks, log))
    BY <2>2, <2>3, Zenon DEF SubInv
  <2>5. MaxLogId \in Nat
    BY <2>1, <2>2, TopOf, MaxLogIdIsTop, Zenon DEF LegacyInv
  <2>6. CASE ~Takes(w, s, txn'[w])
    <3>1. bookmarks' = bookmarks /\ log' = log
      BY <2>1, <2>2, <2>6, UniqueRecord, ZenonT(30) DEF SameTables, LogInv, WriterInv
    <3>2. MaxLogId' = MaxLogId
      BY <3>1, MaxLogIdIsTop, Zenon
    <3> QED
      BY <2>2, <2>4, <3>1, <3>2, Zenon
  <2>7. CASE Takes(w, s, txn'[w])
    <3>1. s.pc = "commit" /\ bookmarks' = View(w) /\ log' = log \cup s.entries
      BY <2>7, Zenon DEF Takes
    <3>2. MaxLogId' \in Nat /\ MaxLogId <= MaxLogId'
      BY <2>1, <2>2, <2>3, <3>1, EffectOnLog, Zenon
    <3>3. sub.log_id \in 0 .. MaxLogId'
      <4> HIDE DEF MaxLogId
      <4> QED
        BY <2>4, <2>5, <3>2
    <3>4. CASE s.entries = {}
      <4>1. log' = log /\ s.pend = <<>>
        BY <2>2, <3>1, <3>4, Zenon DEF LogInv, UniqueInv, UniqueOK
      <4>2. \A n \in Names : bookmarks'[n] = bookmarks[n]
        <5>1. \A n \in Names : View(w)[n] = IF n \in DOMAIN s.pend THEN s.pend[n] ELSE bookmarks[n]
          BY <2>2, ViewRows, Zenon DEF LogInv, WriterInv
        <5>2. \A n \in Names : n \notin DOMAIN s.pend
          BY <4>1, EmptyDomain, Zenon
        <5> QED
          BY <3>1, <5>1, <5>2, Zenon
      <4>3. ~overlap => SubCurrent(sub, bookmarks', log)
        BY <2>4, <4>2, Zenon DEF SubCurrent, SubOK
      <4> QED
        BY <2>2, <3>3, <4>1, <4>3, Zenon
    <3>5. CASE s.entries # {}
      BY <2>2, <2>3, <2>4, <3>1, <3>3, <3>5, <2>TakesCurrent, Zenon
    <3> QED
      BY <3>4, <3>5, Zenon
  <2> QED
    BY <2>6, <2>7, Zenon
<1> DEFINE I == LogInv /\ ReplayInv /\ NamedInv /\ SubInv
<1>1. Init => I
  <2> SUFFICES ASSUME Init PROVE SubInv
    BY InitLog, InitReplay, InitNamed, Zenon
  <2>1. sub = [log_id |-> MaxLogId, bookmarks |-> [n \in Names |-> bookmarks[n].cs]]
    BY Zenon DEF Init, Values
  <2>2. sub.log_id = MaxLogId /\ \A n \in Names : sub.bookmarks[n] = bookmarks[n].cs
    BY <2>1, Zenon
  <2>3. SubCurrent(sub, bookmarks, log)
    BY <2>2, Zenon DEF SubCurrent, SubOK
  <2>4. ~replica => MaxLogId \in Nat
    BY InitLegacy, TopOf, MaxLogIdIsTop, Zenon DEF LegacyInv
  <2> QED
    BY <2>2, <2>3, <2>4 DEF SubInv
<1>2. I /\ [Next]_vars => I'
  <2> SUFFICES ASSUME I, [Next]_vars PROVE SubInv'
    BY NextLog, NextReplay, NextNamed, Zenon
  <2>1. LogInv'
    BY NextLog, Zenon
  <2>2. ~replica => MaxLogId \in Nat
    BY TopOf, MaxLogIdIsTop, Zenon DEF LogInv, WriterInv, LegacyInv
  <2>3. CASE UNCHANGED <<bookmarks, log, autoInc, replica, overlap, sub>>
    <3>1. MaxLogId' = MaxLogId
      BY <2>3, MaxLogIdIsTop, Zenon
    <3> QED
      BY <2>3, <3>1, ZenonT(60) DEF SubInv
  <2>4. CASE UNCHANGED sub /\ \E w \in Writers : StoreStep(w)
    BY <2>1, <2>4, <1>SubStep, Zenon
  <2>5. CASE UNCHANGED <<bookmarks, log, autoInc, replica, overlap>> /\ (Subscribe \/ Refresh)
    <3>1. MaxLogId' = MaxLogId
      BY <2>5, MaxLogIdIsTop, Zenon
    <3>2. sub'.log_id = MaxLogId
      BY <2>5 DEF Subscribe, Refresh
    <3>3. CASE Subscribe
      <4>1. \A n \in Names : sub'.bookmarks[n] = bookmarks[n].cs
        BY <3>3, Zenon DEF Subscribe, Values
      <4>2. SubCurrent(sub', bookmarks, log)
        BY <4>1, Zenon DEF SubCurrent, SubOK
      <4> QED
        BY <2>2, <2>5, <3>1, <3>2, <4>2 DEF SubInv
    <3>4. CASE Refresh
      <4> SUFFICES ASSUME ~replica, autoInc = 0
                   PROVE  sub'.log_id \in 0 .. MaxLogId /\ (~overlap => SubCurrent(sub', bookmarks, log))
        BY <2>5, <3>1, Zenon DEF SubInv
      <4>1. sub.log_id \in Nat /\ (~overlap => SubCurrent(sub, bookmarks, log))
        BY <2>2 DEF SubInv
      <4> QED
        BY <2>2, <3>2, <3>4, <4>1, <1>RefreshCurrent
    <3> QED
      BY <2>5, <3>3, <3>4, Zenon
  <2> QED
    BY <2>3, <2>4, <2>5, Zenon DEF Next, StoreNext, FlipKnob, Subscribe, Refresh, ReadNextEntries, vars, storeVars, tables
<1>3. I => (~replica => LegacySubscriptionIsCurrent)
  <2> SUFFICES ASSUME I, ~replica, autoInc = 0, ~overlap, NEW n \in Names, RowsOf(n) # {},
                      Newest(RowsOf(n)).id <= sub.log_id
               PROVE  SubOK(sub, bookmarks, n, Newest(RowsOf(n)))
    BY Zenon DEF LegacySubscriptionIsCurrent, SubscriptionIsCurrent, SubOK
  <2>1. UniqueIds(RowsOf(n)) /\ \A e \in RowsOf(n) : e.id \in Nat
    BY Zenon DEF LogInv, WriterInv, LegacyInv, UniqueInv, UniqueIds, RowsOf, Topped, Ids
  <2>2. PICK f \in log : f.name = n /\ \A x \in log : x.name = n => x.id <= f.id
    BY Zenon DEF ReplayInv, LastOf
  <2>3. Newest(RowsOf(n)) = f
    BY <2>1, <2>2, NewestIsLast, Zenon DEF RowsOf
  <2>4. SubCurrent(sub, bookmarks, log)
    BY Zenon DEF SubInv
  <2> QED
    BY <2>2, <2>3, <2>4, Zenon DEF SubCurrent, NewestOf
<1> QED
  BY <1>1, <1>2, <1>3, PTL DEF Spec
=============================================================================
