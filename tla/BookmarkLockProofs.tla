------------------------- MODULE BookmarkLockProofs -------------------------
(***************************************************************************)
(* For any writers, bookmarks and payloads: rows, ids and locks.  Whatever *)
(* the knob does, an id from the sequence is free until it is used, and    *)
(* writers with per-bookmark locks never wait for each other in a circle.  *)
(***************************************************************************)
EXTENDS BookmarkProofs

(* A repository that is not a replica.  The rows of bookmarks carry the id *)
(* of a log row, and those a transaction has written may carry one of its  *)
(* own.                                                                    *)
Rows == [cs : Changesets \cup {NoCs}, log_id : Nat]

RowOK(t, ids) ==
    /\ t.todo \in Seq(Operations)
    /\ t.locked = TRUE \/ t.ops \in Seq(Operations)
    /\ DOMAIN t.pend \subseteq Names /\ t.pend \in [DOMAIN t.pend -> Rows]
    /\ \A n \in DOMAIN t.pend : t.pend[n].log_id \in {0} \cup ids \cup Ids(t.entries)
    /\ t.snap = <<>> \/ t.snap[1].bookmarks \in [Names -> Rows]
    /\ \A e \in t.entries : e.name \in Names

RowInv ==
    ~replica =>
        /\ bookmarks \in [Names -> Rows]
        /\ \A n \in Names : bookmarks[n].log_id \in {0} \cup Ids(log)
        /\ \A e \in log : e.name \in Names
        /\ \A w \in Writers : RowOK(txn[w], Ids(log))

(* A transaction with rows to write has an id for the next one. *)
LEMMA NextIds ==
  ASSUME NEW t, NEW S, NEW a, RowOK(t, S), ShapeOK(t, a), t.pc = "write", t.todo # <<>>
  PROVE  t.ids \in Seq(Nat) /\ t.ids # <<>>
<1>1. t.todo \in Seq(Operations) /\ t.ids \in Seq(Nat) /\ Len(t.todo) = Len(t.ids)
  BY Zenon DEF RowOK, ShapeOK
<1> QED
  BY <1>1, SameLength, Zenon

(* What a statement does to the rows: a row keeps its log_id, gets the new *)
(* one or is deleted, and without a clash only its own row changes.        *)
LEMMA WrittenRows ==
  ASSUME NEW view \in [Names -> Rows], NEW op \in Operations, NEW id \in Nat
  PROVE  /\ Written(view, op, id) \in [Names -> Rows]
         /\ \A m \in Names : Written(view, op, id)[m].log_id \in {0, id, view[m].log_id}
         /\ Clash(view, op.name, id) = {} => \A m \in Names \ {op.name} : Written(view, op, id)[m] = view[m]
<1> DEFINE n == op.name
           clash == Clash(view, n, id)
           new == [cs |-> op.new, log_id |-> id]
           rows == Written(view, op, id)
<1>1. n \in Names /\ op.new \in Changesets \cup {NoCs}
      /\ op.kind \in {"force_set", "create", "create_or_update", "update", "delete", "force_delete"}
  BY Zenon DEF Operations
<1>2. new \in Rows /\ new.log_id = id /\ NoRow \in Rows /\ NoRow.log_id = 0
  BY <1>1, Zenon DEF Rows, NoRow
<1>3. clash \subseteq Names
  BY Zenon DEF Clash
<1>4. \A r \in Rows : [r EXCEPT !.cs = op.new] \in Rows /\ [r EXCEPT !.cs = op.new].log_id = r.log_id
  BY <1>1, Zenon DEF Rows
<1>5. \A m \in Names : view[m] \in Rows
  BY Zenon
<1>6. ASSUME NEW r \in Rows, r.log_id \in {0, id}, rows = [view EXCEPT ![n] = r]
      PROVE  /\ rows \in [Names -> Rows] /\ \A m \in Names : rows[m].log_id \in {0, id, view[m].log_id}
             /\ \A m \in Names \ {n} : rows[m] = view[m]
  BY <1>1, <1>6, Zenon
<1>7. ASSUME NEW k \in Names, rows = [view EXCEPT ![k].cs = op.new]
      PROVE  /\ rows \in [Names -> Rows] /\ \A m \in Names : rows[m].log_id \in {0, id, view[m].log_id}
             /\ \A m \in Names \ {k} : rows[m] = view[m]
  <2>1. rows = [view EXCEPT ![k] = [view[k] EXCEPT !.cs = op.new]]
    BY <1>7, Zenon
  <2>2. PICK r : r = [view[k] EXCEPT !.cs = op.new]
    BY Zenon
  <2>3. r \in Rows /\ r.log_id = view[k].log_id
    BY <1>4, <1>5, <2>2, Zenon
  <2>4. rows = [view EXCEPT ![k] = r]
    BY <2>1, <2>2, Zenon
  <2> HIDE DEF rows
  <2> QED
    BY <2>3, <2>4, Zenon
<1>8. CASE op.kind = "force_set"
  <2>1. rows = [m \in Names |-> IF m = n THEN new ELSE IF m \in clash THEN NoRow ELSE view[m]]
    BY <1>8, Zenon DEF Written
  <2> HIDE DEF rows, new, clash, n
  <2>2. /\ rows \in [Names -> Rows] /\ \A m \in Names : rows[m].log_id \in {0, id, view[m].log_id}
        /\ clash = {} => \A m \in Names \ {n} : rows[m] = view[m]
    BY <1>2, <1>5, <2>1, Zenon
  <2> QED
    BY <2>2, Zenon DEF rows, clash, n
<1>9. CASE op.kind = "create_or_update"
  <2>1. CASE Present(view[n])
    <3>1. rows = [view EXCEPT ![n].cs = op.new]
      BY <1>9, <2>1, Zenon DEF Written
    <3> QED
      BY <1>1, <1>7, <3>1, Zenon
  <2>2. CASE ~Present(view[n]) /\ clash = {}
    <3>1. rows = [view EXCEPT ![n] = new]
      BY <1>9, <2>2, Zenon DEF Written
    <3> QED
      BY <1>2, <1>6, <3>1, Zenon
  <2>3. CASE ~Present(view[n]) /\ clash # {}
    <3>1. PICK k : k = CHOOSE m \in clash : TRUE
      BY Zenon
    <3>2. k \in Names
      BY <1>3, <2>3, <3>1, Zenon
    <3>3. rows = [view EXCEPT ![k].cs = op.new]
      BY <1>9, <2>3, <3>1, Zenon DEF Written
    <3> QED
      BY <1>7, <2>3, <3>2, <3>3, Zenon
  <2> QED
    BY <2>1, <2>2, <2>3, Zenon
<1>10. CASE op.kind \in {"create", "update"}
  <2>1. rows = [view EXCEPT ![n] = new]
    BY <1>10, Zenon DEF Written
  <2> QED
    BY <1>2, <1>6, <2>1, Zenon
<1>11. CASE op.kind \in {"delete", "force_delete"}
  <2>1. rows = [view EXCEPT ![n] = NoRow]
    BY <1>11, Zenon DEF Written
  <2> QED
    BY <1>2, <1>6, <2>1, Zenon
<1> QED
  BY <1>1, <1>8, <1>9, <1>10, <1>11, Zenon

(* The rows a transaction sees. *)
LEMMA ViewRows ==
  ASSUME RowInv, ~replica, NEW w \in Writers
  PROVE  /\ View(w) \in [Names -> Rows]
         /\ \A n \in Names : View(w)[n].log_id \in {0} \cup Ids(log) \cup Ids(txn[w].entries)
         /\ \A n \in Names : View(w)[n] = IF n \in DOMAIN txn[w].pend THEN txn[w].pend[n] ELSE bookmarks[n]
<1> DEFINE p == txn[w].pend
           E == Ids(txn[w].entries)
           L == Ids(log)
<1>1. /\ DOMAIN p \subseteq Names /\ p \in [DOMAIN p -> Rows] /\ \A n \in DOMAIN p : p[n].log_id \in {0} \cup L \cup E
      /\ bookmarks \in [Names -> Rows] /\ \A n \in Names : bookmarks[n].log_id \in {0} \cup L
  BY Zenon DEF RowInv, RowOK
<1>2. View(w) = [n \in Names |-> IF n \in DOMAIN p THEN p[n] ELSE bookmarks[n]]
  BY Zenon DEF View, Touched
<1> HIDE DEF p, E, L
<1>3. /\ View(w) \in [Names -> Rows] /\ \A n \in Names : View(w)[n].log_id \in {0} \cup L \cup E
      /\ \A n \in Names : View(w)[n] = IF n \in DOMAIN p THEN p[n] ELSE bookmarks[n]
  BY <1>1, <1>2, Zenon
<1> QED
  BY <1>3, Zenon DEF p, E, L

(* Before anything is written. *)
LEMMA NoWorkRows ==
  ASSUME NEW t, NEW ids, NoWork(t), t.locked = TRUE \/ t.ops \in Seq(Operations)
  PROVE  RowOK(t, ids)
<1>1. <<>> \in Seq(Operations) /\ DOMAIN <<>> = {} /\ <<>> \in [{} -> Rows]
  OBVIOUS
<1>2. t.todo = <<>> /\ t.pend = <<>> /\ t.entries = {} /\ t.snap = <<>>
  BY Zenon DEF NoWork
<1> QED
  BY <1>1, <1>2, Zenon DEF RowOK

(* Every step keeps the rows sound. *)
LEMMA RowStep ==
  ASSUME CallInv, LockInv, LegacyInv, RowInv, ~replica, replica' = replica,
         NEW w \in Writers, Described(w, txn[w], txn'[w]), \A v \in Writers \ {w} : txn'[v] = txn[v]
  PROVE  RowInv'
(* A step of w after which its record and the tables are sound. *)
<1>RowFrame. ASSUME RowOK(txn'[w], Ids(log')), Ids(log) \subseteq Ids(log'), \A e \in log' : e.name \in Names,
                    bookmarks' \in [Names -> Rows], \A n \in Names : bookmarks'[n].log_id \in {0} \cup Ids(log')
             PROVE  RowInv'
  <2> USE <1>RowFrame
  <2>1. ASSUME NEW v \in Writers PROVE RowOK(txn'[v], Ids(log'))
    <3>1. CASE v # w
      <4>1. txn'[v] = txn[v] /\ RowOK(txn[v], Ids(log))
        BY <3>1, Zenon DEF RowInv
      <4> QED
        BY <4>1, Zenon DEF RowOK
    <3> QED
      BY <3>1, Zenon
  <2>2. \A v \in Writers : RowOK(txn[v], Ids(log))'
    BY <2>1, Zenon
  <2> QED
    BY <2>2, Zenon DEF RowInv
(* The snapshot of a transaction. *)
<1>SnapRows. Snapshot[1].bookmarks = bookmarks /\ Snap(w).bookmarks \in [Names -> Rows]
  <2>1. Snapshot[1].bookmarks = bookmarks
    BY Zenon DEF Snapshot
  <2>2. bookmarks \in [Names -> Rows] /\ (txn[w].snap = <<>> \/ txn[w].snap[1].bookmarks \in [Names -> Rows])
    BY Zenon DEF RowInv, RowOK
  <2>3. Snap(w) = IF txn[w].snap = <<>> THEN Snapshot[1] ELSE txn[w].snap[1]
    BY Zenon DEF Snap
  <2> QED
    BY <2>1, <2>2, <2>3, Zenon
(* The record of w after a step that is not a commit. *)
<1>RowRecord. ASSUME NEW t, Described(w, txn[w], t), ~Takes(w, txn[w], t)
              PROVE  RowOK(t, Ids(log)) /\ SameTables
  <2> USE <1>RowRecord
  <2> DEFINE s == txn[w]
  <2>1. RowOK(s, Ids(log)) /\ RecordOK(s, replica) /\ ShapeOK(s, autoInc)
    BY Zenon DEF RowInv, LockInv, LegacyInv
  <2>2. Snapshot[1].bookmarks \in [Names -> Rows] /\ Snap(w).bookmarks \in [Names -> Rows]
    BY <1>SnapRows, Zenon DEF RowInv
  <2>3. <<>> \in Seq(Operations) /\ Ops \subseteq Seq(Operations)
    BY BookmarkAssumption
  <2>4. CASE Begins(w, s, t) \/ Ends(w, s, t) \/ StartsLocking(w, s, t) \/ StartsLegacy(w, s, t)
    <3>1. NoWork(t) /\ SameTables
      BY <2>4, Zenon DEF Begins, Ends, StartsLocking, StartsLegacy, Blank
    <3>2. t.locked = TRUE \/ t.ops \in Seq(Operations)
      BY <2>1, <2>3, <2>4, Zenon DEF Begins, Ends, StartsLocking, StartsLegacy, SamePayload, NoPayload, RowOK
    <3> QED
      BY <3>1, <3>2, NoWorkRows, Zenon
  <2>5. CASE AsksLock(w, s, t) \/ (\E g : Seeds(w, s, t, g)) \/ Allocates(w, s, t) \/ Logs(w, s, t)
    <3>1. /\ t.todo = s.todo /\ t.pend = s.pend /\ t.entries = s.entries /\ (t.snap = s.snap \/ t.snap = <<Snap(w)>>)
          /\ Within(s, t)
      BY <2>5, Zenon DEF AsksLock, Seeds, Allocates, Logs
    <3>2. t.locked = s.locked /\ t.ops = s.ops /\ SameTables
      BY <3>1, Zenon DEF Within, SamePayload
    <3>3. t.snap = <<>> \/ t.snap[1].bookmarks \in [Names -> Rows]
      <4>1. CASE t.snap = s.snap
        BY <2>1, <4>1, Zenon DEF RowOK
      <4>2. CASE t.snap = <<Snap(w)>>
        BY <2>2, <4>2, SingleSeq, Zenon
      <4> QED
        BY <3>1, <4>1, <4>2, Zenon
    <3> QED
      BY <2>1, <3>1, <3>2, <3>3, Zenon DEF RowOK
  <2>6. CASE HasLocks(w, s, t) \/ FindsNext(w, s, t)
    <3>1. /\ t.todo = s.todo \/ (~s.locked /\ t.todo = s.ops)
          /\ t.pend = s.pend /\ t.entries = s.entries /\ (t.snap = s.snap \/ t.snap = Snapshot)
          /\ Within(s, t)
      BY <2>1, <2>6, Zenon DEF HasLocks, FindsNext, RecordOK
    <3>2. t.locked = s.locked /\ t.ops = s.ops /\ SameTables
      BY <3>1, Zenon DEF Within, SamePayload
    <3>3. t.snap = <<>> \/ t.snap[1].bookmarks \in [Names -> Rows]
      BY <2>1, <2>2, <3>1, Zenon DEF RowOK
    <3>4. t.todo \in Seq(Operations)
      BY <2>1, <3>1, Zenon DEF RowOK
    <3> QED
      BY <2>1, <3>1, <3>2, <3>3, <3>4, Zenon DEF RowOK
  <2>7. CASE CallerWrites(w, s, t)
    <3>1. t.pend = s.pend /\ t.entries = s.entries /\ t.snap = s.snap /\ Within(s, t) /\ s.pc = "held"
      BY <2>7, Zenon DEF CallerWrites
    <3>2. t.locked = s.locked /\ t.ops = s.ops /\ SameTables
      BY <3>1, Zenon DEF Within, SamePayload
    <3>3. PICK n \in Names : s.ops = <<LockedOp(n)>>
      BY <2>1, <3>1, Zenon DEF RecordOK
    <3>4. s.ops[1] = LockedOp(n) /\ LockedOp(n).name = n
      BY <3>3 DEF LockedOp
    <3>5. PICK o : o = Snap(w).bookmarks[n].cs
      BY Zenon
    <3>6. o \in Changesets
      <4>1. Snap(w).bookmarks[n] \in Rows /\ o # NoCs
        BY <2>2, <2>7, <3>4, <3>5, Zenon DEF CallerWrites
      <4> QED
        BY <3>5, <4>1, Zenon DEF Rows
    <3>7. PICK c \in Changesets : t.todo = <<[LockedOp(n) EXCEPT !.old = o, !.new = c]>>
      BY <2>7, <3>4, <3>5, ZenonT(30) DEF CallerWrites
    <3>8. [LockedOp(n) EXCEPT !.old = o, !.new = c] \in Operations
      BY <3>6, Zenon DEF LockedOp, Operations
    <3>9. t.todo \in Seq(Operations)
      BY <3>7, <3>8
    <3> QED
      BY <2>1, <3>1, <3>2, <3>9, ZenonT(30) DEF RowOK
  <2>8. CASE Writes(w, s, t)
    <3> DEFINE op == Head(s.todo)
               id == Head(s.ids)
               rows == Written(View(w), op, id)
               row == LogRow(op, id)
               D == Changed(w, rows) \cup {op.name}
               V == View(w)
    <3>1. /\ s.pc = "write" /\ s.todo # <<>> /\ t.todo = Tail(s.todo) /\ t.snap = s.snap /\ Within(s, t)
          /\ t.entries = s.entries \cup {row} /\ t.pend = [n \in D |-> rows[n]]
      BY <2>8, Zenon DEF Writes
    <3>2. t.locked = s.locked /\ t.ops = s.ops /\ SameTables
      BY <3>1, Zenon DEF Within, SamePayload
    <3>3. s.todo \in Seq(Operations) /\ s.ids \in Seq(Nat) /\ Len(s.ids) = Len(s.todo)
      BY <2>1, <3>1, Zenon DEF RowOK, ShapeOK
    <3>4. t.todo \in Seq(Operations) /\ op \in Operations /\ id \in Nat
      <4>1. t.todo \in Seq(Operations) /\ op \in Operations
        BY <3>1, <3>3, SeqHead, Zenon
      <4>2. s.ids # <<>>
        BY ONLY <3>1, <3>3, SameLength, ZenonT(30)
      <4>3. id \in Nat
        BY <3>3, <4>2, SeqHead, Zenon
      <4> QED
        BY <4>1, <4>3, Zenon
    <3>5. op.name \in Names
      BY <3>4, Zenon DEF Operations
    <3>6. row.id = id /\ row.name = op.name
      BY Zenon DEF LogRow
    <3>7. V \in [Names -> Rows] /\ \A n \in Names : V[n].log_id \in {0} \cup Ids(log) \cup Ids(s.entries)
      BY ViewRows, Zenon
    <3>8. rows \in [Names -> Rows] /\ \A m \in Names : rows[m].log_id \in {0, id, V[m].log_id}
      BY <3>4, <3>7, WrittenRows, Zenon
    <3>9. D \subseteq Names
      BY <3>5, Zenon DEF Changed
    <3> HIDE DEF op, id, rows, row, D, V
    <3>10. Ids(t.entries) = Ids(s.entries) \cup {id}
      BY <3>1, <3>6, Zenon DEF Ids
    <3>11. DOMAIN t.pend = D /\ t.pend \in [D -> Rows] /\ \A n \in D : t.pend[n] = rows[n]
      BY <3>1, <3>8, <3>9, Zenon
    <3>12. \A n \in D : t.pend[n].log_id \in {0} \cup Ids(log) \cup Ids(t.entries)
      BY <3>7, <3>8, <3>9, <3>10, <3>11, Zenon
    <3>13. \A e \in t.entries : e.name \in Names
      BY <2>1, <3>1, <3>5, <3>6, Zenon DEF RowOK
    <3> QED
      BY <2>1, <3>1, <3>2, <3>4, <3>9, <3>11, <3>12, <3>13, Zenon DEF RowOK
  <2>9. CASE Mirrors(w, s, t)
    BY <2>1, <2>9, Zenon DEF Mirrors, ShapeOK
  <2> QED
    BY <2>4, <2>5, <2>6, <2>7, <2>8, <2>9, Zenon DEF Described
<1> DEFINE s == txn[w]
           t == txn'[w]
<1>1. /\ bookmarks \in [Names -> Rows] /\ \A n \in Names : bookmarks[n].log_id \in {0} \cup Ids(log)
      /\ \A e \in log : e.name \in Names
  BY Zenon DEF RowInv
<1>2. CASE Takes(w, s, t)
  <2>1. bookmarks' = View(w) /\ log' = log \cup s.entries /\ NoWork(t) /\ t.ops = <<>>
    BY <1>2, Zenon DEF Takes, Blank, NoPayload
  <2>2. Ids(log') = Ids(log) \cup Ids(s.entries)
    BY <2>1, IdsUnion, Zenon
  <2>3. bookmarks' \in [Names -> Rows] /\ \A n \in Names : bookmarks'[n].log_id \in {0} \cup Ids(log')
    BY <2>1, <2>2, ViewRows, Zenon
  <2>4. \A e \in log' : e.name \in Names
    BY <1>1, <2>1, Zenon DEF RowInv, RowOK
  <2>5. RowOK(t, Ids(log'))
    <3>1. <<>> \in Seq(Operations)
      OBVIOUS
    <3> QED
      BY <2>1, <3>1, NoWorkRows, Zenon
  <2> QED
    BY <2>2, <2>3, <2>4, <2>5, <1>RowFrame, Zenon
<1>3. CASE ~Takes(w, s, t)
  <2>1. RowOK(t, Ids(log)) /\ bookmarks' = bookmarks /\ log' = log
    BY <1>3, <1>RowRecord, Zenon DEF SameTables
  <2>2. Ids(log') = Ids(log)
    BY <2>1, Zenon
  <2> QED
    BY <1>1, <2>1, <2>2, <1>RowFrame, Zenon
<1> QED
  BY <1>2, <1>3, Zenon

-----------------------------------------------------------------------------
(* No id of the sequence table is beyond its counter. *)
SeqOK(t, a) ==
    /\ t.pseq \in Nat /\ t.pseq <= a
    /\ t.snap = <<>> \/ (t.snap[1].seq \in Nat /\ t.snap[1].seq <= a)

SeqInv ==
    ~replica => seqMax \in Nat /\ seqMax <= autoInc /\ \A w \in Writers : SeqOK(txn[w], autoInc)

(* The counter only grows. *)
LEMMA CounterGrows ==
  ASSUME LegacyInv, SeqInv, ~replica, NEW w \in Writers, NEW t, Described(w, txn[w], t)
  PROVE  /\ autoInc \in Nat /\ autoInc' \in Nat /\ autoInc <= autoInc'
         /\ \A g : Seeds(w, txn[w], t, g) => g \in Nat /\ g <= autoInc' /\ Snap(w).log \in Nat /\ Snap(w).seq \in Nat
                                             /\ Snap(w).seq <= autoInc
<1>1. autoInc \in Nat
  BY Zenon DEF LegacyInv
<1>2. Snap(w).log \in Nat
  BY SnapLog, Zenon
<1>3. Snap(w).seq \in Nat /\ Snap(w).seq <= autoInc
  <2>1. Snapshot[1].seq = seqMax
    BY Zenon DEF Snapshot
  <2>2. Snap(w) = IF txn[w].snap = <<>> THEN Snapshot[1] ELSE txn[w].snap[1]
    BY Zenon DEF Snap
  <2>3. SeqOK(txn[w], autoInc) /\ seqMax \in Nat /\ seqMax <= autoInc
    BY Zenon DEF SeqInv
  <2> QED
    BY <2>1, <2>2, <2>3, Zenon DEF SeqOK
<1>4. ASSUME NEW g, Seeds(w, txn[w], t, g) PROVE g \in Nat /\ autoInc' \in Nat /\ autoInc <= autoInc' /\ g <= autoInc'
  <2>1. g = (IF Snap(w).log > Snap(w).seq THEN Snap(w).log + 1 ELSE 0) /\ autoInc' = Max({autoInc, g})
    BY <1>4, Zenon DEF Seeds
  <2>2. g \in Nat
    BY <1>2, <1>3, <2>1
  <2> QED
    BY <1>1, <2>1, <2>2, MaxAtMost, Zenon
<1>5. CASE \E g : Seeds(w, txn[w], t, g)
  BY <1>1, <1>2, <1>3, <1>4, <1>5, Zenon
<1>6. CASE ~\E g : Seeds(w, txn[w], t, g)
  <2>1. autoInc' = autoInc \/ autoInc' = autoInc + 1
    BY <1>6, Zenon DEF Described, Begins, Ends, Takes, StartsLocking, StartsLegacy, AsksLock, HasLocks, CallerWrites,
       Allocates, FindsNext, Writes, Logs, Mirrors
  <2> QED
    BY <1>1, <1>6, <2>1
<1> QED
  BY <1>5, <1>6, Zenon

(* Every step keeps the sequence behind its counter. *)
LEMMA SeqStep ==
  ASSUME LegacyInv, SeqInv, ~replica, replica' = replica,
         NEW w \in Writers, Described(w, txn[w], txn'[w]), \A v \in Writers \ {w} : txn'[v] = txn[v]
  PROVE  SeqInv'
<1> DEFINE s == txn[w]
           t == txn'[w]
<1>1. autoInc \in Nat /\ autoInc' \in Nat /\ autoInc <= autoInc'
  BY CounterGrows, Zenon
<1>2. seqMax \in Nat /\ seqMax <= autoInc /\ \A v \in Writers : SeqOK(txn[v], autoInc)
  BY Zenon DEF SeqInv
<1>3. \A v \in Writers : SeqOK(txn[v], autoInc')
  BY <1>1, <1>2 DEF SeqOK
<1>4. seqMax' \in Nat /\ seqMax' <= autoInc'
  <2>1. CASE Takes(w, s, t)
    <3>1. seqMax' = Max({seqMax, s.pseq}) /\ s.pseq \in Nat /\ s.pseq <= autoInc'
      BY <1>3, <2>1, Zenon DEF Takes, SeqOK
    <3>2. /\ Max({seqMax, s.pseq}) \in Nat
          /\ \A c \in Nat : seqMax <= c /\ s.pseq <= c => Max({seqMax, s.pseq}) <= c
      BY <1>2, <3>1, MaxAtMost, Zenon
    <3>3. seqMax <= autoInc'
      BY <1>1, <1>2
    <3> QED
      BY <1>1, <3>1, <3>2, <3>3, Zenon
  <2>2. CASE ~Takes(w, s, t)
    <3>1. SameTables
      BY <2>2, Zenon DEF Described, Begins, Ends, StartsLocking, StartsLegacy, AsksLock, HasLocks, CallerWrites,
         Seeds, Allocates, FindsNext, Writes, Logs, Mirrors, Within
    <3> QED
      BY <1>1, <1>2, <3>1 DEF SameTables
  <2> QED
    BY <2>1, <2>2, Zenon
<1>5. SeqOK(t, autoInc')
  <2>1. CASE NoWork(t)
    BY <1>1, <2>1 DEF NoWork, SeqOK
  <2>2. CASE t.pseq = s.pseq /\ (t.snap = s.snap \/ t.snap = Snapshot)
    <3>1. Snapshot[1].seq = seqMax
      BY Zenon DEF Snapshot
    <3> QED
      BY <1>1, <1>2, <1>3, <2>2, <3>1 DEF SeqOK
  <2>3. CASE \E g : Seeds(w, s, t, g)
    <3>1. PICK g : Seeds(w, s, t, g)
      BY <2>3, Zenon
    <3>2. t.pseq = g /\ t.snap = <<Snap(w)>>
      BY <3>1, Zenon DEF Seeds
    <3>3. g \in Nat /\ g <= autoInc' /\ Snap(w).seq \in Nat /\ Snap(w).seq <= autoInc
      BY <3>1, CounterGrows, Zenon
    <3> QED
      BY <1>1, <3>2, <3>3 DEF SeqOK
  <2>4. CASE Allocates(w, s, t)
    <3>1. t.pseq = autoInc + 1 /\ autoInc' = autoInc + 1 /\ t.snap = s.snap
      BY <2>4, Zenon DEF Allocates
    <3> QED
      BY <1>1, <1>3, <3>1 DEF SeqOK
  <2> QED
    BY <2>1, <2>2, <2>3, <2>4, ZenonT(30) DEF Described, Begins, Ends, Takes, StartsLocking, StartsLegacy, AsksLock, HasLocks,
       CallerWrites, FindsNext, Writes, Logs, Mirrors, Blank
<1>6. \A v \in Writers : SeqOK(txn'[v], autoInc')
  BY <1>3, <1>5, Zenon
<1>7. \A v \in Writers : SeqOK(txn[v], autoInc)'
  BY <1>6, Zenon
<1> QED
  BY <1>4, <1>7, Zenon DEF SeqInv

-----------------------------------------------------------------------------
(* The ids of a transaction on the new path are its own: above everything  *)
(* committed of the bookmarks it has locked, and in nobody else's hands.   *)
(* t is the record of w, h the locks, L the log and a the counter.         *)
Allocated(t) == {t.ids[i] : i \in DOMAIN t.ids}
IdsOf(t) == Allocated(t) \cup Ids(t.entries)

FreshOK(w, t, h, L, a) ==
    /\ IdsOf(t) \subseteq 1 .. a
    /\ IdsOf(t) \cap Ids(L) = {}
    /\ t.pc \in {"held", "seed"} /\ t.snap # <<>> => \A x \in Ids(L) : x <= t.snap[1].log \/ x <= a
    /\ t.pc \in {"alloc", "write", "commit"} => \A x \in Ids(L) : x <= a
    /\ \A x \in L : h[x.name] = w => \A i \in IdsOf(t) : x.id < i
    /\ \A i, j \in DOMAIN t.ids : i < j => t.ids[i] < t.ids[j]
    /\ \A e \in Ids(t.entries), j \in DOMAIN t.ids : e < t.ids[j]
    /\ \A n \in DOMAIN t.pend : n \in Names /\ h[n] = w

Apart(s, t) == IdsOf(s) \cap IdsOf(t) = {}

FreshInv ==
    ~replica /\ ~overlap =>
        \A w \in Writers : txn[w].locking =>
            /\ FreshOK(w, txn[w], held, log, autoInc)
            /\ \A v \in Writers \ {w} : txn[v].locking => Apart(txn[w], txn[v])

(* The record of w after a step that is not a commit: it has allocated     *)
(* nothing that was allocated before.                                      *)
OwnIds(s, t, a) == IdsOf(t) = {} \/ (s.locking /\ \A i \in IdsOf(t) : i \in IdsOf(s) \/ i > a)

(* Every step keeps the ids of the new path fresh. *)
LEMMA FreshStep ==
  ASSUME LockInv, LegacyInv, OverlapInv, RowInv, RowInv', SeqInv, FreshInv, ~replica, replica' = replica,
         NEW w \in Writers, Described(w, txn[w], txn'[w]),
         \A v \in Writers \ {w} : txn'[v] = txn[v],
         \A v \in Writers \ {w}, n \in Names : held'[n] = v <=> held[n] = v
  PROVE  FreshInv'
(* Without ids, only what is known of the log matters. *)
(* Nothing in the first a numbers is above a. *)
<1>NoneAbove. ASSUME NEW a \in Nat, NEW S, S \subseteq 1 .. a
              PROVE  \A i \in S : ~(i > a)
  BY <1>NoneAbove
<1>NoIds. ASSUME NEW t, NEW h, NEW L, NEW a, t.ids = <<>>, t.entries = {}, t.pend = <<>>,
                 t.pc \in {"held", "seed"} /\ t.snap # <<>> => \A x \in Ids(L) : x <= t.snap[1].log \/ x <= a,
                 t.pc \in {"alloc", "write", "commit"} => \A x \in Ids(L) : x <= a
          PROVE  IdsOf(t) = {} /\ FreshOK(w, t, h, L, a)
  <2> USE <1>NoIds
  <2>1. DOMAIN t.ids = {} /\ DOMAIN t.pend = {} /\ Ids(t.entries) = {}
    BY DEF Ids
  <2>2. IdsOf(t) = {}
    BY <2>1, Zenon DEF IdsOf, Allocated
  <2> QED
    BY <2>1, <2>2, Zenon DEF FreshOK
(* After the seed check no row of the log is beyond the counter. *)
<1>SeedsFresh. ASSUME ~overlap, NEW t, NEW g, Seeds(w, txn[w], t, g)
               PROVE  \A x \in Ids(log) : x <= autoInc'
  <2> USE <1>SeedsFresh
  <2> DEFINE s == txn[w]
             n == Snap(w)
  <2>1. RecordOK(s, replica) /\ s.pc = "seed"
    BY Zenon DEF LockInv, Seeds
  <2>2. FreshOK(w, s, held, log, autoInc)
    BY <2>1, Zenon DEF RecordOK, FreshInv
  <2>3. /\ autoInc \in Nat /\ autoInc' \in Nat /\ autoInc <= autoInc'
        /\ g \in Nat /\ g <= autoInc' /\ n.log \in Nat /\ n.seq \in Nat /\ n.seq <= autoInc
    <3>1. Described(w, txn[w], t)
      BY Zenon DEF Described
    <3> QED
      BY <3>1, CounterGrows, Zenon
  <2>4. g = IF n.log > n.seq THEN n.log + 1 ELSE 0
    BY Zenon DEF Seeds
  <2>5. Ids(log) \subseteq Nat /\ Topped(Ids(log))
    BY Zenon DEF LegacyInv, Topped
  <2>6. \A x \in Ids(log) : x <= n.log \/ x <= autoInc
    <3>1. CASE s.snap = <<>>
      <4>1. n.log = MaxLogId
        BY <3>1, Zenon DEF Snap, Snapshot
      <4>2. \A x \in Ids(log) : x <= MaxLogId
        BY <2>5, TopOf, MaxLogIdIsTop, Zenon
      <4> QED
        BY <4>1, <4>2, Zenon
    <3>2. CASE s.snap # <<>>
      <4>1. n = s.snap[1]
        BY <3>2, Zenon DEF Snap
      <4> QED
        BY <2>1, <2>2, <3>2, <4>1, Zenon DEF FreshOK
    <3> QED
      BY <3>1, <3>2, Zenon
  <2> HIDE DEF n
  <2> QED
    BY <2>3, <2>4, <2>5, <2>6
(* The next AUTO_INCREMENT value is beyond everything. *)
<1>AllocatesFresh. ASSUME ~overlap, NEW t, Allocates(w, txn[w], t)
                   PROVE  FreshOK(w, t, held, log, autoInc') /\ \A i \in IdsOf(t) : i \in IdsOf(txn[w]) \/ i > autoInc
  <2> USE <1>AllocatesFresh
  <2> DEFINE s == txn[w]
             a == autoInc
             L == Ids(log)
             D == DOMAIN s.ids
             k == Len(s.ids) + 1
  <2>1. /\ s.pc = "alloc" /\ autoInc' = a + 1 /\ t.ids = Append(s.ids, a + 1) /\ t.pend = s.pend /\ t.entries = s.entries
        /\ t.pc \in {"alloc", "write"}
    BY Zenon DEF Allocates
  <2>2. RecordOK(s, replica) /\ s.ids \in Seq(Nat) /\ a \in Nat /\ L \subseteq Nat
    BY Zenon DEF LockInv, LegacyInv, ShapeOK, Topped
  <2>3. FreshOK(w, s, held, log, a)
    BY <2>1, <2>2, Zenon DEF RecordOK, FreshInv
  <2>4. s.entries = {} /\ s.pend = <<>>
    BY <2>1, <2>2, Zenon DEF RecordOK
  <2>5. Ids(t.entries) = {} /\ DOMAIN t.pend = {}
    BY <2>1, <2>4 DEF Ids
  <2>6. IdsOf(s) = Allocated(s) /\ IdsOf(t) = Allocated(t)
    BY <2>1, <2>4, <2>5, Zenon DEF IdsOf
  <2>7. DOMAIN t.ids = D \cup {k} /\ D = 1 .. Len(s.ids) /\ Len(s.ids) \in Nat /\ t.ids[k] = a + 1 /\ \A i \in D : t.ids[i] = s.ids[i]
    <3>1. a + 1 \in Nat
      BY <2>2
    <3> QED
      BY <2>1, <2>2, <3>1, AppendOne
  <2>8. k \notin D /\ \A i \in D : i < k
    BY <2>7
  <2> HIDE DEF k, D
  <2>9. IdsOf(t) = IdsOf(s) \cup {a + 1}
    BY <2>6, <2>7 DEF Allocated, D
  <2>10. \A i \in D : s.ids[i] \in IdsOf(s)
    BY <2>6, Zenon DEF Allocated, D
  <2>11. IdsOf(s) \subseteq 1 .. a /\ IdsOf(s) \cap L = {} /\ \A x \in L : x <= a
    BY <2>1, <2>3, Zenon DEF FreshOK
  <2>12. \A i, j \in D : i < j => s.ids[i] < s.ids[j]
    BY <2>3, Zenon DEF FreshOK, D
  <2>13. \A x \in log : held[x.name] = w => \A i \in IdsOf(s) : x.id < i
    BY <2>3, Zenon DEF FreshOK
  <2>14. \A x \in log : x.id \in L
    BY Zenon DEF Ids
  <2> HIDE DEF a, L
  <2>15. a + 1 \notin L /\ \A x \in L : x < a + 1
    BY <2>2, <2>11
  <2>16. \A i, j \in DOMAIN t.ids : i < j => t.ids[i] < t.ids[j]
    <3> SUFFICES ASSUME NEW i \in D \cup {k}, NEW j \in D \cup {k}, i < j PROVE t.ids[i] < t.ids[j]
      BY <2>7, Zenon
    <3>1. i \in D
      BY <2>7, <2>8
    <3>2. CASE j = k
      BY <2>2, <2>7, <2>10, <2>11, <3>1, <3>2
    <3>3. CASE j \in D
      BY <2>7, <2>12, <3>1, <3>3, Zenon
    <3> QED
      BY <3>2, <3>3, Zenon
  <2>17. IdsOf(t) \subseteq 1 .. a + 1
    BY <2>2, <2>9, <2>11
  <2>18. \A x \in log : held[x.name] = w => \A i \in IdsOf(t) : x.id < i
    BY <2>9, <2>13, <2>14, <2>15, Zenon
  <2>19. FreshOK(w, t, held, log, a + 1)
    <3>1. IdsOf(t) \cap Ids(log) = {}
      BY <2>9, <2>11, <2>15, Zenon DEF L
    <3>2. \A x \in Ids(log) : x <= a + 1
      BY <2>2, <2>11 DEF L
    <3>3. t.pc \notin {"held", "seed"}
      BY <2>1, Zenon
    <3> QED
      BY <2>5, <2>16, <2>17, <2>18, <3>1, <3>2, <3>3, Zenon DEF FreshOK
  <2>20. \A i \in IdsOf(t) : i \in IdsOf(s) \/ i > a
    BY <2>2, <2>9
  <2> QED
    BY <2>1, <2>19, <2>20, Zenon DEF a
(* A row is written with an id that no row has: only that row changes. *)
<1>WritesFresh. ASSUME ~overlap, NEW t, txn[w].locking, Writes(w, txn[w], t)
                PROVE  FreshOK(w, t, held, log, autoInc) /\ IdsOf(t) = IdsOf(txn[w])
  <2> USE <1>WritesFresh
  <2> DEFINE s == txn[w]
             op == Head(s.todo)
             id == Head(s.ids)
             V == View(w)
             rows == Written(V, op, id)
             row == LogRow(op, id)
             D == Changed(w, rows) \cup {op.name}
             E == Ids(s.entries)
             L == Ids(log)
  <2>1. /\ s.pc = "write" /\ s.todo # <<>> /\ t.pc = "write" /\ t.ids = Tail(s.ids) /\ t.entries = s.entries \cup {row}
        /\ t.pend = [n \in D |-> rows[n]]
    BY Zenon DEF Writes
  <2>2. /\ s.todo \in Seq(Operations) /\ s.ids \in Seq(Nat) /\ Len(s.ids) = Len(s.todo) /\ HoldsOK(w, s, held)
    BY <2>1, Zenon DEF RowInv, RowOK, LegacyInv, ShapeOK, LockInv
  <2>3. FreshOK(w, s, held, log, autoInc)
    BY Zenon DEF FreshInv
  <2>4. /\ op \in Operations /\ id \in Nat /\ 1 \in DOMAIN s.ids /\ s.ids[1] = id /\ 1 \in DOMAIN s.todo /\ s.todo[1] = op
        /\ \A i \in DOMAIN Tail(s.ids) : i \in Nat \ {0} /\ i + 1 \in DOMAIN s.ids /\ Tail(s.ids)[i] = s.ids[i + 1]
        /\ \A i \in DOMAIN s.ids \ {1} : i - 1 \in DOMAIN Tail(s.ids) /\ Tail(s.ids)[i - 1] = s.ids[i]
    <3>1. s.ids # <<>> /\ op \in Operations /\ 1 \in DOMAIN s.todo /\ s.todo[1] = op
      <4>1. op \in Operations /\ 1 \in DOMAIN s.todo /\ s.todo[1] = op
        BY <2>1, <2>2, SeqHead, ZenonT(30)
      <4>2. s.ids # <<>>
        BY ONLY <2>1, <2>2, SameLength, ZenonT(30)
      <4> QED
        BY <4>1, <4>2, Zenon
    <3> QED
      BY <2>2, <3>1, TailOne, Zenon
  <2>5. op.name \in Names /\ held[op.name] = w
    <3>1. \A i \in DOMAIN s.todo : s.todo[i].name \in Names /\ held[s.todo[i].name] = w
      BY <2>2, Zenon DEF HoldsOK
    <3>2. 1 \in DOMAIN s.todo /\ s.todo[1] = op
      BY <2>4, Zenon
    <3> QED
      BY ONLY <3>1, <3>2, Zenon
  <2>6. row.id = id
    BY Zenon DEF LogRow
  <2>7. V \in [Names -> Rows] /\ \A n \in Names : V[n].log_id \in {0} \cup L \cup E
    BY ViewRows, Zenon
  <2>8. \A n \in Names : V[n] = IF n \in DOMAIN s.pend THEN s.pend[n] ELSE bookmarks[n]
    BY ViewRows, Zenon
  <2>9. Clash(V, op.name, id) = {} => \A m \in Names \ {op.name} : rows[m] = V[m]
    <3> HIDE DEF V, op, id
    <3>1. V \in [Names -> Rows] /\ op \in Operations /\ id \in Nat
      BY <2>4, <2>7, Zenon
    <3> QED
      BY ONLY <3>1, WrittenRows, Zenon
  <2>10. D = {n \in Names : rows[n] # bookmarks[n] \/ n \in DOMAIN s.pend} \cup {op.name}
    BY Zenon DEF Changed, Touched
  <2>11. Ids(t.entries) = E \cup {id}
    BY ONLY <2>1, <2>6 DEF Ids
  <2> HIDE DEF op, id, V, rows, row, D, E, L
  <2>12. id \in IdsOf(s) /\ IdsOf(s) \cap L = {} /\ IdsOf(s) \subseteq 1 .. autoInc
    BY <2>3, <2>4, Zenon DEF FreshOK, IdsOf, Allocated, L
  <2>13. \A e \in E, j \in DOMAIN s.ids : e < s.ids[j]
    BY <2>3, Zenon DEF FreshOK, E
  <2>14. id # 0 /\ id \notin L /\ id \notin E
    BY <2>4, <2>12, <2>13
  <2>15. Clash(V, op.name, id) = {}
    BY <2>7, <2>14, Zenon DEF Clash
  <2>16. \A n \in DOMAIN t.pend : n \in Names /\ held[n] = w
    <3>1. DOMAIN t.pend = D
      BY <2>1, Zenon
    <3>2. \A n \in DOMAIN s.pend : n \in Names /\ held[n] = w
      BY <2>3, Zenon DEF FreshOK
    <3>3. ASSUME NEW n \in D, n # op.name PROVE n \in DOMAIN s.pend
      BY <2>8, <2>9, <2>10, <2>15, <3>3, Zenon
    <3> QED
      BY <2>5, <3>1, <3>2, <3>3, Zenon
  <2>17. IdsOf(t) = IdsOf(s)
    <3>1. Allocated(s) = {id} \cup Allocated(t)
      <4>1. ASSUME NEW x \in Allocated(s), x # id PROVE x \in Allocated(t)
        <5>1. PICK i \in DOMAIN s.ids : x = s.ids[i]
          BY <4>1, Zenon DEF Allocated
        <5>2. i # 1
          BY <2>4, <4>1, <5>1, Zenon
        <5>3. i - 1 \in DOMAIN t.ids /\ t.ids[i - 1] = x
          BY <2>1, <2>4, <5>1, <5>2, Zenon
        <5> QED
          BY <5>3, Zenon DEF Allocated
      <4>2. ASSUME NEW x \in Allocated(t) PROVE x \in Allocated(s)
        <5>1. PICK i \in DOMAIN t.ids : x = t.ids[i]
          BY <4>2, Zenon DEF Allocated
        <5>2. i + 1 \in DOMAIN s.ids /\ s.ids[i + 1] = x
          BY <2>1, <2>4, <5>1, Zenon
        <5> QED
          BY <5>2, Zenon DEF Allocated
      <4>3. id \in Allocated(s)
        BY <2>4, Zenon DEF Allocated
      <4> QED
        BY <4>1, <4>2, <4>3, Zenon
    <3> QED
      BY <2>11, <3>1, Zenon DEF IdsOf, E
  <2>18. \A i, j \in DOMAIN s.ids : i < j => s.ids[i] < s.ids[j]
    BY <2>3, Zenon DEF FreshOK
  <2>19. \A i, j \in DOMAIN t.ids : i < j => t.ids[i] < t.ids[j]
    <3>1. s.ids # <<>>
      BY <2>4
    <3> QED
      BY <2>1, <2>2, <2>18, <3>1, TailRises, ZenonT(30)
  <2>20. \A e \in Ids(t.entries), j \in DOMAIN t.ids : e < t.ids[j]
    <3> SUFFICES ASSUME NEW e \in E \cup {id}, NEW j \in DOMAIN t.ids PROVE e < t.ids[j]
      BY <2>11, Zenon
    <3>1. j + 1 \in DOMAIN s.ids /\ t.ids[j] = s.ids[j + 1] /\ 1 < j + 1
      BY <2>1, <2>4
    <3>2. CASE e \in E
      BY <2>13, <3>1, <3>2, Zenon
    <3>3. CASE e = id
      BY <2>4, <2>18, <3>1, <3>3, ZenonT(30)
    <3> QED
      BY <3>2, <3>3, Zenon
  <2> QED
    BY <2>1, <2>3, <2>16, <2>17, <2>19, <2>20, Zenon DEF FreshOK
(* The record of w after a step that is not a commit. *)
<1>FreshRecord. ASSUME ~overlap, NEW t, Described(w, txn[w], t), ~Takes(w, txn[w], t), t.locking
                PROVE  FreshOK(w, t, held', log, autoInc') /\ OwnIds(txn[w], t, autoInc)
  <2> USE <1>FreshRecord
  <2> DEFINE s == txn[w]
             Empty == t.ids = <<>> /\ t.entries = {} /\ t.pend = <<>>
  <2>1. RecordOK(s, replica) /\ ShapeOK(s, autoInc) /\ (s.locking => FreshOK(w, s, held, log, autoInc))
    BY Zenon DEF LockInv, LegacyInv, FreshInv
  <2>2. CASE Begins(w, s, t) \/ Ends(w, s, t) \/ StartsLegacy(w, s, t) \/ FindsNext(w, s, t) \/ Mirrors(w, s, t)
    <3>1. t.locking = FALSE \/ (s.pc = "max" /\ t.locking = s.locking) \/ s.pc = "mirror"
      BY <2>2, Zenon DEF Begins, Ends, StartsLegacy, FindsNext, Mirrors, Blank, Within
    <3> QED
      BY <2>1, <3>1, Zenon DEF RecordOK, ShapeOK
  <2>3. CASE StartsLocking(w, s, t) \/ AsksLock(w, s, t)
    <3>1. t.pc = "lock"
      BY <2>3, Zenon DEF StartsLocking, AsksLock
    <3>2. Empty
      BY <2>1, <2>3, Zenon DEF StartsLocking, NoWork, AsksLock, RecordOK
    <3> QED
      BY <3>1, <3>2, <1>NoIds, Zenon DEF OwnIds
  <2>4. CASE HasLocks(w, s, t)
    <3>1. Empty
      BY <2>1, <2>4, Zenon DEF HasLocks, RecordOK
    <3>2. (t.pc = "held" /\ t.snap = Snapshot) \/ (t.pc = "seed" /\ t.snap = <<>>)
      BY <2>1, <2>4, Zenon DEF HasLocks, RecordOK
    <3>3. Snapshot[1].log = MaxLogId /\ \A x \in Ids(log) : x <= MaxLogId
      BY TopOf, MaxLogIdIsTop, ZenonT(30) DEF Snapshot, LegacyInv
    <3>4. t.snap # <<>> => \A x \in Ids(log) : x <= t.snap[1].log
      BY <3>2, <3>3, Zenon
    <3> QED
      BY <3>1, <3>2, <3>4, <1>NoIds, Zenon DEF OwnIds
  <2>5. CASE CallerWrites(w, s, t)
    <3>1. Empty /\ t.snap = s.snap /\ s.pc = "held" /\ t.pc = "seed" /\ s.locking /\ autoInc' = autoInc
      BY <2>1, <2>5, Zenon DEF CallerWrites, RecordOK
    <3>2. t.snap # <<>> => \A x \in Ids(log) : x <= t.snap[1].log \/ x <= autoInc
      BY <2>1, <3>1, Zenon DEF FreshOK
    <3> QED
      BY <3>1, <3>2, <1>NoIds, ZenonT(30) DEF OwnIds
  <2>6. CASE \E g : Seeds(w, s, t, g)
    <3>1. PICK g : Seeds(w, s, t, g)
      BY <2>6, Zenon
    <3>2. Empty /\ t.pc = "alloc"
      BY <2>1, <3>1, Zenon DEF Seeds, RecordOK
    <3>3. \A x \in Ids(log) : x <= autoInc'
      BY <3>1, <1>SeedsFresh, Zenon
    <3> QED
      BY <3>2, <3>3, <1>NoIds, Zenon DEF OwnIds
  <2>7. CASE Allocates(w, s, t)
    <3>1. held' = held /\ s.locking
      BY <2>1, <2>7, Zenon DEF Allocates, RecordOK
    <3> QED
      BY <2>7, <3>1, <1>AllocatesFresh, Zenon DEF OwnIds
  <2>8. CASE Writes(w, s, t)
    <3>1. held' = held /\ autoInc' = autoInc /\ s.locking
      BY <2>8, Zenon DEF Writes, Within
    <3>2. FreshOK(w, t, held, log, autoInc) /\ IdsOf(t) = IdsOf(s)
      BY <2>8, <3>1, <1>WritesFresh, Zenon
    <3> QED
      BY <3>1, <3>2, Zenon DEF OwnIds
  <2>9. CASE Logs(w, s, t)
    <3>1. /\ held' = held /\ autoInc' = autoInc /\ s.locking /\ s.pc = "write" /\ t.pc = "commit"
          /\ t.ids = s.ids /\ t.pend = s.pend /\ t.entries = s.entries
      BY <2>9, Zenon DEF Logs, Within
    <3>2. IdsOf(t) = IdsOf(s)
      BY ONLY <3>1, Zenon DEF IdsOf, Allocated
    <3>3. FreshOK(w, t, held, log, autoInc)
      BY <2>1, <3>1, <3>2, Zenon DEF FreshOK
    <3> QED
      BY <3>1, <3>2, <3>3, Zenon DEF OwnIds
  <2> QED
    BY <2>2, <2>3, <2>4, <2>5, <2>6, <2>7, <2>8, <2>9, Zenon DEF Described
(* What another transaction does leaves the ids of v free: it allocates    *)
(* beyond the counter and commits rows of bookmarks v has not locked.      *)
<1>OthersFresh. ASSUME NEW v, NEW t, NEW h, NEW k, NEW L, NEW new, NEW a \in Nat, NEW b \in Nat, a <= b,
                       Ids(L) \subseteq Nat, Ids(new) \subseteq Nat, FreshOK(v, t, h, L, a),
                       \A n \in Names : k[n] = v <=> h[n] = v, \A x \in L \cup new : x.name \in Names,
                       Ids(new) \subseteq 1 .. a, Ids(new) \cap IdsOf(t) = {}, \A x \in new : h[x.name] # v
                PROVE  FreshOK(v, t, k, L \cup new, b)
  <2> USE <1>OthersFresh
  <2>1. Ids(L \cup new) = Ids(L) \cup Ids(new)
    BY IdsUnion, Zenon
  <2>2. IdsOf(t) \subseteq 1 .. b /\ IdsOf(t) \cap Ids(L \cup new) = {}
    <3>1. IdsOf(t) \subseteq 1 .. a /\ IdsOf(t) \cap Ids(L) = {}
      BY Zenon DEF FreshOK
    <3>2. 1 .. a \subseteq 1 .. b
      OBVIOUS
    <3> QED
      BY <2>1, <3>1, <3>2, Zenon
  <2>3. \A x \in Ids(new) : x <= b
    OBVIOUS
  <2>4. t.pc \in {"held", "seed"} /\ t.snap # <<>> => \A x \in Ids(L \cup new) : x <= t.snap[1].log \/ x <= b
    <3> SUFFICES ASSUME t.pc \in {"held", "seed"}, t.snap # <<>>, NEW x \in Ids(L) PROVE x <= t.snap[1].log \/ x <= b
      BY <2>1, <2>3, Zenon
    <3>1. x <= t.snap[1].log \/ x <= a
      BY Zenon DEF FreshOK
    <3> QED
      BY <3>1
  <2>5. t.pc \in {"alloc", "write", "commit"} => \A x \in Ids(L \cup new) : x <= b
    <3> SUFFICES ASSUME t.pc \in {"alloc", "write", "commit"}, NEW x \in Ids(L) PROVE x <= b
      BY <2>1, <2>3, Zenon
    <3>1. x <= a
      BY Zenon DEF FreshOK
    <3> QED
      BY <3>1
  <2>6. \A x \in L \cup new : k[x.name] = v => \A i \in IdsOf(t) : x.id < i
    BY Zenon DEF FreshOK
  <2>7. \A n \in DOMAIN t.pend : n \in Names /\ k[n] = v
    BY Zenon DEF FreshOK
  <2> QED
    BY <2>2, <2>4, <2>5, <2>6, <2>7, Zenon DEF FreshOK
<1> DEFINE s == txn[w]
           t == txn'[w]
           a == autoInc
           b == autoInc'
<1> SUFFICES ASSUME ~overlap'
             PROVE  \A v \in Writers : txn'[v].locking =>
                      /\ FreshOK(v, txn'[v], held', log', b)
                      /\ \A u \in Writers \ {v} : txn'[u].locking => Apart(txn'[v], txn'[u])
  BY Zenon DEF FreshInv
<1>1. ~overlap
  BY OverlapStep, Zenon
<1>2. a \in Nat /\ b \in Nat /\ a <= b
  BY CounterGrows, Zenon
<1>3. Ids(log) \subseteq Nat
  BY Zenon DEF LegacyInv, Topped
<1>4. \A v \in Writers : txn[v].locking => /\ FreshOK(v, txn[v], held, log, a)
                                           /\ \A u \in Writers \ {v} : txn[u].locking => Apart(txn[v], txn[u])
  BY <1>1, Zenon DEF FreshInv
<1>5. PICK new : /\ log' = log \cup new
                 /\ (Takes(w, s, t) /\ new = s.entries) \/ (~Takes(w, s, t) /\ new = {})
  <2>1. CASE Takes(w, s, t)
    BY <2>1, Zenon DEF Takes
  <2>2. CASE ~Takes(w, s, t)
    <3>1. SameTables
      BY <2>2, Zenon DEF Described, Begins, Ends, StartsLocking, StartsLegacy, AsksLock, HasLocks, CallerWrites,
         Seeds, Allocates, FindsNext, Writes, Logs, Mirrors, Within
    <3>2. log' = log \cup {}
      BY <3>1, Zenon DEF SameTables
    <3> QED
      BY <2>2, <3>2, Zenon
  <2> QED
    BY <2>1, <2>2, Zenon
<1>6. \A x \in log \cup new : x.name \in Names
  BY <1>5, Zenon DEF RowInv
<1>7. ASSUME t.locking PROVE FreshOK(w, t, held', log', b) /\ OwnIds(s, t, a)
  <2>1. ~Takes(w, s, t)
    BY <1>7, Zenon DEF Takes, Blank
  <2>2. log' = log
    BY <1>5, <2>1, Zenon
  <2> QED
    BY <1>1, <1>7, <2>1, <2>2, <1>FreshRecord, ZenonT(30)
<1>8. ASSUME NEW v \in Writers \ {w}, txn[v].locking PROVE FreshOK(v, txn[v], held', log', b)
  <2>1. Ids(new) \subseteq 1 .. a /\ Ids(new) \cap IdsOf(txn[v]) = {} /\ \A x \in new : held[x.name] # v
    <3>1. CASE Takes(w, s, t)
      <4>1. s.pc = "commit" /\ new = s.entries
        BY <1>5, <3>1, Zenon DEF Takes
      <4>2. txn[v].pc \in Running /\ s.pc \in Running
        BY <1>8, <4>1, Zenon DEF LockInv, RecordOK, Blank, Running
      <4>3. s.locking
        BY <1>1, <1>8, <4>2, Zenon DEF OverlapInv
      <4>4. IdsOf(s) \subseteq 1 .. a /\ Apart(s, txn[v])
        BY <1>4, <1>8, <4>3, Zenon DEF FreshOK
      <4>5. Ids(new) \subseteq IdsOf(s)
        BY <4>1, Zenon DEF IdsOf
      <4>6. \A x \in new : held[x.name] = w
        BY <4>1, <4>3, Zenon DEF LockInv, HoldsOK
      <4> QED
        BY <4>4, <4>5, <4>6, Zenon DEF Apart
    <3>2. CASE ~Takes(w, s, t)
      BY <1>5, <3>2, Zenon DEF Ids
    <3> QED
      BY <3>1, <3>2, Zenon
  <2>2. Ids(new) \subseteq Nat
    BY <1>2, <2>1
  <2>3. FreshOK(v, txn[v], held', log \cup new, b)
    BY <1>2, <1>3, <1>4, <1>6, <1>8, <2>1, <2>2, <1>OthersFresh, Zenon
  <2> QED
    BY <1>5, <2>3, Zenon
<1>9. ASSUME NEW v \in Writers \ {w}, txn[v].locking, t.locking PROVE Apart(t, txn[v])
  <2>1. OwnIds(s, t, a) /\ IdsOf(txn[v]) \subseteq 1 .. a
    BY <1>4, <1>7, <1>9, Zenon DEF FreshOK
  <2>2. s.locking => IdsOf(s) \cap IdsOf(txn[v]) = {}
    BY <1>4, <1>9, Zenon DEF Apart
  <2>3. \A i \in IdsOf(txn[v]) : ~(i > a)
    BY <1>2, <2>1, <1>NoneAbove, Zenon
  <2> QED
    BY <2>1, <2>2, <2>3, Zenon DEF OwnIds, Apart
<1>10. ASSUME NEW v \in Writers, txn'[v].locking PROVE FreshOK(v, txn'[v], held', log', b)
  BY <1>7, <1>8, <1>10, Zenon
<1>11. ASSUME NEW v \in Writers, txn'[v].locking, NEW u \in Writers \ {v}, txn'[u].locking PROVE Apart(txn'[v], txn'[u])
  <2>1. CASE v = w
    BY <1>9, <1>11, <2>1, Zenon
  <2>2. CASE u = w
    BY <1>9, <1>11, <2>2, Zenon DEF Apart
  <2>3. CASE u # w /\ v # w
    BY <1>4, <1>11, <2>3, ZenonT(30)
  <2> QED
    BY <2>1, <2>2, <2>3, Zenon
<1> QED
  BY <1>10, <1>11, Zenon

-----------------------------------------------------------------------------
(* A lock row that a transaction found missing stays missing until the     *)
(* transaction creates it, and then it is its own.                         *)
GapOK(w, t, locks, rows) ==
    \A k \in t.gaps :
        /\ k \in Names
        /\ \/ locks[k] = w
           \/ t.pc = "lock" /\ t.wants # {} /\ k = Min(t.wants) /\ k \notin rows /\ locks[k] = NoWriter

GapInv == \A w \in Writers : GapOK(w, txn[w], held, lockRows)

(* No lock row lies between one and itself. *)
LEMMA NotBetween == \A x, y \in Nat : ~(x < y /\ y < x)
  OBVIOUS

(* Nobody else creates it: the gap is locked. *)
LEMMA GapStep ==
  ASSUME LockInv, GapInv, NEW w \in Writers, Described(w, txn[w], txn'[w]),
         \A v \in Writers \ {w} : txn'[v] = txn[v],
         \A v \in Writers \ {w}, n \in Names : held'[n] = v <=> held[n] = v
  PROVE  GapInv'
<1> DEFINE s == txn[w]
           t == txn'[w]
           Absent(k) == k \notin lockRows /\ held[k] = NoWriter
           Stays(k) == k \notin lockRows' /\ held'[k] = NoWriter
<1>1. /\ RecordOK(s, replica) /\ held \in [Names -> Writers \cup {NoWriter}] /\ NoWriter \notin Writers
      /\ GapOK(w, s, held, lockRows)
  BY BookmarkAssumption, Zenon DEF LockInv, GapInv
(* What the others found missing stays missing. *)
<1>2. ASSUME \A v \in Writers \ {w} : \A k \in txn[v].gaps \cap Names : Absent(k) => Stays(k),
             GapOK(w, t, held', lockRows')
      PROVE  GapInv'
  <2>1. ASSUME NEW v \in Writers PROVE GapOK(v, txn'[v], held', lockRows')
    <3>1. CASE v = w
      BY <1>2, <3>1, Zenon
    <3>2. CASE v # w
      <4>1. txn'[v] = txn[v] /\ GapOK(v, txn[v], held, lockRows)
        BY <3>2, Zenon DEF GapInv
      <4> QED
        BY <1>2, <3>2, <4>1, ZenonT(60) DEF GapOK
    <3> QED
      BY <3>1, <3>2, Zenon
  <2> QED
    BY <2>1, Zenon DEF GapInv
<1>3. CASE t.gaps = {} /\ (held' = held \/ held' = Released(w)) /\ lockRows' \subseteq lockRows \cup {n \in Names : held[n] = w}
  <2>1. ASSUME NEW k \in Names, Absent(k) PROVE Stays(k)
    <3>1. held'[k] = NoWriter
      BY <1>3, <2>1, Zenon DEF Released
    <3> QED
      BY <1>1, <1>3, <2>1, <3>1, Zenon
  <2> QED
    BY <1>2, <1>3, <2>1, Zenon DEF GapOK
<1>4. CASE Begins(w, s, t) \/ Ends(w, s, t) \/ Takes(w, s, t)
  <2>1. /\ t.gaps = {} /\ (held' = held \/ held' = Released(w))
        /\ SameTables \/ lockRows' = lockRows \cup {n \in Names : held[n] = w}
    BY <1>4, Zenon DEF Begins, Ends, Takes, Blank
  <2> QED
    BY <1>3, <2>1, Zenon DEF SameTables
<1>5. CASE StartsLocking(w, s, t) \/ StartsLegacy(w, s, t)
  <2>1. t.gaps = {} /\ held' = held /\ lockRows' = lockRows
    BY <1>5, Zenon DEF StartsLocking, StartsLegacy, SameTables
  <2> QED
    BY <1>3, <2>1, Zenon
<1>6. CASE AsksLock(w, s, t)
  <2>1. PICK n : n = Min(s.wants)
    BY Zenon
  <2>2. s.pc = "lock" /\ s.wants # {} /\ t.pc = "lock" /\ lockRows' = lockRows
    BY <1>6, Zenon DEF AsksLock, Within, SameTables
  <2>3. n \in Names /\ n \in Nat
    BY <1>1, <2>1, <2>2, MinOf, BookmarkAssumption, Zenon DEF RecordOK
  <2>4. CASE held' = held /\ t.wants = s.wants /\ t.gaps = s.gaps \cup {n} /\ ~LockRowExists(n)
    <3>1. Absent(n)
      BY <2>4, Zenon DEF LockRowExists
    <3>2. GapOK(w, t, held', lockRows')
      BY <1>1, <2>1, <2>2, <2>3, <2>4, <3>1, Zenon DEF GapOK
    <3> QED
      BY <1>2, <2>2, <2>4, <3>2, Zenon
  <2>5. CASE /\ held[n] = NoWriter /\ held' = [held EXCEPT ![n] = w] /\ t.gaps = s.gaps
             /\ n \in lockRows \/ WaitsForGaps(w, n) = {}
    <3>1. held'[n] = w /\ \A k \in Names \ {n} : held'[k] = held[k]
      BY <1>1, <2>3, <2>5, Zenon
    <3>2. GapOK(w, t, held', lockRows')
      BY <1>1, <2>1, <2>5, <3>1, Zenon DEF GapOK
    <3>3. ASSUME NEW v \in Writers \ {w}, NEW k \in txn[v].gaps \cap Names, Absent(k) PROVE Stays(k)
      <4>1. ASSUME k = n PROVE FALSE
        <5>1. SameGap(n, n)
          BY <2>3, BookmarkAssumption, NotBetween, Zenon DEF SameGap
        <5> QED
          BY <2>5, <3>3, <4>1, <5>1, Zenon DEF WaitsForGaps
      <4> QED
        BY <2>2, <3>1, <3>3, <4>1, Zenon
    <3> QED
      BY <1>2, <3>2, <3>3, Zenon
  <2> QED
    BY <1>6, <2>1, <2>4, <2>5, Zenon DEF AsksLock
<1>7. CASE \/ HasLocks(w, s, t) \/ CallerWrites(w, s, t) \/ (\E g : Seeds(w, s, t, g)) \/ Allocates(w, s, t)
           \/ FindsNext(w, s, t) \/ Writes(w, s, t) \/ Logs(w, s, t) \/ Mirrors(w, s, t)
  <2>1. (s.pc # "lock" \/ s.wants = {}) /\ t.gaps = s.gaps /\ held' = held /\ Within(s, t)
    BY <1>7, ZenonT(30) DEF HasLocks, CallerWrites, Seeds, Allocates, FindsNext, Writes, Logs, Mirrors
  <2>2. lockRows' = lockRows
    BY <2>1, Zenon DEF Within, SameTables
  <2>3. GapOK(w, t, held', lockRows')
    BY <1>1, <2>1, <2>2, Zenon DEF GapOK
  <2> QED
    BY <1>2, <2>1, <2>2, <2>3, Zenon
<1> QED
  BY <1>4, <1>5, <1>6, <1>7, Zenon DEF Described

-----------------------------------------------------------------------------
WriterInv == CallInv /\ LegacyInv /\ LockInv /\ OverlapInv /\ RowInv /\ SeqInv /\ FreshInv /\ GapInv

writerVars == <<bookmarks, log, seqMax, lockRows, autoInc, held, txn, replica, overlap>>

(* The knob and those who read leave the tables alone. *)
LEMMA WriterCases ==
  ASSUME [Next]_vars
  PROVE  UNCHANGED writerVars \/ \E w \in Writers : StoreStep(w)
  BY Zenon DEF Next, StoreNext, FlipKnob, Subscribe, Refresh, ReadNextEntries, vars, storeVars, tables, writerVars

(* A repository has a bookmark and a changeset. *)
LEMMA SomeMove == 1 \in DOMAIN Source /\ Source[1] \in Moves /\ Source[1].name \in Names /\ Source[1].new \in Changesets
<1>1. 1 \in DOMAIN Source /\ Source[1] \in Moves
  BY SourceAssumption
<1> QED
  BY <1>1, Zenon DEF Moves

(* The first states. *)
LEMMA InitRecords ==
  ASSUME Init
  PROVE  LockInv /\ OverlapInv /\ FreshInv /\ GapInv /\ \A w \in Writers : txn[w] = Fresh
<1>1. held = [n \in Names |-> NoWriter] /\ txn = [w \in Writers |-> Fresh]
  BY Zenon DEF Init, StoreInit
<1>2. \A w \in Writers : txn[w] = Fresh
  BY <1>1, Zenon
<1>3. Blank(Fresh) /\ NoPayload(Fresh) /\ Fresh.pc = "idle"
  BY FreshBlank, Zenon
<1>4. Fresh.locking = FALSE /\ Fresh.wants = {} /\ NoWork(Fresh) /\ Fresh.ops = <<>> /\ Fresh.moves = {} /\ Fresh.locked = FALSE
  BY <1>3, Zenon DEF Blank, NoPayload
<1>5. BookmarkNames(Fresh) = {}
  BY <1>4 DEF BookmarkNames
<1>6. RecordOK(Fresh, replica)
  BY <1>3, <1>4, <1>5, EmptyIsSeq, Zenon DEF RecordOK, NoWork
<1>7. ASSUME NEW w \in Writers PROVE HoldsOK(w, Fresh, held)
  <2>1. \A n \in Names : held[n] # w
    BY <1>1, BookmarkAssumption, Zenon
  <2> QED
    BY <1>3, <2>1, BlankHolds, Zenon
<1>8. held \in [Names -> Writers \cup {NoWriter}]
  BY <1>1, Zenon
<1>9. LockInv
  BY <1>2, <1>6, <1>7, <1>8, Zenon DEF LockInv
<1>10. \A w \in Writers : txn[w].pc \notin Running /\ ~txn[w].locking
  BY <1>2, <1>3, <1>4, Zenon DEF Running
<1>11. OverlapInv /\ FreshInv
  BY <1>10, Zenon DEF OverlapInv, FreshInv
<1>12. GapInv
  BY <1>2, <1>3, Zenon DEF GapInv, GapOK, Blank
<1> QED
  BY <1>2, <1>9, <1>11, <1>12, Zenon

(* Together: *)
LEMMA InitWriters == Init => WriterInv
(* ... and their tables. *)
<1>InitTables. ASSUME Init
               PROVE  RowInv /\ SeqInv
  <2> USE <1>InitTables
  <2> DEFINE first == Min(Names)
             c == CHOOSE x \in Changesets : TRUE
  <2>1. \A w \in Writers : txn[w] = Fresh
    BY InitRecords, Zenon
  <2>2. NoWork(Fresh) /\ Fresh.ops = <<>>
    BY FreshBlank, Zenon DEF Blank, NoPayload
  <2>3. ASSUME NEW ids PROVE RowOK(Fresh, ids)
    <3>1. <<>> \in Seq(Operations)
      OBVIOUS
    <3> QED
      BY <2>2, <3>1, NoWorkRows, Zenon
  <2>4. first \in Names /\ c \in Changesets
    BY SomeMove, MinOf, BookmarkAssumption, ZenonT(30)
  <2>5. ASSUME ~replica
        PROVE  /\ log = {[id |-> 1, name |-> first, old |-> NoCs, new |-> c]}
               /\ bookmarks = [n \in Names |-> IF n = first THEN [cs |-> c, log_id |-> 1] ELSE NoRow]
               /\ seqMax \in {0, 1} /\ autoInc = seqMax
    BY <2>5, Zenon DEF Init, StoreInit
  <2> HIDE DEF first, c
  <2>6. RowInv
    <3> SUFFICES ASSUME ~replica
                 PROVE  /\ bookmarks \in [Names -> Rows]
                        /\ \A n \in Names : bookmarks[n].log_id \in {0} \cup Ids(log)
                        /\ \A e \in log : e.name \in Names
      BY <2>1, <2>3, Zenon DEF RowInv
    <3>1. 1 \in Ids(log) /\ \A e \in log : e.name \in Names
      <4>1. PICK e : e = [id |-> 1, name |-> first, old |-> NoCs, new |-> c]
        BY Zenon
      <4>2. e.id = 1 /\ e.name = first /\ log = {e}
        BY <2>5, <4>1, Zenon
      <4> QED
        BY <2>4, <4>2, Zenon DEF Ids
    <3>2. [cs |-> c, log_id |-> 1] \in Rows /\ NoRow \in Rows /\ NoRow.log_id = 0
      BY <2>4, Zenon DEF Rows, NoRow
    <3>3. bookmarks \in [Names -> Rows]
      BY <2>5, <3>2, Zenon
    <3>4. \A n \in Names : bookmarks[n].log_id \in {0, 1}
      BY <2>5, <3>2
    <3> QED
      BY <3>1, <3>3, <3>4, Zenon
  <2>7. SeqInv
    BY <2>1, <2>2, <2>5 DEF SeqInv, SeqOK, NoWork
  <2> QED
    BY <2>6, <2>7, Zenon
<1> QED
  BY InitLegacy, InitRecords, <1>InitTables, Zenon DEF WriterInv

(* ... and so does every step. *)
LEMMA NextWriters ==
  ASSUME WriterInv, [Next]_vars
  PROVE  WriterInv'
(* Every step of a writer keeps all of it. *)
<1>WriterStep. ASSUME NEW w \in Writers, StoreStep(w)
               PROVE  WriterInv'
  <2> USE <1>WriterStep
  <2>0. CallInv /\ LegacyInv /\ LockInv /\ OverlapInv /\ RowInv /\ SeqInv /\ FreshInv /\ GapInv
    BY Zenon DEF WriterInv
  <2>1. CallInv' /\ LegacyInv'
    BY <2>0, StepCall, StepLegacy, Zenon
  <2>2. /\ LockInv' /\ replica' = replica /\ Described(w, txn[w], txn'[w])
        /\ \A v \in Writers \ {w} : txn'[v] = txn[v]
        /\ \A v \in Writers \ {w}, n \in Names : held'[n] = v <=> held[n] = v
    BY <2>0, LockStep, Zenon
  <2>3. OverlapInv' /\ GapInv'
    BY <2>0, <2>2, OverlapStep, GapStep, Zenon
  <2>4. CASE replica
    BY <2>1, <2>2, <2>3, <2>4, ZenonT(30) DEF WriterInv, RowInv, SeqInv, FreshInv
  <2>5. CASE ~replica
    <3>1. RowInv'
      BY <2>0, <2>2, <2>5, RowStep, Zenon
    <3>2. SeqInv'
      BY <2>0, <2>2, <2>5, SeqStep, Zenon
    <3>3. FreshInv'
      BY <2>0, <2>2, <2>5, <3>1, FreshStep, Zenon
    <3> QED
      BY <2>1, <2>2, <2>3, <3>1, <3>2, <3>3, Zenon DEF WriterInv
  <2> QED
    BY <2>4, <2>5, Zenon
<1>1. CASE \E w \in Writers : StoreStep(w)
  BY <1>1, <1>WriterStep, Zenon
<1>2. CASE UNCHANGED writerVars
  <2>1. CallInv' /\ LegacyInv'
    BY NextLegacy, Zenon DEF WriterInv
  <2>2. LockInv' /\ OverlapInv'
    BY <1>2, ZenonT(60) DEF WriterInv, writerVars, LockInv, OverlapInv
  <2>3. RowInv' /\ SeqInv'
    BY <1>2, Zenon DEF WriterInv, writerVars, RowInv, RowOK, Ids, SeqInv, SeqOK
  <2>4. FreshInv'
    BY <1>2, ZenonT(60) DEF WriterInv, writerVars, FreshInv
  <2>5. GapInv'
    BY <1>2, Zenon DEF WriterInv, writerVars, GapInv
  <2> QED
    BY <2>1, <2>2, <2>3, <2>4, <2>5, Zenon DEF WriterInv
<1> QED
  BY <1>1, <1>2, WriterCases, Zenon

(* The invariant of the writers holds throughout. *)
LEMMA WritersInvariant == Spec => []WriterInv
<1>1. WriterInv /\ [Next]_vars => WriterInv'
  BY NextWriters, Zenon
<1> QED
  BY InitWriters, <1>1, PTL DEF Spec

(* allocate_log_ids_from_sequence: an id that a transaction of the new     *)
(* path has allocated and not yet used is not in bookmarks_update_log,     *)
(* whatever was written on either path before, as long as no attempts of   *)
(* the two kinds were in flight together.                                  *)
THEOREM AllocatedIdsFree == Spec => []AllocatedIdsAreFree
<1>1. WriterInv => AllocatedIdsAreFree
  <2> SUFFICES ASSUME WriterInv, NEW w \in Writers, txn[w].locking, ~replica, ~overlap
               PROVE  {txn[w].ids[i] : i \in DOMAIN txn[w].ids} \cap Ids(log) = {}
    BY Zenon DEF AllocatedIdsAreFree
  <2>1. IdsOf(txn[w]) \cap Ids(log) = {}
    BY Zenon DEF WriterInv, FreshInv, FreshOK
  <2> QED
    BY <2>1, Zenon DEF IdsOf, Allocated
<1> QED
  BY <1>1, WritersInvariant, PTL

(* acquire_bookmark_locks: "Locks are acquired in sorted order to prevent  *)
(* deadlocks".  For any number of writers and bookmarks, transactions of   *)
(* the new path wait in a circle, of any length, for lock rows or for what *)
(* they write afterwards, only when two of them create lock rows in one    *)
(* gap: otherwise all in it would wait for lock rows, and nobody for the   *)
(* one that waits for the first of these rows.                             *)
THEOREM LocksNeverDeadlocked == Spec => []LocksNeverDeadlock
(* A transaction of the new path that has its locks waits for no other:    *)
(* its rows and its ids are its own.                                       *)
<1>WriterWaitsForNone. ASSUME WriterInv, ~replica, ~overlap, NEW w \in Writers, NEW v \in Writers,
                              txn[w].locking, txn[v].locking, txn[w].pc = "write"
                       PROVE  v \notin WaitsFor(w)
  <2> USE <1>WriterWaitsForNone
  <2> DEFINE s == txn[w]
             t == txn[v]
             L == Ids(log)
  <2>1. /\ RecordOK(s, replica) /\ HoldsOK(w, s, held) /\ HoldsOK(v, t, held)
        /\ RowOK(s, L) /\ RowOK(t, L) /\ ShapeOK(s, autoInc)
    BY ZenonT(30) DEF WriterInv, LockInv, RowInv, LegacyInv
  <2>2. FreshOK(w, s, held, log, autoInc) /\ FreshOK(v, t, held, log, autoInc)
    BY Zenon DEF WriterInv, FreshInv
  <2>3. v # w => IdsOf(s) \cap IdsOf(t) = {}
    BY Zenon DEF WriterInv, FreshInv, Apart
  <2>4. IdsOf(s) \subseteq 1 .. autoInc /\ IdsOf(s) \cap L = {}
    BY <2>2, Zenon DEF FreshOK
  <2>5. CASE s.todo # <<>>
    <3> DEFINE n == s.todo[1].name
               id == s.ids[1]
               V == View(w)
    <3>1. WaitsFor(w) = WaitsForRows(w, n, id)
      BY <2>5, Zenon DEF WaitsFor, Creating
    <3>2. 1 \in DOMAIN s.todo /\ 1 \in DOMAIN s.ids
      <4>1. s.todo \in Seq(Operations) /\ s.ids \in Seq(Nat) /\ Len(s.todo) = Len(s.ids)
        BY <2>1, Zenon DEF RowOK, ShapeOK
      <4>2. s.ids # <<>>
        BY <2>5, <4>1, SameLength, Zenon
      <4>3. 1 \in DOMAIN s.todo
        BY <2>5, <4>1, SeqHead, Zenon
      <4>4. 1 \in DOMAIN s.ids
        BY <4>1, <4>2, SeqHead, Zenon
      <4> QED
        BY <4>3, <4>4, Zenon
    <3>3. held[n] = w
      BY <2>1, <3>2, Zenon DEF HoldsOK
    <3>4. id \in Allocated(s) /\ id \in IdsOf(s)
      BY <3>2, Zenon DEF IdsOf, Allocated
    <3>5. id # 0 /\ id \notin L /\ id \notin Ids(s.entries)
      <4>1. \A e \in Ids(s.entries) : e < id
        BY <2>2, <3>2, Zenon DEF FreshOK
      <4>2. id \in 1 .. autoInc /\ autoInc \in Nat
        BY <2>4, <3>4, Zenon DEF WriterInv, LegacyInv
      <4> HIDE DEF id
      <4>3. ~(id < id) /\ id # 0
        BY <4>2
      <4> QED
        BY <2>4, <3>4, <4>1, <4>3, Zenon
    <3>6. \A m \in Names : V[m].log_id \in {0} \cup L \cup Ids(s.entries)
      BY ViewRows, Zenon DEF WriterInv
    <3> HIDE DEF n, id, V
    <3>7. Clash(V, n, id) = {}
      BY <3>5, <3>6, Zenon DEF Clash
    <3>8. SUFFICES ASSUME v # w, ((Clash(V, n, id) \cup {n}) \cap DOMAIN t.pend # {}) \/ \E m \in DOMAIN t.pend : t.pend[m].log_id = id
                   PROVE  FALSE
      BY <3>1, Zenon DEF WaitsForRows, Touched, V
    <3>9. n \notin DOMAIN t.pend
      BY <2>2, <3>3, <3>8, Zenon DEF FreshOK
    <3>10. PICK m \in DOMAIN t.pend : t.pend[m].log_id = id
      BY <3>7, <3>8, <3>9, Zenon
    <3>11. t.pend[m].log_id \in {0} \cup L \cup Ids(t.entries)
      BY <2>1, Zenon DEF RowOK
    <3>12. id \in IdsOf(t)
      BY <3>5, <3>10, <3>11, Zenon DEF IdsOf
    <3> QED
      BY <2>3, <3>4, <3>8, <3>12, Zenon
  <2>6. CASE s.todo = <<>>
    <3>1. WaitsFor(w) = WaitsForLog(w, s.entries)
      BY <2>6, Zenon DEF WaitsFor, Creating
    <3>2. SUFFICES ASSUME v # w, Ids(s.entries) \cap Ids(Inserted(v)) # {} PROVE FALSE
      BY <3>1, Zenon DEF WaitsForLog
    <3>3. Ids(Inserted(v)) \subseteq Ids(t.entries)
      BY Zenon DEF Inserted, Ids
    <3> QED
      BY <2>3, <3>2, <3>3, Zenon DEF IdsOf
  <2> QED
    BY <2>5, <2>6, Zenon
(* Who waits for one that waits in its turn, waits for a lock row. *)
<1>WaitsForLock. ASSUME WriterInv, ~overlap, NEW w \in Writers, NEW v \in Writers, NEW u \in Writers,
                        txn[w].locking, txn[v].locking, txn[u].locking, v \in WaitsFor(w), u \in WaitsFor(v)
                 PROVE  /\ txn[w].pc = "lock" /\ txn[w].wants # {}
                        /\ \/ held[Min(txn[w].wants)] = v
                           \/ Creating(w) /\ v \in WaitsForGaps(w, Min(txn[w].wants))
  <2> USE <1>WaitsForLock
  <2>1. RecordOK(txn[w], replica) /\ RecordOK(txn[v], replica)
    BY Zenon DEF WriterInv, LockInv
  <2>2. txn[w].pc # "write" /\ txn[v].pc # "write"
    <3>1. CASE replica
      BY <2>1, <3>1, Zenon DEF RecordOK
    <3>2. CASE ~replica
      BY <3>2, <1>WriterWaitsForNone, Zenon
    <3> QED
      BY <3>1, <3>2, Zenon
  <2>3. ASSUME txn[w].pc = "mirror" PROVE txn[v].pend # <<>>
    <3>1. WaitsFor(w) = WaitsForRows(w, Source[Max(txn[w].moves)].name, 0)
      BY <2>3, Zenon DEF WaitsFor, Creating
    <3>2. DOMAIN txn[v].pend # {}
      BY <2>3, <3>1, Zenon DEF WaitsForRows, Touched
    <3> QED
      BY <3>2
  <2>4. ASSUME NEW x \in Writers, txn[x].pc \notin {"lock", "write", "mirror"} PROVE WaitsFor(x) = {}
    BY <2>4, Zenon DEF WaitsFor, Creating
  <2>5. txn[w].pc \in {"lock", "mirror"} /\ txn[v].pc \in {"lock", "mirror"}
    BY <2>2, <2>4, Zenon
  <2>6. txn[w].pend = <<>> /\ txn[v].pend = <<>>
    BY <2>1, <2>5, Zenon DEF RecordOK
  <2>7. txn[w].pc = "lock"
    BY <2>3, <2>5, <2>6, Zenon
  <2>8. txn[w].wants # {}
    BY <2>7, Zenon DEF WaitsFor, Creating
  <2>9. CASE Creating(w)
    BY <2>7, <2>8, <2>9, Zenon DEF WaitsFor
  <2>10. CASE ~Creating(w)
    <3>1. WaitsFor(w) = {held[Min(txn[w].wants)]} \ {NoWriter}
      BY <2>7, <2>8, <2>10, Zenon DEF WaitsFor
    <3> QED
      BY <2>7, <2>8, <3>1, Zenon
  <2> QED
    BY <2>9, <2>10, Zenon
<1>1. WriterInv => LocksNeverDeadlock
  <2> DEFINE row(w) == Min(txn[w].wants)
             Waits(w, v) == held[row(w)] = v \/ (Creating(w) /\ v \in WaitsForGaps(w, row(w)))
  <2> SUFFICES ASSUME WriterInv, ~overlap, NEW C \in SUBSET {w \in Writers : txn[w].locking}, Circular(C),
                      \A v, w \in C : v # w /\ Creating(v) /\ Creating(w) => ~SameGap(row(v), row(w))
               PROVE FALSE
    BY Zenon DEF LocksNeverDeadlock
  <2> DEFINE rows == {row(w) : w \in C}
  <2>1. \A w \in C : w \in Writers /\ txn[w].locking /\ HoldsOK(w, txn[w], held) /\ GapOK(w, txn[w], held, lockRows)
    BY Zenon DEF WriterInv, LockInv, GapInv
  <2>2. ASSUME NEW w \in C
        PROVE  txn[w].pc = "lock" /\ txn[w].wants # {} /\ \A v \in C : v \in WaitsFor(w) => Waits(w, v)
    <3>1. PICK x \in C : x \in WaitsFor(w)
      BY Zenon DEF Circular
    <3>2. PICK y \in C : y \in WaitsFor(x)
      BY Zenon DEF Circular
    <3>3. txn[w].pc = "lock" /\ txn[w].wants # {}
      BY <2>1, <3>1, <3>2, <1>WaitsForLock, Zenon
    <3>4. ASSUME NEW v \in C, v \in WaitsFor(w) PROVE Waits(w, v)
      <4>1. PICK u \in C : u \in WaitsFor(v)
        BY Zenon DEF Circular
      <4> QED
        BY <2>1, <3>4, <4>1, <1>WaitsForLock, Zenon
    <3> QED
      BY <3>3, <3>4, Zenon
  <2>3. ASSUME NEW w \in C PROVE row(w) \in txn[w].wants /\ row(w) \in Names /\ row(w) \in Nat
    <3>1. txn[w].wants \subseteq Names /\ Names \subseteq Nat
      BY <2>1, BookmarkAssumption, Zenon DEF WriterInv, LockInv, RecordOK
    <3> QED
      BY <2>2, <3>1, MinOf, Zenon
  <2>4. rows \subseteq Nat /\ rows # {}
    BY <2>3, Zenon DEF Circular
  <2>5. Min(rows) \in rows /\ \A y \in rows : Min(rows) <= y
    BY <2>4, MinOf, Zenon
  <2>6. ASSUME NEW v \in C, NEW k \in Names, held[k] = v PROVE k < row(v)
    <3>1. \A m \in txn[v].wants : k < m
      BY <2>1, <2>6, Zenon DEF HoldsOK
    <3> QED
      BY <2>3, <3>1, Zenon
  <2>creating. \A w \in C : Creating(w) <=> row(w) \in txn[w].gaps
    BY <2>2, Zenon DEF Creating
  <2>wide. \A v \in C : Creating(v) \/ LockRowExists(row(v))
    <3> SUFFICES ASSUME NEW v \in C, ~Creating(v) PROVE LockRowExists(row(v))
      BY Zenon
    <3>1. PICK x \in C : x \in WaitsFor(v)
      BY Zenon DEF Circular
    <3>2. held[row(v)] = x /\ x \in Writers
      BY <2>1, <2>2, <3>1, Zenon
    <3> QED
      BY <3>2, BookmarkAssumption, Zenon DEF LockRowExists
  <2>gap. ASSUME NEW v \in C, NEW k \in txn[v].gaps PROVE k \in Names /\ (held[k] = v \/ (k = row(v) /\ ~LockRowExists(k)))
    BY <2>1, Zenon DEF GapOK, LockRowExists
  <2> HIDE DEF row
  <2>7. PICK v \in C : \A w \in C : row(v) <= row(w)
    BY <2>5, Zenon
  <2>8. PICK w \in C : v \in WaitsFor(w)
    BY Zenon DEF Circular
  <2>9. held[row(w)] # v
    <3>1. held[row(w)] = v => row(w) < row(v)
      BY <2>3, <2>6, Zenon
    <3> QED
      BY <2>3, <2>7, <3>1
  <2>10. Creating(w) /\ v # w /\ \E k \in txn[v].gaps : SameGap(k, row(w))
    BY <2>2, <2>8, <2>9, Zenon DEF WaitsForGaps
  <2>11. PICK k \in txn[v].gaps : SameGap(k, row(w))
    BY <2>10, Zenon
  <2>12. k # row(v)
    BY <2>10, <2>11, <2>creating, Zenon
  <2>13. k \in Names /\ k < row(v) /\ row(v) <= row(w) /\ k \in Nat /\ row(v) \in Nat /\ row(w) \in Nat
    <3>1. k \in Names /\ held[k] = v
      BY <2>gap, <2>12, Zenon
    <3> QED
      BY <2>3, <2>6, <2>7, <3>1, BookmarkAssumption, Zenon
  <2>14. ~LockRowExists(row(w))
    <3>1. held[row(w)] = w => row(w) < row(w)
      BY <2>3, <2>6, Zenon
    <3>2. held[row(w)] # w
      BY <2>13, <3>1
    <3> QED
      BY <2>10, <2>creating, <2>gap, <3>2, Zenon
  <2>15. CASE Creating(v)
    <3>1. ASSUME NEW m \in Names, LockRowExists(m) PROVE ~(row(v) < m /\ m < row(w)) /\ ~(row(w) < m /\ m < row(v))
      <4>1. ~(k < m /\ m < row(w)) /\ m \in Nat
        BY <2>11, <3>1, BookmarkAssumption, Zenon DEF SameGap
      <4> QED
        BY <2>13, <4>1
    <3>2. SameGap(row(v), row(w))
      BY <3>1, Zenon DEF SameGap
    <3> QED
      BY <2>10, <2>15, <3>2, Zenon
  <2>16. CASE LockRowExists(row(v))
    <3>1. row(v) # row(w)
      BY <2>14, <2>16, Zenon
    <3>2. k < row(v) /\ row(v) < row(w)
      BY <2>13, <3>1
    <3> QED
      BY <2>3, <2>11, <2>16, <3>2, Zenon DEF SameGap
  <2> QED
    BY <2>15, <2>16, <2>wide, Zenon
<1> QED
  BY <1>1, WritersInvariant, PTL
=============================================================================
