------------------------ MODULE BookmarkOrderProofs -------------------------
(***************************************************************************)
(* For any writers, bookmarks and payloads: the order of the log.  A       *)
(* replica follows its source, and the rows of one bookmark are logged in  *)
(* the order of their ids.                                                 *)
(***************************************************************************)
EXTENDS BookmarkLockProofs

(* A replica: its row of n is that of a move of n, and its log holds the   *)
(* moves up to it.                                                         *)
RowOfMove(i) == [cs |-> Source[i].new, log_id |-> Source[i].log_id]

Carries(row, n) == row = NoRow \/ \E i \in MovesOf(n) : row = RowOfMove(i)

Stored(n, id) == {i \in MovesOf(n) : Source[i].log_id <= id}
Between(n, id, top) == {i \in MovesOf(n) : id < Source[i].log_id /\ Source[i].log_id <= top}

(* A batch leaves out no move that is not stored yet. *)
Gapless(moves, n, B) ==
    /\ moves # {} /\ moves \subseteq MovesOf(n)
    /\ \A i \in moves, k \in MovesOf(n) : k < i => k \in moves \/ Source[k].log_id <= B[n].log_id

Last(t) == Source[Max(t.moves)]

(* t is the record of a writer, B the rows of bookmarks. *)
FollowOK(t, B) ==
    /\ t.pc \notin {"idle", "done"} => \E n \in Names : Gapless(t.moves, n, B)
    /\ t.pc = "mirror" =>
         t.snap # <<>> /\ \A n \in Names : t.snap[1].bookmarks[n].log_id \in 0 .. B[n].log_id
    /\ t.pc = "commit" =>
         /\ B[Last(t).name].log_id < Last(t).log_id
         /\ t.entries = MirrorRows(Between(Last(t).name, B[Last(t).name].log_id, Last(t).log_id))
         /\ t.pend = [m \in {Last(t).name} |-> RowOfMove(Max(t.moves))]

FollowInv ==
    replica =>
        /\ DOMAIN bookmarks = Names
        /\ \A n \in Names : Carries(bookmarks[n], n) /\ RowsOf(n) = MirrorRows(Stored(n, bookmarks[n].log_id))
        /\ \A e \in log : e.name \in Names
        /\ \A w \in Writers : FollowOK(txn[w], bookmarks)
        /\ \A v, w \in Writers :
             v # w /\ txn[v].pc = "commit" /\ txn[w].pc = "commit" => Last(txn[v]).name # Last(txn[w]).name

-----------------------------------------------------------------------------
(* The moves of the source, in the order of their log ids. *)
LEMMA SourceMoves ==
  /\ DOMAIN Source = 1 .. Len(Source) /\ Len(Source) \in Nat
  /\ \A i \in DOMAIN Source :
       /\ Source[i] \in Moves /\ Source[i].name \in Names /\ Source[i].new \in Changesets
       /\ Source[i].log_id \in Nat /\ Source[i].log_id # 0
  /\ \A i, j \in DOMAIN Source : (i <= j <=> Source[i].log_id <= Source[j].log_id)
<1>1. DOMAIN Source = 1 .. Len(Source) /\ Len(Source) \in Nat /\ \A i \in DOMAIN Source : Source[i] \in Moves
  BY SourceAssumption
<1>2. \A m \in Moves : m.name \in Names /\ m.new \in Changesets /\ m.log_id \in Nat /\ m.log_id # 0
  BY Zenon DEF Moves
<1>3. \A i \in DOMAIN Source :
        Source[i].name \in Names /\ Source[i].new \in Changesets /\ Source[i].log_id \in Nat /\ Source[i].log_id # 0
  BY <1>1, <1>2, Zenon
<1>4. \A i, j \in DOMAIN Source : i < j => Source[i].log_id < Source[j].log_id
  BY SourceAssumption, Zenon
<1>5. ASSUME NEW i \in DOMAIN Source, NEW j \in DOMAIN Source PROVE i <= j <=> Source[i].log_id <= Source[j].log_id
  <2>1. i \in Nat /\ j \in Nat /\ Source[i].log_id \in Nat /\ Source[j].log_id \in Nat
    BY <1>1, <1>3
  <2>2. CASE i < j
    BY <1>4, <2>1, <2>2
  <2>3. CASE j < i
    BY <1>4, <2>1, <2>3
  <2>4. CASE i = j
    BY <2>1, <2>4
  <2> QED
    BY <2>1, <2>2, <2>3, <2>4
<1> QED
  BY <1>1, <1>3, <1>5, Zenon

(* The row a move leaves in the log. *)
LEMMA MoveRow ==
  ASSUME NEW i
  PROVE  /\ LogRowOfMove(Source[i]).id = Source[i].log_id /\ LogRowOfMove(Source[i]).name = Source[i].name
         /\ LogRowOfMove(Source[i]).new = Source[i].new
         /\ RowOfMove(i).log_id = Source[i].log_id /\ RowOfMove(i).cs = Source[i].new
  BY Zenon DEF LogRowOfMove, RowOfMove

(* A row that was read is absent or of a move. *)
LEMMA CarriedId ==
  ASSUME NEW row, NEW n, Carries(row, n)
  PROVE  row.log_id \in Nat /\ row \in Rows
<1>1. CASE row = NoRow
  BY <1>1, Zenon DEF NoRow, Rows
<1>2. CASE \E i \in MovesOf(n) : row = RowOfMove(i)
  <2>1. PICK i \in MovesOf(n) : row = RowOfMove(i)
    BY <1>2, Zenon
  <2>2. i \in DOMAIN Source
    BY Zenon DEF MovesOf
  <2>3. Source[i].log_id \in Nat /\ Source[i].new \in Changesets
    BY <2>2, SourceMoves, Zenon
  <2> QED
    BY <2>1, <2>3, Zenon DEF RowOfMove, Rows
<1> QED
  BY <1>1, <1>2, Zenon DEF Carries

(* A replica starts empty or with the first move. *)
LEMMA InitFollow == Init => FollowInv
<1> SUFFICES ASSUME Init, replica PROVE FollowInv
  BY Zenon DEF FollowInv
<1> DEFINE e == LogRowOfMove(Source[1])
<1>1. \A w \in Writers : txn[w].pc = "idle"
  BY InitRecords, FreshBlank, Zenon
<1>2. 1 \in DOMAIN Source /\ Source[1].name \in Names /\ Source[1].log_id \in Nat /\ Source[1].log_id # 0
      /\ \A i \in DOMAIN Source : Source[i].log_id \in Nat /\ Source[i].log_id # 0
  BY SomeMove, SourceMoves, Zenon
<1>3. NoRow.log_id = 0
  BY Zenon DEF NoRow
<1>4. CASE bookmarks = [n \in Names |-> NoRow] /\ log = {}
  <2>1. \A n \in Names : Carries(bookmarks[n], n)
    BY <1>4, Zenon DEF Carries
  <2>2. ASSUME NEW n \in Names PROVE RowsOf(n) = MirrorRows(Stored(n, bookmarks[n].log_id))
    <3>1. Stored(n, bookmarks[n].log_id) = {}
      BY <1>2, <1>3, <1>4 DEF Stored, MovesOf
    <3> QED
      BY <1>4, <3>1, Zenon DEF RowsOf, MirrorRows
  <2> QED
    BY <1>1, <1>4, <2>1, <2>2, Zenon DEF FollowInv, FollowOK
<1>5. CASE /\ bookmarks = [n \in Names |-> IF n = e.name THEN [cs |-> e.new, log_id |-> e.id] ELSE NoRow]
           /\ log = {e}
  <2>1. e.name = Source[1].name /\ [cs |-> e.new, log_id |-> e.id] = RowOfMove(1) /\ e.id = Source[1].log_id
    BY MoveRow, Zenon DEF RowOfMove
  <2>2. 1 \in MovesOf(Source[1].name)
    BY <1>2, Zenon DEF MovesOf
  <2>3. \A n \in Names : bookmarks[n] = IF n = Source[1].name THEN RowOfMove(1) ELSE NoRow
    BY <1>5, <2>1, Zenon
  <2>4. \A n \in Names : Carries(bookmarks[n], n)
    BY <2>2, <2>3, Zenon DEF Carries
  <2>5. ASSUME NEW n \in Names PROVE RowsOf(n) = MirrorRows(Stored(n, bookmarks[n].log_id))
    <3>1. CASE n = Source[1].name
      <4>1. bookmarks[n].log_id = Source[1].log_id
        BY <2>3, <3>1, MoveRow, Zenon
      <4>2. \A i \in DOMAIN Source : Source[i].log_id <= Source[1].log_id => i = 1
        BY <1>2, SourceMoves
      <4>3. Stored(n, bookmarks[n].log_id) = {1}
        BY <1>2, <2>2, <3>1, <4>1, <4>2 DEF Stored, MovesOf
      <4>4. RowsOf(n) = {e}
        BY <1>5, <2>1, <3>1, Zenon DEF RowsOf
      <4> QED
        BY <4>3, <4>4, Zenon DEF MirrorRows
    <3>2. CASE n # Source[1].name
      <4>1. Stored(n, bookmarks[n].log_id) = {}
        BY <1>2, <1>3, <2>3, <3>2 DEF Stored, MovesOf
      <4>2. RowsOf(n) = {}
        BY <1>5, <2>1, <3>2, Zenon DEF RowsOf
      <4> QED
        BY <4>1, <4>2, Zenon DEF MirrorRows
    <3> QED
      BY <3>1, <3>2, Zenon
  <2>6. \A x \in log : x.name \in Names
    BY <1>2, <1>5, <2>1, Zenon
  <2> QED
    BY <1>1, <1>5, <2>4, <2>5, <2>6, Zenon DEF FollowInv, FollowOK
<1> QED
  BY <1>4, <1>5, Zenon DEF Init, StoreInit

(* The tables are only written by writers. *)
LEMMA NextFollow ==
  ASSUME WriterInv, FollowInv, [Next]_vars
  PROVE  FollowInv' /\ (replica => \A e \in log' \ log, x \in log : e.name = x.name => x.id < e.id)
(* Every step of a replica follows the source. *)
<1>FollowStep. ASSUME LockInv, replica, replica' = replica, NEW w \in Writers, Described(w, txn[w], txn'[w]),
                      \A v \in Writers \ {w} : txn'[v] = txn[v]
               PROVE  FollowInv' /\ \A e \in log' \ log, x \in log : e.name = x.name => x.id < e.id
                      (* Some moves have a last one. *)
  <2> USE <1>FollowStep
  <2>MaxOfMoves. ASSUME NEW S, S \subseteq DOMAIN Source, S # {}
                 PROVE  Max(S) \in S /\ \A y \in S : y <= Max(S)
    <3> USE <2>MaxOfMoves
    <3> DEFINE n == Len(Source)
               T == {n - x : x \in S}
    <3>1. n \in Nat /\ \A x \in S : x \in 1 .. n
      BY SourceMoves, Zenon
    <3> HIDE DEF n
    <3>2. T \subseteq Nat /\ T # {}
      BY <3>1
    <3>3. PICK m : m \in T /\ \A y \in T : m <= y
      BY <3>2, MinOf, Zenon
    <3>4. PICK x \in S : m = n - x
      BY <3>3, Zenon
    <3>5. \A y \in S : x >= y
      <4> SUFFICES ASSUME NEW y \in S PROVE x >= y
        BY Zenon
      <4>1. n - y \in T
        BY Zenon
      <4>2. n - x <= n - y
        BY <3>3, <3>4, <4>1, Zenon
      <4> QED
        BY <3>1, <4>2
    <3>6. Max(S) \in S /\ \A y \in S : Max(S) >= y
      BY <3>5, Zenon DEF Max
    <3>7. Max(S) \in Nat /\ \A y \in S : y \in Nat
      BY <3>1, <3>6
    <3> QED
      BY <3>6, <3>7, Zenon
  (* modern_sync starts a batch at its checkpoint. *)
  <2>BatchesGapless. ASSUME NEW moves \in MirrorBatches
                     PROVE  \E n \in Names : Gapless(moves, n, bookmarks)
    <3> USE <2>BatchesGapless
    <3>1. PICK i \in Checkpoints : moves \in {Stretch(i, j) : j \in i .. Len(Source)}
      BY Zenon DEF MirrorBatches
    <3>2. PICK j \in i .. Len(Source) : moves = Stretch(i, j)
      BY <3>1, Zenon
    <3> DEFINE n == Source[i].name
    <3>3. i \in DOMAIN Source /\ \A k \in MovesOf(n) : k < i => Source[k].log_id <= bookmarks[n].log_id
      BY <3>1, Zenon DEF Checkpoints
    <3>4. n \in Names /\ i \in MovesOf(n) /\ i \in Nat /\ MovesOf(n) \subseteq Nat /\ j \in Nat /\ i <= j
      BY <3>2, <3>3, SourceMoves DEF MovesOf
    <3>5. moves = {k \in MovesOf(n) : i <= k /\ k <= j}
      BY <3>2, Zenon DEF Stretch
    <3> HIDE DEF n
    <3>6. i \in moves
      BY <3>4, <3>5
    <3>7. ASSUME NEW x \in moves, NEW k \in MovesOf(n), k < x PROVE k \in moves \/ Source[k].log_id <= bookmarks[n].log_id
      BY <3>3, <3>4, <3>5, <3>7
    <3>8. Gapless(moves, n, bookmarks)
      BY <3>5, <3>6, <3>7, Zenon DEF Gapless
    <3> QED
      BY <3>4, <3>8, Zenon
  (* The last move of a batch. *)
  <2>LastMove. ASSUME NEW t, NEW n \in Names, NEW B, Gapless(t.moves, n, B)
               PROVE  /\ Max(t.moves) \in t.moves /\ Max(t.moves) \in DOMAIN Source /\ Last(t).name = n
                      /\ \A i \in t.moves : i \in MovesOf(n) /\ Source[i].log_id <= Last(t).log_id
    <3> USE <2>LastMove
    <3>1. t.moves # {} /\ t.moves \subseteq MovesOf(n) /\ MovesOf(n) \subseteq DOMAIN Source
      BY Zenon DEF Gapless, MovesOf
    <3>2. Max(t.moves) \in t.moves /\ \A y \in t.moves : y <= Max(t.moves)
      BY <3>1, <2>MaxOfMoves, Zenon
    <3>3. Max(t.moves) \in DOMAIN Source /\ Source[Max(t.moves)].name = n
      BY <3>1, <3>2, Zenon DEF MovesOf
    <3>4. \A i \in t.moves : Source[i].log_id <= Source[Max(t.moves)].log_id
      BY <3>1, <3>2, <3>3, SourceMoves, Zenon
    <3> QED
      BY <3>1, <3>2, <3>3, <3>4, Zenon DEF Last
  (* store_mirror_batches writes what is missing up to the last move: if the *)
  (* snapshot was old, the log rows collide.                                 *)
  <2>MirrorsFollow. ASSUME NEW t, Mirrors(w, txn[w], t)
                    PROVE  /\ FollowOK(t, bookmarks)
                           /\ \A v \in Writers \ {w} : txn[v].pc = "commit" => Last(txn[v]).name # Last(t).name
    <3> USE <2>MirrorsFollow
    <3> DEFINE s == txn[w]
               n == Last(s).name
               top == Last(s).log_id
               b == bookmarks[n].log_id
               c == Snap(w).bookmarks[n].log_id
               left == Unapplied(s.moves, c)
    <3>1. /\ s.pc = "mirror" /\ left # {} /\ WaitsForRows(w, n, top) = {} /\ Ids(MirrorRows(left)) \cap Ids(log) = {}
          /\ Within(s, t) /\ t.pc = "commit" /\ t.entries = MirrorRows(left)
          /\ t.pend = [m \in {n} |-> [cs |-> Last(s).new, log_id |-> top]]
      BY Zenon DEF Mirrors, Last
    <3>2. FollowOK(s, bookmarks)
      BY Zenon DEF FollowInv
    <3>3. PICK name \in Names : Gapless(s.moves, name, bookmarks)
      BY <3>1, <3>2, Zenon DEF FollowOK
    <3>4. /\ n = name /\ Max(s.moves) \in s.moves /\ Max(s.moves) \in DOMAIN Source
          /\ \A i \in s.moves : i \in MovesOf(n) /\ Source[i].log_id <= top
      BY <3>3, <2>LastMove, Zenon
    <3>5. c \in 0 .. b
      BY <3>1, <3>2, <3>4, Zenon DEF FollowOK, Snap
    <3>6. b \in Nat /\ RowsOf(n) = MirrorRows(Stored(n, b))
      BY <3>4, CarriedId, Zenon DEF FollowInv
    <3>7. left = {i \in s.moves : Source[i].log_id > c}
      BY Zenon DEF Unapplied
    <3>8. top = Source[Max(s.moves)].log_id /\ top \in Nat
      BY <3>4, SourceMoves, Zenon DEF Last
    <3>9. t.moves = s.moves /\ Last(t) = Last(s)
      BY <3>1, Zenon DEF Within, SamePayload, Last
    <3>10. \A i \in MovesOf(n) : i \in DOMAIN Source /\ Source[i].log_id \in Nat /\ i \in Nat
      BY SourceMoves DEF MovesOf
    <3> HIDE DEF n, top, b, c, left
    <3>11. ASSUME NEW i \in left PROVE i \in Between(n, b, top)
      <4>1. i \in MovesOf(n) /\ Source[i].log_id <= top
        BY <3>4, <3>7, Zenon
      <4>2. ASSUME Source[i].log_id <= b PROVE FALSE
        <5>1. i \in Stored(n, b)
          BY <4>1, <4>2, Zenon DEF Stored
        <5>2. LogRowOfMove(Source[i]) \in RowsOf(n) /\ LogRowOfMove(Source[i]) \in MirrorRows(left)
          BY <3>6, <5>1, Zenon DEF MirrorRows
        <5>3. LogRowOfMove(Source[i]) \in log
          BY <5>2, Zenon DEF RowsOf
        <5> QED
          BY <3>1, <5>2, <5>3 DEF Ids
      <4> QED
        BY <3>6, <3>10, <4>1, <4>2 DEF Between
    <3>12. ASSUME NEW i \in Between(n, b, top) PROVE i \in left
      <4>1. i \in MovesOf(n) /\ b < Source[i].log_id /\ Source[i].log_id <= top
        BY Zenon DEF Between
      <4>2. i <= Max(s.moves) /\ Max(s.moves) \in Nat
        BY <3>4, <3>8, <3>10, <4>1, SourceMoves, Zenon
      <4>3. i \in s.moves \/ Source[i].log_id <= b
        <5>1. CASE i = Max(s.moves)
          BY <3>4, <5>1, Zenon
        <5>2. CASE i < Max(s.moves)
          BY <3>3, <3>4, <4>1, <5>2, Zenon DEF Gapless, b
        <5> QED
          BY <3>10, <4>1, <4>2, <5>1, <5>2
      <4> QED
        BY <3>5, <3>6, <3>7, <3>10, <4>1, <4>3
    <3>13. left = Between(n, b, top)
      BY <3>11, <3>12, Zenon
    <3>14. b < top
      <4>1. PICK i \in left : TRUE
        BY <3>1, Zenon
      <4> QED
        BY <3>6, <3>8, <3>10, <3>11, <4>1 DEF Between
    <3>15. t.pend = [m \in {n} |-> RowOfMove(Max(s.moves))]
      BY <3>1, <3>8, Zenon DEF RowOfMove, Last
    <3>16. FollowOK(t, bookmarks)
      <4>1. \E m \in Names : Gapless(t.moves, m, bookmarks)
        BY <3>3, <3>9, Zenon
      <4>2. Last(t).name = n /\ Last(t).log_id = top /\ bookmarks[n].log_id = b
        BY <3>9, Zenon DEF n, top, b
      <4> QED
        BY <3>1, <3>9, <3>13, <3>14, <3>15, <4>1, <4>2, Zenon DEF FollowOK
    <3>17. ASSUME NEW v \in Writers \ {w}, txn[v].pc = "commit" PROVE Last(txn[v]).name # n
      <4>1. DOMAIN txn[v].pend = {Last(txn[v]).name}
        BY <3>17, ZenonT(30) DEF FollowInv, FollowOK
      <4>2. n \notin DOMAIN txn[v].pend
        BY <3>1, Zenon DEF WaitsForRows, Touched
      <4> QED
        BY <4>1, <4>2, Zenon
    <3> QED
      BY <3>9, <3>16, <3>17, Zenon DEF n
  (* A commit carries the bookmark of its batch forward, and leaves the      *)
  (* other bookmarks and the batches of others alone.                        *)
  <2>TakesFollow. ASSUME Takes(w, txn[w], txn'[w])
                  PROVE  FollowInv' /\ \A e \in log' \ log, x \in log : e.name = x.name => x.id < e.id
    <3> USE <2>TakesFollow
    <3> DEFINE s == txn[w]
               n == Last(s).name
               top == Last(s).log_id
               b == bookmarks[n].log_id
               E == s.entries
               m == Max(s.moves)
    <3>1. s.pc = "commit" /\ txn'[w].pc = "done" /\ bookmarks' = View(w) /\ log' = log \cup E
      BY Zenon DEF Takes
    <3>2. /\ DOMAIN bookmarks = Names /\ \A k \in Names : Carries(bookmarks[k], k)
          /\ \A k \in Names : RowsOf(k) = MirrorRows(Stored(k, bookmarks[k].log_id))
          /\ \A e \in log : e.name \in Names
          /\ \A v \in Writers : FollowOK(txn[v], bookmarks)
          /\ \A v \in Writers \ {w} : txn[v].pc = "commit" => Last(txn[v]).name # n
      BY <3>1, Zenon DEF FollowInv
    <3>3. b < top /\ E = MirrorRows(Between(n, b, top)) /\ s.pend = [k \in {n} |-> RowOfMove(m)]
      BY <3>1, <3>2, Zenon DEF FollowOK
    <3>4. /\ n \in Names /\ m \in MovesOf(n) /\ m \in DOMAIN Source
      <4>1. PICK name \in Names : Gapless(s.moves, name, bookmarks)
        BY <3>1, <3>2, ZenonT(30) DEF FollowOK
      <4> QED
        BY <4>1, <2>LastMove, Zenon
    <3>5. Last(s) = Source[m] /\ RowOfMove(m).log_id = top /\ top \in Nat
      BY <3>4, SourceMoves, MoveRow, Zenon DEF Last
    <3>6. b \in Nat
      BY <3>2, <3>4, CarriedId, Zenon
    <3>7. bookmarks' = [k \in Names |-> IF k = n THEN RowOfMove(m) ELSE bookmarks[k]]
      <4>1. View(w) = [k \in Names |-> IF k \in DOMAIN s.pend THEN s.pend[k] ELSE bookmarks[k]]
        BY Zenon DEF View, Touched
      <4>2. DOMAIN s.pend = {n} /\ s.pend[n] = RowOfMove(m)
        BY <3>3, Zenon
      <4> HIDE DEF s, n, m
      <4> QED
        BY <3>1, <4>1, <4>2, Zenon
    <3> HIDE DEF n, top, b, E, m
    <3>8. bookmarks'[n] = RowOfMove(m) /\ \A k \in Names \ {n} : bookmarks'[k] = bookmarks[k]
      BY <3>4, <3>7, Zenon
    <3>9. \A k \in Names : bookmarks'[k].log_id \in Nat /\ bookmarks[k].log_id \in Nat /\ bookmarks[k].log_id <= bookmarks'[k].log_id
      BY <3>2, <3>3, <3>5, <3>6, <3>8, CarriedId DEF b
    <3>10. \A i \in MovesOf(n) : Source[i].log_id \in Nat /\ Source[i].name = n
      BY SourceMoves, Zenon DEF MovesOf
    <3>11. \A e \in E : e.name = n /\ b < e.id
      <4> SUFFICES ASSUME NEW e \in E PROVE e.name = n /\ b < e.id
        BY Zenon
      <4>1. PICK i \in Between(n, b, top) : e = LogRowOfMove(Source[i])
        BY <3>3, Zenon DEF MirrorRows
      <4> QED
        BY <3>10, <4>1, MoveRow, Zenon DEF Between
    <3>12. ASSUME NEW k \in Names PROVE RowsOf(k)' = MirrorRows(Stored(k, bookmarks'[k].log_id))
      <4>1. RowsOf(k)' = RowsOf(k) \cup {e \in E : e.name = k}
        BY <3>1, Zenon DEF RowsOf
      <4>2. CASE k # n
        BY <3>2, <3>8, <3>11, <4>1, <4>2, Zenon
      <4>3. CASE k = n
        <5>1. RowsOf(k)' = MirrorRows(Stored(n, b)) \cup MirrorRows(Between(n, b, top))
          BY <3>2, <3>3, <3>11, <4>1, <4>3, Zenon DEF b
        <5>2. Stored(n, b) \cup Between(n, b, top) = Stored(n, top)
          BY <3>3, <3>5, <3>6, <3>10 DEF Stored, Between
        <5>3. MirrorRows(Stored(n, b)) \cup MirrorRows(Between(n, b, top)) = MirrorRows(Stored(n, b) \cup Between(n, b, top))
          BY Zenon DEF MirrorRows
        <5> QED
          BY <3>5, <3>8, <4>3, <5>1, <5>2, <5>3, ZenonT(30)
      <4> QED
        BY <4>2, <4>3, Zenon
    <3>13. ASSUME NEW k \in Names PROVE Carries(bookmarks'[k], k)
      BY <3>2, <3>4, <3>8, Zenon DEF Carries
    <3>14. \A e \in log' : e.name \in Names
      BY <3>1, <3>2, <3>4, <3>11, Zenon
    <3>15. ASSUME NEW v \in Writers PROVE FollowOK(txn'[v], bookmarks')
      <4>1. CASE v = w
        BY <3>1, <4>1, Zenon DEF FollowOK
      <4>2. CASE v # w
        <5> DEFINE u == txn[v]
        <5>1. txn'[v] = u /\ FollowOK(u, bookmarks)
          BY <3>2, <4>2, Zenon
        <5>2. u.pc \notin {"idle", "done"} => \E k \in Names : Gapless(u.moves, k, bookmarks')
          <6> SUFFICES ASSUME u.pc \notin {"idle", "done"} PROVE \E k \in Names : Gapless(u.moves, k, bookmarks')
            BY Zenon
          <6>1. PICK k \in Names : Gapless(u.moves, k, bookmarks)
            BY <5>1, Zenon DEF FollowOK
          <6>2. \A i \in MovesOf(k) : Source[i].log_id \in Nat
            BY SourceMoves, Zenon DEF MovesOf
          <6>3. \A i \in MovesOf(k) : Source[i].log_id <= bookmarks[k].log_id => Source[i].log_id <= bookmarks'[k].log_id
            BY <3>9, <6>2
          <6> QED
            BY <6>1, <6>3, Zenon DEF Gapless
        <5>3. u.pc = "mirror" => u.snap # <<>> /\ \A k \in Names : u.snap[1].bookmarks[k].log_id \in 0 .. bookmarks'[k].log_id
          <6> SUFFICES ASSUME u.pc = "mirror"
                       PROVE  u.snap # <<>> /\ \A k \in Names : u.snap[1].bookmarks[k].log_id \in 0 .. bookmarks'[k].log_id
            BY Zenon
          <6>1. u.snap # <<>> /\ \A k \in Names : u.snap[1].bookmarks[k].log_id \in 0 .. bookmarks[k].log_id
            BY ONLY <5>1, u.pc = "mirror", Zenon DEF FollowOK
          <6>2. \A x, y, z : x \in 0 .. y /\ y \in Nat /\ z \in Nat /\ y <= z => x \in 0 .. z
            BY ONLY SMT
          <6> QED
            BY ONLY <3>9, <6>1, <6>2, Zenon
        <5>4. u.pc = "commit" => Last(u).name \in Names \ {n}
          <6> SUFFICES ASSUME u.pc = "commit" PROVE Last(u).name \in Names \ {n}
            BY Zenon
          <6>1. PICK k \in Names : Gapless(u.moves, k, bookmarks)
            BY <5>1, Zenon DEF FollowOK
          <6>2. Last(u).name = k
            BY <6>1, <2>LastMove, Zenon
          <6> QED
            BY <3>2, <4>2, <6>2, Zenon
        <5>5. u.pc = "commit" => bookmarks'[Last(u).name] = bookmarks[Last(u).name]
          BY <3>8, <5>4, Zenon
        <5> HIDE DEF u
        <5>6. FollowOK(u, bookmarks')
          BY <5>1, <5>2, <5>3, <5>5, ZenonT(30) DEF FollowOK
        <5> QED
          BY <5>1, <5>6, Zenon
      <4> QED
        BY <4>1, <4>2, Zenon
    <3>16. ASSUME NEW u \in Writers, NEW v \in Writers, u # v, txn'[u].pc = "commit", txn'[v].pc = "commit"
           PROVE  Last(txn'[u]).name # Last(txn'[v]).name
      BY <3>1, <3>16, Zenon DEF FollowInv
    <3>17. FollowInv'
      <4>1. (\A v \in Writers : FollowOK(txn[v], bookmarks))'
        BY <3>15, Zenon
      <4>2. (\A k \in Names : Carries(bookmarks[k], k) /\ RowsOf(k) = MirrorRows(Stored(k, bookmarks[k].log_id)))'
        BY <3>12, <3>13, Zenon
      <4>3. (\A u, v \in Writers : u # v /\ txn[u].pc = "commit" /\ txn[v].pc = "commit" => Last(txn[u]).name # Last(txn[v]).name)'
        BY <3>16, ZenonT(30) DEF Last
      <4> QED
        BY <3>7, <3>14, <4>1, <4>2, <4>3, Zenon DEF FollowInv
    <3>18. ASSUME NEW e \in log' \ log, NEW x \in log, e.name = x.name PROVE x.id < e.id
      <4>1. e.name = n /\ b < e.id /\ e \in E
        BY <3>1, <3>11, Zenon
      <4>2. x \in RowsOf(n)
        BY <3>18, <4>1, Zenon DEF RowsOf
      <4>3. PICK i \in Stored(n, b) : x = LogRowOfMove(Source[i])
        BY <3>2, <3>4, <4>2 DEF MirrorRows, b
      <4>4. x.id <= b /\ x.id \in Nat
        BY <3>10, <4>3, MoveRow, Zenon DEF Stored
      <4>5. e.id \in Nat
        <5>1. PICK j \in Between(n, b, top) : e = LogRowOfMove(Source[j])
          BY <3>3, <4>1, Zenon DEF MirrorRows
        <5> QED
          BY <3>10, <5>1, MoveRow, Zenon DEF Between
      <4> QED
        BY <3>6, <4>1, <4>4, <4>5
    <3> QED
      BY <3>17, <3>18, Zenon
  (* The record of w on a replica after a step that is not a commit. *)
  <2>FollowRecord. ASSUME NEW t, Described(w, txn[w], t), ~Takes(w, txn[w], t)
                   PROVE  /\ FollowOK(t, bookmarks) /\ SameTables
                          /\ t.pc = "commit" => \A v \in Writers \ {w} : txn[v].pc = "commit" => Last(txn[v]).name # Last(t).name
    <3> USE <2>FollowRecord
    <3> DEFINE s == txn[w]
    <3>1. RecordOK(s, replica) /\ FollowOK(s, bookmarks)
      BY Zenon DEF LockInv, FollowInv
    <3>2. Snapshot # <<>> /\ \A n \in Names : Snapshot[1].bookmarks[n].log_id \in 0 .. bookmarks[n].log_id
      <4>1. Snapshot # <<>> /\ Snapshot[1].bookmarks = bookmarks
        BY Zenon DEF Snapshot
      <4>2. \A n \in Names : bookmarks[n].log_id \in Nat
        BY CarriedId, Zenon DEF FollowInv
      <4> QED
        BY <4>1, <4>2
    <3>3. CASE Begins(w, s, t) \/ Ends(w, s, t)
      <4>1. t.pc \notin {"mirror", "commit"} /\ SameTables
        BY <3>3, Zenon DEF Begins, Ends
      <4>2. t.pc \notin {"idle", "done"} => \E n \in Names : Gapless(t.moves, n, bookmarks)
        BY <3>1, <3>3, <2>BatchesGapless, Zenon DEF Begins, Ends, FollowOK, SamePayload
      <4> QED
        BY <4>1, <4>2, ZenonT(30) DEF FollowOK
    <3>4. CASE StartsLocking(w, s, t) \/ StartsLegacy(w, s, t) \/ AsksLock(w, s, t)
      <4>1. t.moves = s.moves /\ s.pc \in {"start", "lock"} /\ t.pc \in {"lock", "max"} /\ SameTables
        BY <3>4, Zenon DEF StartsLocking, StartsLegacy, AsksLock, Within, SamePayload
      <4> QED
        BY <3>1, <4>1, ZenonT(30) DEF FollowOK
    <3>5. CASE HasLocks(w, s, t) \/ FindsNext(w, s, t)
      <4>1. t.moves = s.moves /\ s.pc \in {"lock", "max"} /\ t.pc = "mirror" /\ t.snap = Snapshot /\ SameTables
        BY <3>1, <3>5, Zenon DEF HasLocks, FindsNext, Within, SamePayload, RecordOK
      <4> QED
        BY <3>1, <3>2, <4>1, Zenon DEF FollowOK
    <3>6. CASE Mirrors(w, s, t)
      BY <3>6, <2>MirrorsFollow, Zenon DEF Mirrors, Within
    <3>7. CASE CallerWrites(w, s, t) \/ (\E g : Seeds(w, s, t, g)) \/ Allocates(w, s, t) \/ Writes(w, s, t) \/ Logs(w, s, t)
      <4>1. s.pc \in {"held", "seed", "alloc", "write"}
        BY <3>7, ZenonT(30) DEF CallerWrites, Seeds, Allocates, Writes, Logs
      <4> QED
        BY <3>1, <4>1, Zenon DEF RecordOK
    <3> QED
      BY <3>3, <3>4, <3>5, <3>6, <3>7, Zenon DEF Described
  <2>1. CASE Takes(w, txn[w], txn'[w])
    BY <2>1, <2>TakesFollow, Zenon
  <2>2. CASE ~Takes(w, txn[w], txn'[w])
    <3>1. /\ FollowOK(txn'[w], bookmarks) /\ bookmarks' = bookmarks /\ log' = log
          /\ txn'[w].pc = "commit" => \A v \in Writers \ {w} : txn[v].pc = "commit" => Last(txn[v]).name # Last(txn'[w]).name
      BY <2>2, <2>FollowRecord, Zenon DEF SameTables
    <3>2. \A v \in Writers : FollowOK(txn'[v], bookmarks')
      BY <3>1, Zenon DEF FollowInv
    <3>3. \A u, v \in Writers : u # v /\ txn'[u].pc = "commit" /\ txn'[v].pc = "commit" => Last(txn'[u]).name # Last(txn'[v]).name
      <4> SUFFICES ASSUME NEW u \in Writers, NEW v \in Writers, u # v, txn'[u].pc = "commit", txn'[v].pc = "commit"
                   PROVE  Last(txn'[u]).name # Last(txn'[v]).name
        BY Zenon
      <4>1. CASE u = w
        BY <3>1, <4>1, Zenon
      <4>2. CASE v = w
        BY <3>1, <4>2, Zenon
      <4>3. CASE u # w /\ v # w
        BY <4>3, Zenon DEF FollowInv
      <4> QED
        BY <4>1, <4>2, <4>3, Zenon
    <3>4. (\A v \in Writers : FollowOK(txn[v], bookmarks))'
      BY <3>2, Zenon
    <3>5. (\A u, v \in Writers : u # v /\ txn[u].pc = "commit" /\ txn[v].pc = "commit" => Last(txn[u]).name # Last(txn[v]).name)'
      BY <3>3, Zenon DEF Last
    <3>6. ASSUME NEW n \in Names PROVE RowsOf(n)' = RowsOf(n)
      BY <3>1, Zenon DEF RowsOf
    <3>7. (\A n \in Names : Carries(bookmarks[n], n) /\ RowsOf(n) = MirrorRows(Stored(n, bookmarks[n].log_id)))'
      BY <3>1, <3>6, Zenon DEF FollowInv
    <3> QED
      BY <3>1, <3>4, <3>5, <3>7, Zenon DEF FollowInv
  <2> QED
    BY <2>1, <2>2, Zenon
<1>1. CASE UNCHANGED writerVars
  <2>1. FollowInv'
    BY <1>1, ZenonT(30) DEF FollowInv, FollowOK, writerVars, Last, RowsOf, Gapless
  <2> QED
    BY <1>1, <2>1, Zenon DEF writerVars
<1>2. CASE \E w \in Writers : StoreStep(w)
  <2>1. PICK w \in Writers : StoreStep(w)
    BY <1>2, Zenon
  <2>2. replica' = replica /\ Described(w, txn[w], txn'[w]) /\ \A v \in Writers \ {w} : txn'[v] = txn[v]
    BY <2>1, LockStep, Zenon DEF WriterInv
  <2>3. CASE replica
    BY <2>2, <2>3, <1>FollowStep, Zenon DEF WriterInv
  <2>4. CASE ~replica
    BY <2>2, <2>4, Zenon DEF FollowInv
  <2> QED
    BY <2>3, <2>4, Zenon
<1> QED
  BY <1>1, <1>2, WriterCases, Zenon

(* store_mirror_batches: however batches are regrouped, replayed or raced, *)
(* by however many senders and with whatever failures, the log of a        *)
(* replica is the source's up to the id its bookmark carries.              *)
THEOREM ReplicasFollow == Spec => []ReplicaFollowsSource
<1>1. Init => WriterInv /\ FollowInv
  BY InitWriters, InitFollow, Zenon
<1>2. WriterInv /\ FollowInv /\ [Next]_vars => (WriterInv /\ FollowInv)'
  BY NextWriters, NextFollow, Zenon
<1>3. FollowInv => ReplicaFollowsSource
  BY Zenon DEF FollowInv, ReplicaFollowsSource, Stored, MirrorRows
<1> QED
  BY <1>1, <1>2, <1>3, PTL DEF Spec

-----------------------------------------------------------------------------
(* A repository that is not a replica, whatever paths were in flight       *)
(* together: the primary key of bookmarks_update_log.  The ids of a        *)
(* transaction rise, and past store_log they are in nobody else's rows.    *)
UniqueIds(E) == \A e, x \in E : e.id = x.id => e = x

UniqueOK(t, L, a) ==
    /\ \A i \in DOMAIN t.ids : t.ids[i] # 0 /\ (t.locking => t.ids[i] <= a)
    /\ \A i, j \in DOMAIN t.ids : i < j => t.ids[i] < t.ids[j]
    /\ \A e \in Ids(t.entries), j \in DOMAIN t.ids : e < t.ids[j]
    /\ UniqueIds(t.entries) /\ 0 \notin Ids(t.entries)
    /\ t.entries = {} => t.pend = <<>>
    /\ t.pc = "commit" => Ids(t.entries) \cap L = {}

UniqueInv ==
    ~replica =>
        /\ UniqueIds(log) /\ 0 \notin Ids(log)
        /\ \A w \in Writers : UniqueOK(txn[w], Ids(log), autoInc)
        /\ \A v, w \in Writers :
             v # w /\ txn[v].pc = "commit" /\ txn[w].pc = "commit" => Ids(txn[v].entries) \cap Ids(txn[w].entries) = {}

(* A record without ids. *)
LEMMA UniqueNoWork ==
  ASSUME NEW t, NEW L, NEW a, t.ids = <<>>, t.entries = {}, t.pend = <<>>
  PROVE  UniqueOK(t, L, a)
<1>1. DOMAIN t.ids = {} /\ Ids(t.entries) = {} /\ UniqueIds(t.entries)
  BY DEF Ids, UniqueIds
<1> QED
  BY <1>1, Zenon DEF UniqueOK

(* Two sets of rows without a common id. *)
LEMMA UniqueUnion ==
  ASSUME NEW E, NEW F, UniqueIds(E), UniqueIds(F), Ids(E) \cap Ids(F) = {}
  PROVE  UniqueIds(E \cup F)
<1> SUFFICES ASSUME NEW e \in E \cup F, NEW x \in E \cup F, e.id = x.id PROVE e = x
  BY Zenon DEF UniqueIds
<1>1. \A y \in E : y.id \in Ids(E)
  BY Zenon DEF Ids
<1>2. \A y \in F : y.id \in Ids(F)
  BY Zenon DEF Ids
<1>3. (e \in E /\ x \in E) \/ (e \in F /\ x \in F)
  BY <1>1, <1>2, Zenon
<1> QED
  BY <1>3, Zenon DEF UniqueIds

(* The record of w after a step that is not a commit. *)
LEMMA UniqueRecord ==
  ASSUME LockInv, LegacyInv, RowInv, UniqueInv, ~replica, NEW w \in Writers, NEW t,
         Described(w, txn[w], t), ~Takes(w, txn[w], t)
  PROVE  /\ UniqueOK(t, Ids(log), autoInc') /\ SameTables
         /\ t.pc = "commit" => \A v \in Writers \ {w} : txn[v].pc = "commit" => Ids(txn[v].entries) \cap Ids(t.entries) = {}
(* A larger number at the end of rising ones. *)
<1>AppendRises. ASSUME NEW q \in Seq(Nat), NEW a \in Nat, \A i \in DOMAIN q : q[i] # 0 /\ q[i] <= a,
                       \A i, j \in DOMAIN q : i < j => q[i] < q[j]
                PROVE  LET r == Append(q, a + 1)
                       IN  /\ \A i \in DOMAIN r : r[i] # 0 /\ r[i] <= a + 1
                           /\ \A i, j \in DOMAIN r : i < j => r[i] < r[j]
  <2> USE <1>AppendRises
  <2> DEFINE r == Append(q, a + 1)
             k == Len(q) + 1
             D == DOMAIN q
  <2>1. /\ DOMAIN r = D \cup {k} /\ D = 1 .. Len(q) /\ Len(q) \in Nat
        /\ r[k] = a + 1 /\ \A i \in D : r[i] = q[i] /\ q[i] \in Nat
    BY AppendOne
  <2> HIDE DEF r
  <2>2. \A i \in DOMAIN r : r[i] # 0 /\ r[i] <= a + 1
    BY <2>1
  <2>3. \A i, j \in DOMAIN r : i < j => r[i] < r[j]
    BY <2>1
  <2> QED
    BY <2>2, <2>3, Zenon DEF r
<1> DEFINE s == txn[w]
           L == Ids(log)
<1>1. RecordOK(s, replica) /\ ShapeOK(s, autoInc) /\ UniqueOK(s, L, autoInc) /\ autoInc \in Nat /\ Topped(L) /\ RowOK(s, L)
  BY Zenon DEF LockInv, LegacyInv, UniqueInv, RowInv
<1>2. CASE \/ Begins(w, s, t) \/ Ends(w, s, t) \/ StartsLocking(w, s, t) \/ StartsLegacy(w, s, t)
           \/ AsksLock(w, s, t) \/ HasLocks(w, s, t) \/ CallerWrites(w, s, t) \/ (\E g : Seeds(w, s, t, g))
  <2>1. t.ids = <<>> /\ t.entries = {} /\ t.pend = <<>>
    BY <1>1, <1>2, Zenon DEF Begins, Ends, StartsLocking, StartsLegacy, AsksLock, HasLocks, CallerWrites, Seeds, Blank, NoWork, RecordOK
  <2>2. t.pc # "commit" /\ SameTables
    BY <1>2, Zenon DEF Begins, Ends, StartsLocking, StartsLegacy, AsksLock, HasLocks, CallerWrites, Seeds, Within
  <2> QED
    BY <2>1, <2>2, UniqueNoWork, Zenon
<1>3. CASE Allocates(w, s, t)
  <2>1. /\ s.pc = "alloc" /\ t.pc # "commit" /\ t.ids = Append(s.ids, autoInc + 1) /\ t.entries = s.entries /\ t.pend = s.pend
        /\ autoInc' = autoInc + 1 /\ SameTables /\ s.locking
    BY <1>1, <1>3, Zenon DEF Allocates, Within, RecordOK
  <2>2. s.entries = {} /\ s.pend = <<>> /\ Ids(t.entries) = {} /\ UniqueIds(t.entries)
    BY <1>1, <2>1, Zenon DEF RecordOK, Ids, UniqueIds
  <2>3. s.ids \in Seq(Nat) /\ (\A i \in DOMAIN s.ids : s.ids[i] # 0 /\ s.ids[i] <= autoInc)
        /\ (\A i, j \in DOMAIN s.ids : i < j => s.ids[i] < s.ids[j])
    BY <1>1, <2>1, Zenon DEF ShapeOK, UniqueOK
  <2>4. /\ \A i \in DOMAIN t.ids : t.ids[i] # 0 /\ t.ids[i] <= autoInc + 1
        /\ \A i, j \in DOMAIN t.ids : i < j => t.ids[i] < t.ids[j]
    BY <1>1, <2>1, <2>3, <1>AppendRises, Zenon
  <2> QED
    BY <2>1, <2>2, <2>4, Zenon DEF UniqueOK
<1>4. CASE FindsNext(w, s, t)
  <2>1. /\ s.pc = "max" /\ t.pc = "write" /\ t.ids = [i \in 1 .. Len(s.ops) |-> MaxLogId + i]
        /\ t.entries = s.entries /\ t.pend = s.pend /\ SameTables /\ t.locking = s.locking
    BY <1>4, Zenon DEF FindsNext, Within
  <2>2. s.entries = {} /\ s.pend = <<>> /\ Ids(t.entries) = {} /\ UniqueIds(t.entries) /\ ~t.locking
    BY <1>1, <2>1, Zenon DEF RecordOK, Ids, UniqueIds
  <2>3. MaxLogId \in Nat
    BY <1>1, TopOf, MaxLogIdIsTop, Zenon
  <2>4. \A i \in DOMAIN t.ids : i \in Nat /\ i # 0 /\ t.ids[i] = MaxLogId + i
    BY <2>1
  <2>5. \A i, j \in DOMAIN t.ids : i < j => t.ids[i] < t.ids[j]
    BY <2>3, <2>4
  <2>6. \A i \in DOMAIN t.ids : t.ids[i] # 0
    BY <2>3, <2>4
  <2> QED
    BY <2>1, <2>2, <2>5, <2>6, ZenonT(30) DEF UniqueOK
<1>5. CASE Writes(w, s, t)
  <2> DEFINE id == Head(s.ids)
             row == LogRow(Head(s.todo), id)
             E == Ids(s.entries)
  <2>1. /\ s.pc = "write" /\ t.pc = "write" /\ s.todo # <<>> /\ t.ids = Tail(s.ids) /\ t.entries = s.entries \cup {row}
        /\ SameTables /\ autoInc' = autoInc /\ t.locking = s.locking
    BY <1>5, Zenon DEF Writes, Within
  <2>2. s.ids \in Seq(Nat) /\ s.ids # <<>>
    BY <1>1, <2>1, NextIds, Zenon
  <2>3. /\ id \in Nat /\ 1 \in DOMAIN s.ids /\ s.ids[1] = id
        /\ \A i \in DOMAIN t.ids : i \in Nat \ {0} /\ i + 1 \in DOMAIN s.ids /\ t.ids[i] = s.ids[i + 1]
    BY <2>1, <2>2, TailOne, ZenonT(30)
  <2>4. \A i, j \in DOMAIN s.ids : i < j => s.ids[i] < s.ids[j]
    BY <1>1, Zenon DEF UniqueOK
  <2>5. \A i, j \in DOMAIN t.ids : i < j => t.ids[i] < t.ids[j]
    BY <2>1, <2>2, <2>4, TailRises, ZenonT(30)
  <2>6. row.id = id
    BY Zenon DEF LogRow
  <2>7. Ids(t.entries) = E \cup {id}
    BY <2>1, <2>6, Zenon DEF Ids
  <2>8. id # 0 /\ 0 \notin E /\ UniqueIds(s.entries) /\ \A e \in E : e < id
    BY <1>1, <2>3, ZenonT(30) DEF UniqueOK
  <2> HIDE DEF id, row, E
  <2>9. E \subseteq Nat
    BY <1>1, Zenon DEF ShapeOK, Topped, E
  <2>10. UniqueIds(t.entries)
    <3>1. Ids({row}) = {id} /\ UniqueIds({row})
      BY <2>6, Zenon DEF Ids, UniqueIds
    <3>2. id \notin E
      BY <2>3, <2>8, <2>9
    <3>3. Ids(s.entries) \cap Ids({row}) = {}
      BY <3>1, <3>2, Zenon DEF E
    <3>4. UniqueIds(s.entries \cup {row})
      BY <2>8, <3>1, <3>3, UniqueUnion, ZenonT(30)
    <3> QED
      BY <2>1, <3>4, Zenon
  <2>11. \A e \in Ids(t.entries), j \in DOMAIN t.ids : e < t.ids[j]
    <3> SUFFICES ASSUME NEW e \in E \cup {id}, NEW j \in DOMAIN t.ids PROVE e < t.ids[j]
      BY <2>7, Zenon
    <3>1. t.ids[j] = s.ids[j + 1] /\ j + 1 \in DOMAIN s.ids /\ 1 < j + 1 /\ s.ids[j + 1] \in Nat
      BY <2>2, <2>3
    <3>2. id < s.ids[j + 1]
      BY <2>3, <2>4, <3>1, Zenon
    <3> QED
      BY <2>3, <2>8, <2>9, <3>1, <3>2
  <2>12. \A i \in DOMAIN t.ids : t.ids[i] # 0 /\ (t.locking => t.ids[i] <= autoInc)
    BY <1>1, <2>1, <2>3, Zenon DEF UniqueOK
  <2>13. 0 \notin Ids(t.entries) /\ t.entries # {}
    BY <2>1, <2>7, <2>8, ZenonT(30)
  <2> QED
    BY <2>1, <2>5, <2>10, <2>11, <2>12, <2>13, Zenon DEF UniqueOK
<1>6. CASE Logs(w, s, t)
  <2>1. /\ t.ids = s.ids /\ t.entries = s.entries /\ t.pend = s.pend /\ t.locking = s.locking /\ autoInc' = autoInc /\ SameTables
        /\ Ids(s.entries) \cap L = {} /\ WaitsForLog(w, s.entries) = {}
    BY <1>6, Zenon DEF Logs, Within
  <2>2. UniqueOK(t, L, autoInc')
    BY <1>1, <2>1, Zenon DEF UniqueOK
  <2>3. \A v \in Writers \ {w} : txn[v].pc = "commit" => Ids(txn[v].entries) \cap Ids(t.entries) = {}
    BY <2>1, Zenon DEF WaitsForLog, Inserted
  <2> QED
    BY <2>1, <2>2, <2>3, Zenon
<1>7. CASE Mirrors(w, s, t)
  BY <1>1, <1>7, Zenon DEF Mirrors, ShapeOK
<1> QED
  BY <1>2, <1>3, <1>4, <1>5, <1>6, <1>7, Zenon DEF Described

(* Every step keeps the ids of the log unique. *)
LEMMA UniqueStep ==
  ASSUME LockInv, LegacyInv, RowInv, SeqInv, UniqueInv, ~replica, replica' = replica, NEW w \in Writers,
         Described(w, txn[w], txn'[w]), \A v \in Writers \ {w} : txn'[v] = txn[v]
  PROVE  UniqueInv'
<1> DEFINE s == txn[w]
           t == txn'[w]
<1>1. autoInc \in Nat /\ autoInc' \in Nat /\ autoInc <= autoInc'
  BY CounterGrows, Zenon
<1>2. /\ UniqueIds(log) /\ 0 \notin Ids(log) /\ \A v \in Writers : UniqueOK(txn[v], Ids(log), autoInc)
      /\ \A u, v \in Writers : u # v /\ txn[u].pc = "commit" /\ txn[v].pc = "commit" => Ids(txn[u].entries) \cap Ids(txn[v].entries) = {}
  BY Zenon DEF UniqueInv
<1>3. \A v \in Writers : \A i \in DOMAIN txn[v].ids : txn[v].ids[i] \in Nat
  BY DEF LegacyInv, ShapeOK
<1>4. ASSUME NEW v \in Writers \ {w}, NEW K, txn[v].pc = "commit" => Ids(txn[v].entries) \cap K = {}
      PROVE  UniqueOK(txn[v], K, autoInc')
  <2>1. \A i \in DOMAIN txn[v].ids : txn[v].locking => txn[v].ids[i] <= autoInc'
    BY <1>1, <1>2, <1>3 DEF UniqueOK
  <2> QED
    BY <1>2, <1>4, <2>1, ZenonT(30) DEF UniqueOK
<1>5. CASE Takes(w, s, t)
  <2>1. s.pc = "commit" /\ log' = log \cup s.entries /\ t.pc = "done" /\ NoWork(t)
    BY <1>5, Zenon DEF Takes, Blank
  <2>2. Ids(log') = Ids(log) \cup Ids(s.entries)
    BY <2>1, IdsUnion, Zenon
  <2>3. UniqueIds(log') /\ 0 \notin Ids(log')
    <3>1. UniqueIds(s.entries) /\ 0 \notin Ids(s.entries) /\ Ids(log) \cap Ids(s.entries) = {}
      BY <1>2, <2>1, Zenon DEF UniqueOK
    <3> QED
      BY <1>2, <2>1, <2>2, <3>1, UniqueUnion, Zenon
  <2>4. UniqueOK(t, Ids(log'), autoInc')
    BY <2>1, UniqueNoWork, Zenon DEF NoWork
  <2>5. ASSUME NEW v \in Writers \ {w} PROVE UniqueOK(txn[v], Ids(log'), autoInc')
    <3>1. txn[v].pc = "commit" => Ids(txn[v].entries) \cap Ids(log') = {}
      BY <1>2, <2>1, <2>2, Zenon DEF UniqueOK
    <3> QED
      BY <1>4, <3>1, Zenon
  <2>6. \A v \in Writers : UniqueOK(txn'[v], Ids(log'), autoInc')
    BY <2>4, <2>5, Zenon
  <2>7. \A u, v \in Writers : u # v /\ txn'[u].pc = "commit" /\ txn'[v].pc = "commit" =>
                                Ids(txn'[u].entries) \cap Ids(txn'[v].entries) = {}
    BY <1>2, <2>1, Zenon
  <2>8. (\A v \in Writers : UniqueOK(txn[v], Ids(log), autoInc))'
    BY <2>6, Zenon
  <2> QED
    BY <2>3, <2>7, <2>8, Zenon DEF UniqueInv
<1>6. CASE ~Takes(w, s, t)
  <2>1. /\ UniqueOK(t, Ids(log), autoInc') /\ log' = log
        /\ t.pc = "commit" => \A v \in Writers \ {w} : txn[v].pc = "commit" => Ids(txn[v].entries) \cap Ids(t.entries) = {}
    BY <1>6, UniqueRecord, Zenon DEF SameTables
  <2>2. ASSUME NEW v \in Writers \ {w} PROVE UniqueOK(txn[v], Ids(log), autoInc')
    <3>1. txn[v].pc = "commit" => Ids(txn[v].entries) \cap Ids(log) = {}
      BY <1>2, Zenon DEF UniqueOK
    <3> QED
      BY <1>4, <3>1, Zenon
  <2>3. \A v \in Writers : UniqueOK(txn'[v], Ids(log'), autoInc')
    BY <2>1, <2>2, Zenon
  <2>4. ASSUME NEW u \in Writers, NEW v \in Writers, u # v, txn'[u].pc = "commit", txn'[v].pc = "commit"
        PROVE  Ids(txn'[u].entries) \cap Ids(txn'[v].entries) = {}
    <3>1. CASE u = w
      BY <2>1, <2>4, <3>1, Zenon
    <3>2. CASE v = w
      BY <2>1, <2>4, <3>2, Zenon
    <3>3. CASE u # w /\ v # w
      BY <1>2, <2>4, <3>3, Zenon
    <3> QED
      BY <3>1, <3>2, <3>3, Zenon
  <2>5. (\A v \in Writers : UniqueOK(txn[v], Ids(log), autoInc))'
    BY <2>3, Zenon
  <2>6. UniqueIds(log') /\ 0 \notin Ids(log')
    BY <1>2, <2>1, Zenon
  <2> QED
    BY <2>4, <2>5, <2>6, ZenonT(30) DEF UniqueInv
<1> QED
  BY <1>5, <1>6, Zenon

-----------------------------------------------------------------------------
(* The old path, while no attempts of the two kinds are in flight          *)
(* together.  A transaction carries ids that follow the maximum of its     *)
(* snapshot; once another has committed, the first of them is taken.       *)
(* K are the ids of the log.                                               *)
OldOK(t, K) ==
    ~t.locking /\ t.pc \in {"write", "commit"} =>
        /\ t.snap[1].log \in 0 .. Top(K)
        /\ t.snap[1].log < Top(K) => t.snap[1].log + 1 \in K
        /\ \E last \in Nat :
             /\ t.snap[1].log <= last
             /\ Ids(t.entries) = t.snap[1].log + 1 .. last
             /\ \A i \in DOMAIN t.ids : t.ids[i] = last + i
        /\ t.pc = "commit" /\ t.entries # {} => t.snap[1].log = Top(K)

OldInv == ~replica /\ ~overlap => \A w \in Writers : OldOK(txn[w], Ids(log))

(* A commit on the old path has the newest maximum, and its ids follow it. *)
LEMMA OldTakes ==
  ASSUME LegacyInv, OldInv, ~replica, ~overlap, NEW w \in Writers, txn[w].pc = "commit", ~txn[w].locking,
         txn[w].entries # {}
  PROVE  LET K == Ids(log)
             E == Ids(txn[w].entries)
         IN  /\ Top(K) \in Nat /\ Top(K) + 1 \in E /\ (\A x \in K : x <= Top(K))
             /\ (\A e \in E : e \in Nat /\ Top(K) < e) /\ Topped(K \cup E) /\ Top(K) < Top(K \cup E)
<1> DEFINE K == Ids(log)
           s == txn[w]
           E == Ids(s.entries)
           b == Top(K)
<1>1. Topped(K) /\ ShapeOK(s, autoInc) /\ OldOK(s, K)
  BY Zenon DEF LegacyInv, OldInv
<1>2. b \in Nat /\ \A x \in K : x <= b
  BY <1>1, TopOf, Zenon
<1>3. s.snap[1].log = b
  BY <1>1, Zenon DEF OldOK
<1>4. PICK last \in Nat : b <= last /\ E = b + 1 .. last
  BY <1>1, <1>3, Zenon DEF OldOK
<1>5. E # {}
  BY Zenon DEF Ids
<1> HIDE DEF K, E, b
<1>6. b + 1 \in E /\ \A e \in E : e \in Nat /\ b < e
  BY <1>2, <1>4, <1>5
<1>7. Topped(K \cup E)
  <2>1. Topped(E)
    BY <1>1, Zenon DEF ShapeOK, E
  <2> QED
    BY <1>1, <2>1, ToppedUnion, Zenon DEF K
<1>8. b < Top(K \cup E)
  <2>1. Top(K \cup E) \in Nat /\ b + 1 <= Top(K \cup E)
    BY <1>6, <1>7, TopOf, Zenon
  <2> QED
    BY <1>2, <2>1
<1> QED
  BY <1>2, <1>6, <1>7, <1>8, Zenon DEF K, E, b

(* Every step keeps the old path in order. *)
LEMMA OldStep ==
  ASSUME LockInv, LegacyInv, OverlapInv, RowInv, UniqueInv, OldInv, ~replica, replica' = replica, NEW w \in Writers,
         Described(w, txn[w], txn'[w]), \A v \in Writers \ {w} : txn'[v] = txn[v]
  PROVE  OldInv'
(* The record of w after a step that is not a commit. *)
<1>OldRecord. ASSUME ~overlap, NEW t, Described(w, txn[w], t), ~Takes(w, txn[w], t)
              PROVE  OldOK(t, Ids(log))
  <2> USE <1>OldRecord
  <2> DEFINE s == txn[w]
             K == Ids(log)
  <2>1. RecordOK(s, replica) /\ ShapeOK(s, autoInc) /\ UniqueOK(s, K, autoInc) /\ OldOK(s, K) /\ Topped(K) /\ RowOK(s, K)
    BY Zenon DEF LockInv, LegacyInv, UniqueInv, OldInv, RowInv
  <2>2. CASE t.locking \/ t.pc \notin {"write", "commit"}
    BY <2>2, ZenonT(30) DEF OldOK
  <2>3. CASE FindsNext(w, s, t)
    <3> DEFINE m == Top(K)
    <3>1. t.pc = "write" /\ t.ids = [i \in 1 .. Len(s.ops) |-> MaxLogId + i] /\ t.snap = Snapshot /\ t.entries = s.entries
          /\ s.pc = "max"
      BY <2>3, ZenonT(30) DEF FindsNext
    <3>2. Snapshot[1].log = MaxLogId /\ MaxLogId = m /\ m \in Nat
      BY <2>1, MaxLogIdIsTop, TopOf, Zenon DEF Snapshot
    <3>3. s.entries = {}
      BY <2>1, <3>1, Zenon DEF RecordOK
    <3> HIDE DEF m
    <3>4. t.snap[1].log = m
      BY <3>1, <3>2, Zenon
    <3>5. Ids(t.entries) = m + 1 .. m
      BY <3>1, <3>2, <3>3 DEF Ids
    <3>6. \A i \in DOMAIN t.ids : t.ids[i] = m + i
      BY <3>1, <3>2, Zenon
    <3>7. m \in 0 .. m /\ m <= m /\ ~(m < m)
      BY <3>2
    <3> QED
      BY <3>1, <3>2, <3>4, <3>5, <3>6, <3>7, ZenonT(30) DEF OldOK, m
  <2>4. CASE Writes(w, s, t) /\ ~t.locking
    <3> DEFINE id == Head(s.ids)
               row == LogRow(Head(s.todo), id)
               b == s.snap[1].log
    <3>1. /\ s.pc = "write" /\ t.pc = "write" /\ s.todo # <<>> /\ t.ids = Tail(s.ids) /\ t.entries = s.entries \cup {row}
          /\ t.snap = s.snap /\ ~s.locking
      BY <2>4, Zenon DEF Writes, Within
    <3>2. s.ids \in Seq(Nat) /\ s.ids # <<>>
      BY <2>1, <3>1, NextIds, Zenon
    <3>3. /\ 1 \in DOMAIN s.ids /\ s.ids[1] = id
          /\ \A i \in DOMAIN t.ids : i \in Nat \ {0} /\ i + 1 \in DOMAIN s.ids /\ t.ids[i] = s.ids[i + 1]
      BY <3>1, <3>2, TailOne, Zenon
    <3>4. b \in 0 .. Top(K) /\ (b < Top(K) => b + 1 \in K)
      BY <2>1, <3>1, Zenon DEF OldOK
    <3>5. PICK last \in Nat : b <= last /\ Ids(s.entries) = b + 1 .. last /\ \A i \in DOMAIN s.ids : s.ids[i] = last + i
      BY <2>1, <3>1, ZenonT(30) DEF OldOK
    <3>6. row.id = id
      BY Zenon DEF LogRow
    <3>7. Ids(t.entries) = Ids(s.entries) \cup {id}
      BY <3>1, <3>6, Zenon DEF Ids
    <3> HIDE DEF id, row, b
    <3>8. id = last + 1 /\ b \in Nat
      BY <3>3, <3>4, <3>5
    <3>9. Ids(t.entries) = b + 1 .. last + 1
      BY <3>5, <3>7, <3>8
    <3>10. \A i \in DOMAIN t.ids : t.ids[i] = (last + 1) + i
      BY <3>3, <3>5
    <3>11. last + 1 \in Nat /\ b <= last + 1
      BY <3>5, <3>8
    <3>12. t.snap[1].log = b
      BY <3>1, Zenon DEF b
    <3> QED
      BY <3>1, <3>4, <3>9, <3>10, <3>11, <3>12, Zenon DEF OldOK
  <2>5. CASE Logs(w, s, t) /\ ~t.locking
    <3> DEFINE b == s.snap[1].log
    <3>1. /\ s.pc = "write" /\ t.pc = "commit" /\ t.ids = s.ids /\ t.entries = s.entries /\ t.snap = s.snap /\ ~s.locking
          /\ Ids(s.entries) \cap K = {}
      BY <2>5, Zenon DEF Logs, Within
    <3>2. b \in 0 .. Top(K) /\ (b < Top(K) => b + 1 \in K) /\ Top(K) \in Nat
      BY <2>1, <3>1, TopOf, Zenon DEF OldOK
    <3>3. PICK last \in Nat : b <= last /\ Ids(s.entries) = b + 1 .. last /\ \A i \in DOMAIN s.ids : s.ids[i] = last + i
      BY <2>1, <3>1, ZenonT(30) DEF OldOK
    <3>4. ASSUME s.entries # {} PROVE b = Top(K)
      <4>1. Ids(s.entries) # {}
        BY <3>4, ZenonT(30) DEF Ids
      <4> HIDE DEF b
      <4>2. b + 1 \in Ids(s.entries)
        BY <3>2, <3>3, <4>1
      <4> QED
        BY <3>1, <3>2, <4>2
    <3> HIDE DEF b
    <3>5. t.snap[1].log = b
      BY <3>1, Zenon DEF b
    <3> QED
      BY <3>1, <3>2, <3>3, <3>4, <3>5, Zenon DEF OldOK
  <2>6. CASE Mirrors(w, s, t)
    BY <2>1, <2>6, Zenon DEF Mirrors, ShapeOK
  <2>7. CASE Allocates(w, s, t)
    <3>1. t.locking
      BY <2>1, <2>7, Zenon DEF Allocates, Within, RecordOK
    <3> QED
      BY <2>2, <3>1, Zenon
  <2>8. CASE \/ Begins(w, s, t) \/ Ends(w, s, t) \/ StartsLocking(w, s, t) \/ StartsLegacy(w, s, t)
             \/ AsksLock(w, s, t) \/ HasLocks(w, s, t) \/ CallerWrites(w, s, t) \/ (\E g : Seeds(w, s, t, g))
    <3>1. t.pc \notin {"write", "commit"}
      BY <2>8, Zenon DEF Begins, Ends, StartsLocking, StartsLegacy, AsksLock, HasLocks, CallerWrites, Seeds, Blank
    <3> QED
      BY <2>2, <3>1, Zenon
  <2> QED
    BY <2>2, <2>3, <2>4, <2>5, <2>6, <2>7, <2>8, Zenon DEF Described
<1> DEFINE s == txn[w]
           t == txn'[w]
           K == Ids(log)
           E == Ids(s.entries)
<1> SUFFICES ASSUME ~overlap' PROVE \A v \in Writers : OldOK(txn'[v], Ids(log'))
  BY Zenon DEF OldInv
<1>1. ~overlap
  BY OverlapStep, Zenon
<1>2. \A v \in Writers : OldOK(txn[v], K)
  BY <1>1, Zenon DEF OldInv
<1>3. CASE ~Takes(w, s, t)
  <2>1. OldOK(t, K)
    BY <1>1, <1>3, <1>OldRecord, Zenon
  <2>2. log' = log
    BY <1>3, UniqueRecord, Zenon DEF SameTables
  <2> QED
    BY <1>2, <2>1, <2>2, Zenon
<1>4. CASE Takes(w, s, t)
  <2>1. s.pc = "commit" /\ log' = log \cup s.entries /\ t.pc = "done"
    BY <1>4, Zenon DEF Takes
  <2>2. Ids(log') = K \cup E
    BY <2>1, IdsUnion, Zenon
  <2>3. OldOK(t, Ids(log'))
    BY <2>1, Zenon DEF OldOK
  <2>4. ASSUME NEW v \in Writers \ {w} PROVE OldOK(txn[v], Ids(log'))
    <3> DEFINE u == txn[v]
               a == u.snap[1].log
    <3>1. CASE s.entries = {}
      <4>1. log' = log
        BY <2>1, <3>1, Zenon
      <4> QED
        BY <1>2, <4>1, Zenon
    <3>2. CASE u.locking \/ u.pc \notin {"write", "commit"}
      BY <3>2, Zenon DEF OldOK
    <3>3. CASE s.entries # {} /\ ~u.locking /\ u.pc \in {"write", "commit"}
      <4>1. ~s.locking
        <5>1. s.pc \in Running /\ u.pc \in Running
          BY <2>1, <3>3, Zenon DEF Running
        <5> QED
          BY <1>1, <3>3, <5>1, Zenon DEF OverlapInv
      <4>2. /\ Top(K) \in Nat /\ Top(K) + 1 \in E /\ (\A x \in K : x <= Top(K))
            /\ Topped(K \cup E) /\ Top(K) < Top(K \cup E)
        BY <1>1, <2>1, <3>3, <4>1, OldTakes, Zenon
      <4>3. a \in 0 .. Top(K) /\ (a < Top(K) => a + 1 \in K)
        BY <1>2, <3>3, Zenon DEF OldOK
      <4>4. Top(K \cup E) \in Nat
        BY <4>2, TopOf, Zenon
      <4>5. u.pc = "commit" => u.entries = {}
        <5> SUFFICES ASSUME u.pc = "commit", u.entries # {} PROVE FALSE
          BY Zenon
        <5>1. Top(K) + 1 \in Ids(u.entries)
          BY <1>1, <3>3, OldTakes, Zenon
        <5>2. Ids(u.entries) \cap E = {}
          BY <2>1, Zenon DEF UniqueInv
        <5> QED
          BY <4>2, <5>1, <5>2, Zenon
      <4> HIDE DEF K, E, a
      <4>6. a \in 0 .. Top(K \cup E) /\ a + 1 \in K \cup E
        BY <4>2, <4>3, <4>4
      <4> HIDE DEF u
      <4>7. OldOK(u, K)
        BY <1>2, Zenon DEF u
      <4> QED
        BY <2>2, <3>3, <4>5, <4>6, <4>7, Zenon DEF OldOK, a, u
    <3> QED
      BY <3>1, <3>2, <3>3, Zenon
  <2> QED
    BY <2>3, <2>4, Zenon
<1> QED
  BY <1>3, <1>4, Zenon

LogInv == WriterInv /\ FollowInv /\ UniqueInv /\ OldInv

(* The first states. *)
LEMMA InitLog == Init => LogInv
<1> SUFFICES ASSUME Init PROVE UniqueInv /\ OldInv
  BY InitWriters, InitFollow, Zenon DEF LogInv
<1>1. \A w \in Writers : txn[w].pc = "idle" /\ NoWork(txn[w])
  BY InitRecords, FreshBlank, Zenon DEF Blank
<1>2. OldInv
  BY <1>1, Zenon DEF OldInv, OldOK
<1>3. \A w \in Writers : UniqueOK(txn[w], Ids(log), autoInc)
  BY <1>1, UniqueNoWork, Zenon DEF NoWork
<1>4. ASSUME ~replica PROVE UniqueIds(log) /\ 0 \notin Ids(log)
  <2>1. PICK e : e = [id |-> 1, name |-> Min(Names), old |-> NoCs, new |-> CHOOSE c \in Changesets : TRUE]
    BY Zenon
  <2>2. e.id = 1 /\ log = {e}
    BY <1>4, <2>1, Zenon DEF Init, StoreInit
  <2> QED
    BY <2>2 DEF UniqueIds, Ids
<1>5. UniqueInv
  BY <1>1, <1>3, <1>4, Zenon DEF UniqueInv
<1> QED
  BY <1>2, <1>5, Zenon

(* Every step keeps it. *)
LEMMA NextLog ==
  ASSUME LogInv, [Next]_vars
  PROVE  LogInv'
<1>1. WriterInv /\ FollowInv /\ UniqueInv /\ OldInv
  BY Zenon DEF LogInv
<1>2. WriterInv' /\ FollowInv'
  BY <1>1, NextWriters, NextFollow, Zenon
<1>3. CASE UNCHANGED writerVars
  <2>1. UniqueInv' /\ OldInv'
    BY <1>1, <1>3, ZenonT(60) DEF UniqueInv, OldInv, writerVars
  <2> QED
    BY <1>2, <2>1, Zenon DEF LogInv
<1>4. CASE \E w \in Writers : StoreStep(w)
  <2>1. PICK w \in Writers : StoreStep(w)
    BY <1>4, Zenon
  <2>2. replica' = replica /\ Described(w, txn[w], txn'[w]) /\ \A v \in Writers \ {w} : txn'[v] = txn[v]
    BY <1>1, <2>1, LockStep, Zenon DEF WriterInv
  <2>3. UniqueInv' /\ OldInv'
    <3>1. CASE replica
      BY <2>2, <3>1, Zenon DEF UniqueInv, OldInv
    <3>2. CASE ~replica
      BY <1>1, <2>2, <3>2, UniqueStep, OldStep, Zenon DEF WriterInv
    <3> QED
      BY <3>1, <3>2, Zenon
  <2> QED
    BY <1>2, <2>3, Zenon DEF LogInv
<1> QED
  BY <1>3, <1>4, WriterCases, Zenon

(* The invariant of the log holds throughout. *)
LEMMA LogInvariant == Spec => []LogInv
<1>1. LogInv /\ [Next]_vars => LogInv'
  BY NextLog, Zenon
<1> QED
  BY InitLog, <1>1, PTL DEF Spec

(* A commit adds rows whose ids are above those of the rows it follows. *)
LEMMA TakesInOrder ==
  ASSUME LogInv, ~replica, ~overlap, NEW w \in Writers, txn[w].pc = "commit",
         NEW e \in txn[w].entries, NEW x \in log, e.name = x.name
  PROVE  x.id < e.id
<1>1. x.id \in Ids(log) /\ e.id \in Ids(txn[w].entries)
  BY Zenon DEF Ids
<1>2. CASE txn[w].locking
  <2>1. held[x.name] = w
    BY <1>2 DEF LogInv, WriterInv, LockInv, HoldsOK
  <2>2. FreshOK(w, txn[w], held, log, autoInc)
    BY <1>2, Zenon DEF LogInv, WriterInv, FreshInv
  <2>3. e.id \in IdsOf(txn[w])
    BY <1>1, Zenon DEF IdsOf
  <2> QED
    BY <2>1, <2>2, <2>3, Zenon DEF FreshOK
<1>3. CASE ~txn[w].locking
  <2> DEFINE b == Top(Ids(log))
  <2>1. b \in Nat /\ x.id <= b /\ b < e.id /\ e.id \in Nat
    BY <1>1, <1>3, OldTakes, Zenon DEF LogInv, WriterInv
  <2>2. x.id \in Nat
    BY <1>1, Zenon DEF LogInv, WriterInv, LegacyInv, Topped
  <2> HIDE DEF b
  <2> QED
    BY <2>1, <2>2
<1> QED
  BY <1>2, <1>3, Zenon

(* The rows of one bookmark get their ids in commit order: under the       *)
(* per-bookmark lock, on the old path by the duplicate key, on a replica   *)
(* by the compare-and-swap and the duplicate key.  It fails only after     *)
(* attempts of the two kinds were in flight together.                      *)
THEOREM CommitsInIdOrder == Spec => CommitOrderIsIdOrder
<1>1. LogInv /\ [Next]_vars =>
        [\A e \in log' \ log, x \in log : ~overlap /\ e.name = x.name => x.id < e.id]_vars
  <2> SUFFICES ASSUME LogInv, [Next]_vars, NEW e \in log' \ log, NEW x \in log, ~overlap, e.name = x.name
               PROVE  x.id < e.id
    BY Zenon
  <2>1. CASE replica
    BY <2>1, NextFollow, Zenon DEF LogInv
  <2>2. CASE ~replica
    <3>1. PICK w \in Writers : StoreStep(w)
      BY WriterCases, Zenon DEF writerVars
    <3>2. Described(w, txn[w], txn'[w])
      BY <3>1, LockStep, Zenon DEF LogInv, WriterInv
    <3>3. Takes(w, txn[w], txn'[w])
      BY <2>2, <3>2, UniqueRecord, Zenon DEF SameTables, LogInv, WriterInv
    <3>4. txn[w].pc = "commit" /\ e \in txn[w].entries
      BY <3>3, Zenon DEF Takes
    <3> QED
      BY <2>2, <3>4, TakesInOrder, Zenon
  <2> QED
    BY <2>1, <2>2, Zenon
<1> QED
  BY <1>1, LogInvariant, PTL DEF CommitOrderIsIdOrder, Spec

=============================================================================
