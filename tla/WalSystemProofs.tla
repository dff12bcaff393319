--------------------------- MODULE WalSystemProofs ---------------------------
(***************************************************************************)
(* Puts and healers, for any numbers of keys, stores, shards, puts,        *)
(* healers, retries and faults: types, that no partly written blob is ever *)
(* forgotten, that an answered put stays on its quorum, the refinement of  *)
(* BlobLife, and that an unlinked blob stays away.                         *)
(***************************************************************************)
EXTENDS WalUnlink, WalMultiplexProofs

-----------------------------------------------------------------------------
(* Types.  A requeued row gets retry + 1 only while that is in range, which *)
(* is decided one phase earlier, in HealerOutcome.                          *)
RequeueInRange ==
    \A h \in Healers :
        /\ healer[h].phase # "requeue" => healer[h].requeue = {}
        /\ \A r \in healer[h].requeue :
             r \in healer[h].batch /\ (MissingBlob(h, r.key) => r.retry < MaxRetries)

TypeInv == TypeOK /\ RequeueInRange

(* The rows a healer reads are rows of the table that reached the minimum age. *)
LEMMA ReadEntriesOld ==
    ASSUME NEW range, NEW limit, NEW batch \in ReadEntries(range, limit)
    PROVE  batch \subseteq wal /\ \A r \in batch : r.age = MinAge
BY Zenon DEF ReadEntries, OldRows

(* The fetch size stays between one and the batch size. *)
LEMMA GrownFetchType ==
    ASSUME NEW fetch \in 1 .. BatchSize, NEW current \in 1 .. BatchSize
    PROVE  GrownFetch(fetch, current) \in 1 .. BatchSize
BY HealerAssumption DEF GrownFetch

(* The types hold in the beginning. *)
LEMMA TypeInit == Init => TypeInv
<1> SUFFICES ASSUME Init PROVE TypeInv
  BY Zenon
<1> USE StorageAssumption, MultiplexAssumption, HealerAssumption
<1>1. PutTypes
  BY PutInitTypes, Zenon DEF Init
<1>3. Started \in HealerRecord
  BY DEF Started, HealerRecord, Phases, Looks, Unasked
<1>4. HealerTypeOK
  BY <1>3, Zenon DEF Init, HealerInit, HealerTypeOK
<1>5. RequeueInRange
  BY Zenon DEF Init, HealerInit, Started, RequeueInRange
<1> QED
  BY <1>1, <1>4, <1>5, Zenon DEF TypeInv, TypeOK, PutTypes

(* They contain those of the puts. *)
LEMMA TypesOfPuts == TypeInv => PutTypes
BY Zenon DEF TypeInv, TypeOK, PutTypes

(* Every step of a put keeps the types. *)
LEMMA PutStepType ==
    ASSUME TypeInv, NEW p \in Puts, PutStep(p, HeldIds), UNCHANGED healer
    PROVE  TypeInv'
<1>1. PutTypes'
  BY TypesOfPuts, PutStepTypes, Zenon
<1>2. HealerTypeOK' /\ RequeueInRange'
  BY Zenon DEF TypeInv, TypeOK, HealerTypeOK, RequeueInRange, MissingBlob
<1> QED
  BY <1>1, <1>2, Zenon DEF TypeInv, TypeOK, PutTypes

(* Every step of a healer keeps the types. *)
LEMMA HealerStepType ==
    ASSUME TypeInv, NEW h \in Healers, HealerStep(h), UNCHANGED put
    PROVE  TypeInv'
<1> USE StorageAssumption, HealerAssumption DEF TypeInv, TypeOK, StorageTypeOK, HealerTypeOK
<1>0. PutTypeOK'
  BY Zenon DEF PutTypeOK
<1>a. /\ healer[h] \in HealerRecord
      /\ healer[h].phase \in Phases
      /\ healer[h].current \in 1 .. BatchSize
      /\ healer[h].fetch \in 1 .. BatchSize
      /\ healer[h].batch \in SUBSET Row
      /\ healer[h].look \in [Keys -> [Stores -> Looks]]
      /\ healer[h].requeue \in SUBSET Row
  BY Zenon DEF HealerRecord
<1>b. Unasked \in [Keys -> [Stores -> Looks]]
  BY Zenon DEF Unasked, Looks
<1>c. Started \in HealerRecord
  BY <1>b DEF Started, HealerRecord, Phases
<1>d. ASSUME NEW new \in HealerRecord, healer' = [healer EXCEPT ![h] = new],
             \/ new.requeue = {}
             \/ /\ new.phase = "requeue"
                /\ \A r \in new.requeue :
                     /\ r \in new.batch
                     /\ (\A s \in Stores : new.look[r.key][s] = "none") => r.retry < MaxRetries
      PROVE  HealerTypeOK' /\ RequeueInRange'
  BY <1>d, Zenon DEF RequeueInRange, MissingBlob
<1>1. CASE HealerRead(h)
  <2>1. PICK batch \in ReadEntries(ReadRange(h), healer[h].fetch) :
          healer' = [healer EXCEPT ![h] =
             [phase |-> ReadPhase(batch),
              current |-> GrownFetch(healer[h].fetch, healer[h].current),
              fetch |-> GrownFetch(healer[h].fetch, healer[h].current),
              batch |-> batch, look |-> Unasked, requeue |-> {}]]
    BY <1>1, Zenon DEF HealerRead
  <2> DEFINE size == GrownFetch(healer[h].fetch, healer[h].current)
             new == [phase |-> ReadPhase(batch), current |-> size, fetch |-> size,
                     batch |-> batch, look |-> Unasked, requeue |-> {}]
  <2>2. batch \in SUBSET Row
    BY ReadEntriesOld, Zenon
  <2>3. size \in 1 .. BatchSize
    BY <1>a, GrownFetchType, Zenon
  <2>4. ReadPhase(batch) \in Phases
    BY Zenon DEF ReadPhase, Phases
  <2>5. healer' = [healer EXCEPT ![h] = new] /\ new.requeue = {}
    BY <2>1, Zenon
  <2>6. new \in HealerRecord
    <3> HIDE DEF size
    <3> QED BY <2>2, <2>3, <2>4, <1>b, Zenon DEF HealerRecord
  <2> HIDE DEF new
  <2>7. HealerTypeOK' /\ RequeueInRange'
    BY <2>5, <2>6, <1>d, Zenon
  <2> QED
    BY <2>7, <1>1, <1>0, Zenon DEF HealerRead, storageVars
<1>2. CASE HealerReadErr(h)
  <2> DEFINE new == IF healer[h].fetch \div 2 < 1 THEN Started ELSE Shrunk(healer[h])
  <2>1. new \in HealerRecord
    <3>1. ASSUME ~(healer[h].fetch \div 2 < 1) PROVE healer[h].fetch \div 2 \in 1 .. BatchSize
      BY <3>1, <1>a
    <3>2. ASSUME NEW size \in 1 .. BatchSize PROVE [healer[h] EXCEPT !.fetch = size] \in HealerRecord
      BY <1>a, Zenon DEF HealerRecord
    <3> QED
      BY <3>1, <3>2, <1>c, Zenon DEF Shrunk
  <2>2. new.requeue = {}
    BY <1>2, <1>a, Zenon DEF HealerReadErr, RequeueInRange, Started, Shrunk, HealerRecord
  <2>3. healer' = [healer EXCEPT ![h] = new]
    BY <1>2, Zenon DEF HealerReadErr
  <2> HIDE DEF new
  <2>4. HealerTypeOK' /\ RequeueInRange'
    BY <2>1, <2>2, <2>3, <1>d, Zenon
  <2> QED
    BY <2>4, <1>2, <1>0 DEF HealerReadErr, Fault
<1>3. ASSUME NEW k \in Keys, NEW s \in Stores, HealerGet(h, k, s) PROVE TypeInv'
  <2>1. PICK answer \in Looks : healer' = [healer EXCEPT ![h].look[k][s] = answer]
    BY <1>3, Zenon DEF HealerGet, Looks
  <2>2. healer'[h].requeue = {} /\ healer' \in [Healers -> HealerRecord]
    BY <2>1, <1>3, <1>a, Zenon DEF HealerGet, RequeueInRange, HealerRecord
  <2>3. RequeueInRange'
    BY <2>1, <2>2, <1>a, Zenon DEF RequeueInRange, MissingBlob
  <2> QED
    BY <2>2, <2>3, <1>3, <1>0 DEF HealerGet, storageVars, Fault
<1>4. ASSUME NEW k \in Keys, NEW s \in Stores, HealerPut(h, k, s) PROVE TypeInv'
  <2>1. PICK answer \in Looks : healer' = [healer EXCEPT ![h].look[k][s] = answer]
    BY <1>4, Zenon DEF HealerPut, Looks
  <2>2. healer'[h].requeue = {} /\ healer' \in [Healers -> HealerRecord]
    BY <2>1, <1>4, <1>a, ZenonT(30) DEF HealerPut, RequeueInRange, HealerRecord
  <2>3. RequeueInRange'
    BY <2>1, <2>2, <1>a, Zenon DEF RequeueInRange, MissingBlob
  <2>4. blobs' \in [Stores -> SUBSET Keys]
    BY <1>4 DEF HealerPut
  <2> QED
    BY <2>2, <2>3, <2>4, <1>4, <1>0 DEF HealerPut, Fault
<1>5. CASE HealerOutcome(h)
  <2> DEFINE new == Requeuing(healer[h], ToEnqueue(h))
  <2>1. ToEnqueue(h) \subseteq healer[h].batch
    BY Zenon DEF ToEnqueue
  <2>2. \A r \in ToEnqueue(h) : MissingBlob(h, r.key) => r.retry < MaxRetries
    BY MultiplexAssumption, Zenon DEF ToEnqueue, MissingBlob, MissingBlobstores, Found, Stores
  <2>3. new \in HealerRecord
    BY <2>1, <1>a, Zenon DEF Requeuing, HealerRecord, Phases
  <2>4. /\ new.requeue = ToEnqueue(h) /\ new.batch = healer[h].batch /\ new.look = healer[h].look
        /\ ToEnqueue(h) # {} => new.phase = "requeue"
    BY <1>a, Zenon DEF Requeuing, HealerRecord
  <2>5. healer' = [healer EXCEPT ![h] = new]
    BY <1>5, Zenon DEF HealerOutcome
  <2> HIDE DEF new
  <2>6. HealerTypeOK' /\ RequeueInRange'
    BY <2>1, <2>2, <2>3, <2>4, <2>5, <1>d, Zenon DEF MissingBlob
  <2> QED
    BY <2>6, <1>5, <1>0, Zenon DEF HealerOutcome, storageVars
<1>6. CASE HealerRequeue(h)
  <2>1. PICK r \in healer[h].requeue, sh \in Shards :
          /\ healer[h].phase = "requeue"
          /\ LogEntry(sh, r.key, 0, IF MissingBlob(h, r.key) THEN r.retry + 1 ELSE r.retry, HeldIds)
          /\ healer' = [healer EXCEPT ![h] = Requeuing(@, @.requeue \ {r})]
          /\ UNCHANGED <<blobs, faults>>
    BY <1>6, Zenon DEF HealerRequeue
  <2> DEFINE left == healer[h].requeue \ {r}
             new == Requeuing(healer[h], left)
             retry == IF MissingBlob(h, r.key) THEN r.retry + 1 ELSE r.retry
  <2>2. r.key \in Keys /\ r.retry \in 0 .. MaxRetries /\ 0 \in 0 .. MinAge
    BY <1>a DEF Row
  <2>3. retry \in 0 .. MaxRetries
    BY <2>2 DEF RequeueInRange
  <2>4. wal' \subseteq Row
    <3> HIDE DEF retry
    <3>1. LogEntry(sh, r.key, 0, retry, HeldIds)
      BY <2>1, Zenon DEF retry
    <3> QED
      BY <3>1, <2>2, <2>3, LogEntryType, Zenon
  <2>5. new \in HealerRecord
    BY <1>a, Zenon DEF Requeuing, HealerRecord, Phases
  <2>6. /\ new.requeue = left /\ new.batch = healer[h].batch /\ new.look = healer[h].look
        /\ left # {} => new.phase = "requeue"
    BY <1>a, Zenon DEF Requeuing, HealerRecord
  <2>7. healer' = [healer EXCEPT ![h] = new]
    BY <2>1, Zenon
  <2>8. \A q \in left : q \in healer[h].batch /\ (MissingBlob(h, q.key) => q.retry < MaxRetries)
    BY Zenon DEF RequeueInRange
  <2> HIDE DEF new, left
  <2>9. HealerTypeOK' /\ RequeueInRange'
    BY <2>5, <2>6, <2>7, <2>8, <1>d, Zenon DEF MissingBlob
  <2> QED
    BY <2>1, <2>4, <2>9, <1>0, Zenon
<1>7. CASE HealerDelete(h)
  <2>1. PICK sh \in {ReadShardId(h, r) : r \in healer[h].batch} :
          LET sent == {r \in healer[h].batch : ReadShardId(h, r) = sh}
          IN  /\ healer[h].phase = "cleanup"
              /\ DeleteIds(sh, {r.id : r \in sent})
              /\ healer' = [healer EXCEPT ![h] = Deleted(@, sent)]
              /\ UNCHANGED <<blobs, faults>>
    BY <1>7, Zenon DEF HealerDelete
  <2> DEFINE sent == {r \in healer[h].batch : ReadShardId(h, r) = sh}
             new == Deleted(healer[h], sent)
  <2>2. healer' = [healer EXCEPT ![h] = new] /\ wal' \subseteq Row
    BY <2>1, Zenon DEF DeleteIds
  <2> HIDE DEF sent
  <2>3. new \in HealerRecord
    BY <1>a, <1>b, Zenon DEF Deleted, HealerRecord, Phases
  <2>4. new.requeue = {}
    <3>1. healer[h].requeue = {}
      BY <2>1, Zenon DEF RequeueInRange
    <3> QED
      BY <3>1, <1>a, Zenon DEF Deleted, HealerRecord
  <2> HIDE DEF new
  <2> QED
    BY <2>1, <2>2, <2>3, <2>4, <1>d, <1>0, Zenon
<1>8. CASE HealerCrash(h)
  <2>1. Started.requeue = {} /\ healer' = [healer EXCEPT ![h] = Started]
    BY <1>8, Zenon DEF Started, HealerCrash
  <2>2. HealerTypeOK' /\ RequeueInRange'
    BY <2>1, <1>c, <1>d, Zenon
  <2> QED
    BY <2>2, <1>8, <1>0 DEF HealerCrash, Fault
<1> QED
  BY <1>1, <1>2, <1>3, <1>4, <1>5, <1>6, <1>7, <1>8, Zenon DEF HealerStep

(* Time keeps the types. *)
LEMMA TickType ==
    ASSUME TypeInv, Tick
    PROVE  TypeInv'
<1> USE StorageAssumption, MultiplexAssumption
<1>1. ASSUME NEW r \in wal PROVE [r EXCEPT !.age = Older(@, MinAge)] \in Row
  <2>1. r \in Row /\ r.age \in 0 .. MinAge
    BY <1>1, Zenon DEF TypeInv, TypeOK, StorageTypeOK, Row
  <2>2. Older(r.age, MinAge) \in 0 .. MinAge
    BY <2>1 DEF Older
  <2> QED
    BY <2>1, <2>2, Zenon DEF Row
<1>2. StorageTypeOK'
  BY <1>1, Zenon DEF Tick, TypeInv, TypeOK, StorageTypeOK
<1>3. ASSUME NEW p \in Puts PROVE [put[p] EXCEPT !.age = Older(@, TooOld)] \in PutRecord
  <2>1. put[p] \in PutRecord /\ put[p].age \in PutAges
    BY <1>3, Zenon DEF TypeInv, TypeOK, PutTypeOK, PutRecord
  <2>2. Older(put[p].age, TooOld) \in PutAges
    BY <2>1 DEF Older, PutAges, TooOld
  <2> QED
    BY <2>1, <2>2, Zenon DEF PutRecord
<1>4. PutTypeOK'
  BY <1>3, Zenon DEF Tick, TypeInv, TypeOK, PutTypeOK
<1> QED
  BY <1>2, <1>4, Zenon DEF Tick, TypeInv, TypeOK, HealerTypeOK, RequeueInRange, MissingBlob

(* Every state a run of puts and healers can reach is well typed: in        *)
(* particular the retry count never passes MAX_WAL_RETRIES and the fetch    *)
(* size never leaves 1 .. sync_queue_limit, whatever fails.                 *)
THEOREM TypeCorrect == Spec => []TypeOK
<1>1. TypeInv /\ [Next]_vars => TypeInv'
  <2> SUFFICES ASSUME TypeInv, [Next]_vars PROVE TypeInv'
    BY Zenon
  <2>1. CASE Next
    BY <2>1, PutStepType, HealerStepType, TickType, Zenon DEF Next
  <2>2. CASE UNCHANGED vars
    BY <2>2, Zenon DEF vars, TypeInv, TypeOK, StorageTypeOK, PutTypeOK, HealerTypeOK,
                RequeueInRange, MissingBlob
  <2> QED
    BY <2>1, <2>2, Zenon
<1>2. TypeInv => TypeOK
  BY Zenon DEF TypeInv
<1> QED
  BY TypeInit, <1>1, <1>2, PTL DEF Spec

-----------------------------------------------------------------------------
(* The inductive invariant.  First what is known of puts, stores, rows and  *)
(* healers taken by themselves.                                             *)
SameRow(a, b) == a.shard = b.shard /\ a.id = b.id

RowsOK == \A a, b \in wal : SameRow(a, b) => a = b

(* What a healer holds is old, and the table has no other row under its id. *)
HeldOK ==
    \A h \in Healers :
        /\ healer[h].phase = "fetch" => healer[h].batch = {}
        /\ \A r \in healer[h].batch : r.age = MinAge /\ \A w \in wal : SameRow(w, r) => w = r

LooksOK ==
    \A h \in Healers, k \in Keys, s \in Stores :
        /\ healer[h].look[k][s] \in {"some", "healed"} => Present(k, s)
        /\ healer[h].look[k][s] \in {"healed", "failed"} => Found(h, k)

(* Then the heart of it: a row that watches over a put.  Before the put     *)
(* landed anywhere the row is young enough to outlive it: each retry but    *)
(* the first costs the row MinAge.  Once it landed, no healer that is about *)
(* to drop the row may have missed the key in all the stores it landed in.  *)
(* And no healer is past the point where it decided to let the row go.      *)
Fresh(r, p) == r.retry = 0 \/ (r.retry - 1) * MinAge + r.age <= put[p].age

Spared(h, r, p) ==
    /\ healer[h].phase = "heal" \/ r \in healer[h].requeue
    /\ r.retry = MaxRetries /\ put[p].landed # {} =>
         \E s \in put[p].landed : healer[h].look[r.key][s] # "none"

Watches(r, p) ==
    /\ r.key = put[p].key
    /\ put[p].landed = {} => Fresh(r, p)
    /\ \A h \in Healers : r \in healer[h].batch => Spared(h, r, p)

Unlanded(p) == put[p].landed = {} /\ put[p].age = TooOld

Covered(p) == Replicated(put[p].key) \/ Unlanded(p) \/ \E r \in wal : Watches(r, p)

CoveredOK == \A p \in Puts : put[p].state # "idle" => Covered(p)

IInv == TypeInv /\ PutsOK /\ BlobsOK /\ RowsOK /\ HeldOK /\ LooksOK /\ CoveredOK

-----------------------------------------------------------------------------
(* Numbers and types, each stated once. *)

(* What a healer saw of a key in a store. *)
LEMMA LookFields ==
    ASSUME TypeInv, NEW h \in Healers, NEW k \in Keys, NEW s \in Stores
    PROVE  healer[h].look[k][s] \in Looks
<1>1. healer[h] \in HealerRecord
  BY Zenon DEF TypeInv, TypeOK, HealerTypeOK
<1>2. healer[h].look \in [Keys -> [Stores -> Looks]]
  BY <1>1, Zenon DEF HealerRecord
<1> QED
  BY <1>2, Zenon

(* Each retry of a row but the first costs it the minimum age m once more. *)
LEMMA OneMoreRound ==
    ASSUME NEW n \in Nat, NEW m \in Nat
    PROVE  (n - 1) * m \in Int /\ n * m \in Int /\ (n - 1) * m + m = n * m /\ 0 * m = 0
OBVIOUS

-----------------------------------------------------------------------------
(* Puts and blobs. *)

(* Nothing but an unlink, which is not part of WalSystem, removes a blob. *)
LEMMA BlobsGrow ==
    ASSUME TypeInv, [Next]_vars
    PROVE  \A s \in Stores : blobs[s] \subseteq blobs'[s]
<1> USE DEF TypeInv, TypeOK, StorageTypeOK
<1>1. ASSUME NEW p \in Puts, PutStep(p, HeldIds) PROVE \A s \in Stores : blobs[s] \subseteq blobs'[s]
  BY <1>1, TypesOfPuts, PutBlobsGrow, Zenon
<1>2. ASSUME NEW h \in Healers, HealerStep(h) PROVE \A s \in Stores : blobs[s] \subseteq blobs'[s]
  <2>1. ASSUME NEW k \in Keys, NEW s \in Stores, HealerPut(h, k, s)
        PROVE  \A t \in Stores : blobs[t] \subseteq blobs'[t]
    BY <2>1, Zenon DEF HealerPut
  <2>2. ASSUME NEW k \in Keys, NEW s \in Stores, HealerGet(h, k, s) PROVE blobs' = blobs
    BY <2>2, Zenon DEF HealerGet, storageVars
  <2>3. ASSUME HealerRead(h) \/ HealerReadErr(h) \/ HealerOutcome(h) PROVE blobs' = blobs
    BY <2>3, Zenon DEF HealerRead, HealerReadErr, HealerOutcome, storageVars
  <2>4. ASSUME HealerRequeue(h) \/ HealerDelete(h) \/ HealerCrash(h) PROVE blobs' = blobs
    BY <2>4, Zenon DEF HealerRequeue, HealerDelete, HealerCrash
  <2> QED
    BY <1>2, <2>1, <2>2, <2>3, <2>4, Zenon DEF HealerStep
<1>3. ASSUME Tick \/ UNCHANGED vars PROVE blobs' = blobs
  BY <1>3, Zenon DEF Tick, vars
<1> QED
  BY <1>1, <1>2, <1>3, Zenon DEF Next

(* A step of a healer keeps what is known of puts and blobs: it copies only *)
(* what it found.                                                           *)
LEMMA BlobsOKHealer ==
    ASSUME TypeInv, PutsOK, BlobsOK, LooksOK, NEW h \in Healers, HealerStep(h), UNCHANGED put
    PROVE  PutsOK' /\ BlobsOK'
<1>1. \A s \in Stores : blobs[s] \subseteq blobs'[s]
  BY BlobsGrow, Zenon DEF Next
<1>2. \A q \in Puts : put[q].landed \subseteq Stores
  BY Zenon DEF TypeInv, TypeOK, PutTypeOK, PutRecord
<1>3. PutsOK'
  BY <1>1, <1>2, Zenon DEF PutsOK, Present, Acked
<1>4. ASSUME NEW k \in Keys, NEW s \in Stores, HealerPut(h, k, s) PROVE BlobsOK'
  <2>1. \E t \in Stores : Present(k, t)
    BY <1>4, Zenon DEF HealerPut, Found, LooksOK
  <2>2. \E p \in Puts : put[p].key = k /\ put[p].landed # {}
    BY <2>1, Zenon DEF Present, BlobsOK
  <2>3. blobs' = [blobs EXCEPT ![s] = @ \cup {k}] \/ blobs' = blobs
    BY <1>4, Zenon DEF HealerPut
  <2>4. blobs \in [Stores -> SUBSET Keys]
    BY Zenon DEF TypeInv, TypeOK, StorageTypeOK
  <2> QED
    BY <2>2, <2>3, <2>4 DEF BlobsOK
<1>5. ASSUME blobs' = blobs PROVE BlobsOK'
  BY <1>5 DEF BlobsOK
<1>6. ASSUME \E k \in Keys, s \in Stores : HealerGet(h, k, s) PROVE blobs' = blobs
  BY <1>6, Zenon DEF HealerGet, storageVars
<1>7. ASSUME HealerRead(h) \/ HealerReadErr(h) \/ HealerOutcome(h) PROVE blobs' = blobs
  BY <1>7, Zenon DEF HealerRead, HealerReadErr, HealerOutcome, storageVars
<1>8. ASSUME HealerRequeue(h) \/ HealerDelete(h) \/ HealerCrash(h) PROVE blobs' = blobs
  BY <1>8, Zenon DEF HealerRequeue, HealerDelete, HealerCrash
<1> QED
  BY <1>3, <1>4, <1>5, <1>6, <1>7, <1>8, Zenon DEF HealerStep

-----------------------------------------------------------------------------
(* Rows and what healers know. *)

(* A logged entry is a new row, under an id that no row and no healer has. *)
LEMMA LogEntryNew ==
    ASSUME TypeInv, NEW sh \in Shards, NEW k \in Keys, NEW age, NEW retry,
           LogEntry(sh, k, age, retry, HeldIds)
    PROVE  \E new :
             /\ wal' = wal \cup {new}
             /\ new.key = k /\ new.age = age /\ new.retry = retry
             /\ \A w \in wal : ~SameRow(w, new)
             /\ \A h \in Healers : \A r \in healer[h].batch : ~SameRow(new, r)
<1> DEFINE i == CHOOSE i \in FreeIds(sh, HeldIds) : TRUE
           new == [shard |-> sh, key |-> k, age |-> age, retry |-> retry, id |-> i]
<1>1. i \in FreeIds(sh, HeldIds)
  BY Zenon DEF LogEntry
<1> HIDE DEF i
<1>2. /\ i \notin HeldIds
      /\ \A w \in wal : w.shard = sh => w.id # i
  BY <1>1, Zenon DEF FreeIds
<1>3. wal' = wal \cup {new}
  BY Zenon DEF LogEntry, i
<1>4. \A h \in Healers : \A r \in healer[h].batch : r.id # i
  BY <1>2 DEF HeldIds
<1>5. /\ new.key = k /\ new.age = age /\ new.retry = retry
      /\ \A w \in wal : ~SameRow(w, new)
      /\ \A h \in Healers : \A r \in healer[h].batch : ~SameRow(new, r)
  BY <1>2, <1>4, Zenon DEF SameRow
<1> HIDE DEF new
<1> QED
  BY <1>3, <1>5, Zenon

(* Logging keeps ids unique, as long as healers hold what they held. *)
LEMMA LogEntryRows ==
    ASSUME RowsOK, HeldOK, NEW new, wal' = wal \cup {new},
           \A w \in wal : ~SameRow(w, new),
           \A h \in Healers : \A r \in healer[h].batch : ~SameRow(new, r),
           \A h \in Healers : healer'[h].batch = healer[h].batch,
           \A h \in Healers : healer'[h].phase = "fetch" => healer[h].phase = "fetch"
    PROVE  RowsOK' /\ HeldOK'
BY DEF RowsOK, HeldOK, SameRow

(* Deleting rows does, too. *)
LEMMA DeleteRows ==
    ASSUME RowsOK, HeldOK, wal' \subseteq wal,
           \A h \in Healers : healer'[h].batch \subseteq healer[h].batch,
           \A h \in Healers : healer'[h].phase = "fetch" =>
                                healer[h].phase = "fetch" \/ healer'[h].batch = {}
    PROVE  RowsOK' /\ HeldOK'
BY Zenon DEF RowsOK, HeldOK

(* A put logs its row under a free id. *)
LEMMA RowsPut ==
    ASSUME TypeInv, RowsOK, HeldOK, NEW p \in Puts, PutStep(p, HeldIds), UNCHANGED healer
    PROVE  RowsOK' /\ HeldOK'
<1>1. ASSUME NEW k \in Keys, NEW sh \in Shards, NEW age, LogEntry(sh, k, age, 0, HeldIds)
      PROVE  RowsOK' /\ HeldOK'
  <2>1. PICK new :
          /\ wal' = wal \cup {new}
          /\ \A w \in wal : ~SameRow(w, new)
          /\ \A h \in Healers : \A r \in healer[h].batch : ~SameRow(new, r)
    BY <1>1, LogEntryNew, Zenon
  <2> QED
    BY <2>1, LogEntryRows, Zenon
<1>2. ASSUME wal' \subseteq wal PROVE RowsOK' /\ HeldOK'
  BY <1>2, DeleteRows, Zenon
<1>3. ASSUME PutLog(p, HeldIds) \/ PutLogErr(p, HeldIds) PROVE RowsOK' /\ HeldOK'
  BY <1>1, <1>2, <1>3, Zenon DEF PutLog, PutLogErr
<1>4. ASSUME NEW s \in Stores, PutLand(p, s) \/ PutOk(p, s) \/ PutErr(p, s) PROVE wal' \subseteq wal
  BY <1>4, Zenon DEF PutLand, PutOk, PutErr, storageVars
<1>5. ASSUME PutDelete(p) \/ PutDeleteErr(p) \/ PutCrash(p) PROVE wal' \subseteq wal
  BY <1>5, Zenon DEF PutDelete, DeleteByKey, PutDeleteErr, PutCrash
<1> QED
  BY <1>2, <1>3, <1>4, <1>5, Zenon DEF PutStep

(* A row whose age is saturated does not change when time passes. *)
LEMMA OldRowStays ==
    ASSUME NEW r \in Row, r.age = MinAge
    PROVE  [r EXCEPT !.age = Older(@, MinAge)] = r
<1>1. Older(r.age, MinAge) = r.age
  BY StorageAssumption DEF Older
<1> QED
  BY <1>1, Zenon DEF Row

(* Rows grow older; their ids stay. *)
LEMMA RowsTick ==
    ASSUME TypeInv, RowsOK, HeldOK, Tick
    PROVE  RowsOK' /\ HeldOK'
<1> DEFINE aged(r) == [r EXCEPT !.age = Older(@, MinAge)]
<1>1. wal' = {aged(r) : r \in wal} /\ healer' = healer
  BY Zenon DEF Tick
<1>2. wal \subseteq Row
  BY Zenon DEF TypeInv, TypeOK, StorageTypeOK
<1>3. \A r \in wal : aged(r).shard = r.shard /\ aged(r).id = r.id
  BY <1>2, Zenon DEF Row
<1>4. \A r \in wal : r.age = MinAge => aged(r) = r
  BY <1>2, OldRowStays, Zenon
<1> HIDE DEF aged
<1>5. RowsOK'
  BY <1>1, <1>3 DEF RowsOK, SameRow
<1>6. HeldOK'
  BY <1>1, <1>3, <1>4 DEF HeldOK, SameRow
<1> QED
  BY <1>5, <1>6, Zenon

(* The new record of the healer that takes a step; the others keep theirs. *)
LEMMA HealerOthers ==
    ASSUME TypeInv, NEW h \in Healers, HealerStep(h)
    PROVE  \A g \in Healers \ {h} : healer'[g] = healer[g]
<1> USE DEF TypeInv, TypeOK, HealerTypeOK
<1>1. ASSUME NEW k \in Keys, NEW s \in Stores, HealerGet(h, k, s) \/ HealerPut(h, k, s)
      PROVE  \A g \in Healers \ {h} : healer'[g] = healer[g]
  BY <1>1, Zenon DEF HealerGet, HealerPut
<1>2. ASSUME HealerRead(h) \/ HealerReadErr(h) \/ HealerOutcome(h) \/ HealerRequeue(h)
      PROVE  \A g \in Healers \ {h} : healer'[g] = healer[g]
  BY <1>2, Zenon DEF HealerRead, HealerReadErr, HealerOutcome, HealerRequeue
<1>3. ASSUME HealerDelete(h) \/ HealerCrash(h)
      PROVE  \A g \in Healers \ {h} : healer'[g] = healer[g]
  BY <1>3, Zenon DEF HealerDelete, HealerCrash
<1> QED
  BY <1>1, <1>2, <1>3, Zenon DEF HealerStep

(* A healer step other than a get or a put of a blob asks nothing new. *)
LEMMA HealerLook ==
    ASSUME TypeInv, NEW h \in Healers,
           \/ HealerRead(h) \/ HealerReadErr(h) \/ HealerOutcome(h)
           \/ HealerRequeue(h) \/ HealerDelete(h) \/ HealerCrash(h)
    PROVE  healer'[h].look = Unasked \/ healer'[h].look = healer[h].look
<1> USE DEF TypeInv, TypeOK, HealerTypeOK
<1>a. healer[h] \in HealerRecord
  BY Zenon
<1>1. CASE HealerRead(h)
  BY <1>1 DEF HealerRead
<1>5. CASE HealerCrash(h)
  <2>1. healer' = [healer EXCEPT ![h] = Started] /\ Started.look = Unasked
    BY <1>5, Zenon DEF HealerCrash, Started
  <2> QED
    BY <2>1, Zenon
<1>2. CASE HealerReadErr(h)
  BY <1>2, <1>a, Zenon DEF HealerReadErr, Started, Shrunk, HealerRecord
<1>3. CASE HealerOutcome(h) \/ HealerRequeue(h)
  <2>1. PICK entries : healer' = [healer EXCEPT ![h] = Requeuing(@, entries)]
    BY <1>3, Zenon DEF HealerOutcome, HealerRequeue
  <2> QED
    BY <2>1, <1>a, Zenon DEF Requeuing, HealerRecord
<1>4. CASE HealerDelete(h)
  <2>1. PICK sent : healer' = [healer EXCEPT ![h] = Deleted(@, sent)]
    BY <1>4, Zenon DEF HealerDelete
  <2> QED
    BY <2>1, <1>a, Zenon DEF Deleted, HealerRecord
<1> QED
  BY <1>1, <1>2, <1>3, <1>4, <1>5, Zenon

(* What fetch_blob and try_heal learn of one store, from a get or a put. *)
HealerAnswered(h, k, s, answer) ==
    /\ healer' = [healer EXCEPT ![h].look[k][s] = answer]
    /\ healer[h].phase = "heal" /\ wal' = wal
    /\ healer[h].look[k][s] \in {"asked", "none", "err"}
    /\ Present(k, s) => answer # "none"
    /\ answer \in {"some", "healed"} => k \in blobs'[s]
    /\ answer \in {"healed", "failed"} => Found(h, k)

(* Looking a key up and copying it both end in an answer for one store. *)
LEMMA HealerAnswers ==
    ASSUME TypeInv, NEW h \in Healers, NEW k \in Keys, NEW s \in Stores,
           HealerGet(h, k, s) \/ HealerPut(h, k, s)
    PROVE  \E answer : HealerAnswered(h, k, s, answer)
<1>1. CASE HealerGet(h, k, s)
  <2> DEFINE seen == IF Present(k, s) THEN "some" ELSE "none"
  <2>1. /\ healer[h].phase = "heal" /\ wal' = wal /\ healer[h].look[k][s] = "asked"
        /\ blobs' = blobs
        /\ \/ healer' = [healer EXCEPT ![h].look[k][s] = seen]
           \/ healer' = [healer EXCEPT ![h].look[k][s] = "err"]
    BY <1>1, Zenon DEF HealerGet, storageVars
  <2>2. /\ Present(k, s) => seen # "none"
        /\ seen = "some" => k \in blobs[s]
        /\ seen \in {"some", "none"}
    BY Zenon DEF Present
  <2> HIDE DEF seen
  <2>3. CASE healer' = [healer EXCEPT ![h].look[k][s] = seen]
    <3>1. HealerAnswered(h, k, s, seen)
      BY <2>1, <2>2, <2>3, Zenon DEF HealerAnswered
    <3> QED
      BY <3>1, Zenon
  <2>4. CASE healer' = [healer EXCEPT ![h].look[k][s] = "err"]
    <3>1. HealerAnswered(h, k, s, "err")
      BY <2>1, <2>4, Zenon DEF HealerAnswered
    <3> QED
      BY <3>1, Zenon
  <2> QED
    BY <2>1, <2>3, <2>4, Zenon
<1>2. CASE HealerPut(h, k, s)
  <2>1. /\ healer[h].phase = "heal" /\ wal' = wal /\ Found(h, k)
        /\ healer[h].look[k][s] \in {"none", "err"}
        /\ \/ /\ blobs' = [blobs EXCEPT ![s] = @ \cup {k}]
              /\ healer' = [healer EXCEPT ![h].look[k][s] = "healed"]
           \/ healer' = [healer EXCEPT ![h].look[k][s] = "failed"]
    BY <1>2, Zenon DEF HealerPut
  <2>2. CASE /\ blobs' = [blobs EXCEPT ![s] = @ \cup {k}]
             /\ healer' = [healer EXCEPT ![h].look[k][s] = "healed"]
    <3>1. k \in blobs'[s]
      BY <2>2, Zenon DEF TypeInv, TypeOK, StorageTypeOK
    <3>2. HealerAnswered(h, k, s, "healed")
      BY <2>1, <2>2, <3>1, Zenon DEF HealerAnswered
    <3> QED
      BY <3>2, Zenon
  <2>3. CASE healer' = [healer EXCEPT ![h].look[k][s] = "failed"]
    <3>1. HealerAnswered(h, k, s, "failed")
      BY <2>1, <2>3, Zenon DEF HealerAnswered
    <3> QED
      BY <3>1, Zenon
  <2> QED
    BY <2>1, <2>2, <2>3, Zenon
<1> QED
  BY <1>1, <1>2, Zenon

(* What a healer saw in a store is still there, and it heals from a find. *)
LEMMA LooksStep ==
    ASSUME TypeInv, LooksOK, [Next]_vars
    PROVE  LooksOK'
<1>0. \A s \in Stores : blobs[s] \subseteq blobs'[s]
  BY BlobsGrow, Zenon
<1>1. ASSUME healer' = healer PROVE LooksOK'
  BY <1>0, <1>1, Zenon DEF LooksOK, Present, Found
<1>2. ASSUME NEW h \in Healers, HealerStep(h) PROVE LooksOK'
  <2>0. \A g \in Healers \ {h} : healer'[g] = healer[g]
    BY <1>2, HealerOthers, Zenon
  <2>1. ASSUME healer'[h].look = Unasked \/ healer'[h].look = healer[h].look PROVE LooksOK'
    BY <1>0, <2>0, <2>1 DEF LooksOK, Present, Found, Unasked
  <2>2. ASSUME NEW k \in Keys, NEW s \in Stores, HealerGet(h, k, s) \/ HealerPut(h, k, s)
        PROVE  LooksOK'
    <3>1. PICK answer : HealerAnswered(h, k, s, answer)
      BY <2>2, HealerAnswers, Zenon
    <3>2. healer \in [Healers -> HealerRecord] /\ healer[h].look \in [Keys -> [Stores -> Looks]]
      BY Zenon DEF TypeInv, TypeOK, HealerTypeOK, HealerRecord
    <3>3. healer'[h].look = [healer[h].look EXCEPT ![k][s] = answer]
      BY <3>1, <3>2, Zenon DEF HealerAnswered, HealerRecord
    <3>4. \A j \in Keys, t \in Stores : <<j, t>> # <<k, s>> =>
            healer'[h].look[j][t] = healer[h].look[j][t]
      BY <3>2, <3>3
    <3>5. healer'[h].look[k][s] = answer
      BY <3>2, <3>3, Zenon
    <3>6. \A j \in Keys : Found(h, j) => Found(h, j)'
      BY <3>1, <3>4, Zenon DEF HealerAnswered, Found
    <3>7. ASSUME NEW j \in Keys, NEW t \in Stores
          PROVE  /\ healer'[h].look[j][t] \in {"some", "healed"} => Present(j, t)'
                 /\ healer'[h].look[j][t] \in {"healed", "failed"} => Found(h, j)'
      <4>1. CASE <<j, t>> = <<k, s>>
        BY <4>1, <3>1, <3>5, <3>6, Zenon DEF HealerAnswered, Present
      <4>2. CASE <<j, t>> # <<k, s>>
        BY <4>2, <1>0, <3>4, <3>6, Zenon DEF LooksOK, Present
      <4> QED
        BY <4>1, <4>2, Zenon
    <3>8. ASSUME NEW g \in Healers \ {h}, NEW j \in Keys, NEW t \in Stores
          PROVE  /\ healer'[g].look[j][t] \in {"some", "healed"} => Present(j, t)'
                 /\ healer'[g].look[j][t] \in {"healed", "failed"} => Found(g, j)'
      BY <3>8, <1>0, <2>0 DEF LooksOK, Present, Found
    <3> QED
      BY <3>7, <3>8, Zenon DEF LooksOK
  <2> QED
    BY <1>2, <2>1, <2>2, HealerLook, Zenon DEF HealerStep
<1> QED
  BY <1>1, <1>2, Zenon DEF Next, Tick, vars

(* What each step of a healer does to its own batch. *)
LEMMA HealerBatch ==
    ASSUME TypeInv, HeldOK, NEW h \in Healers
    PROVE  /\ HealerRead(h) =>
                /\ healer'[h].batch \subseteq wal /\ \A r \in healer'[h].batch : r.age = MinAge
                /\ healer[h].batch = {} /\ healer'[h].look = Unasked /\ UNCHANGED <<blobs, wal>>
                /\ healer'[h].phase = ReadPhase(healer'[h].batch)
           /\ HealerReadErr(h) \/ HealerCrash(h) =>
                healer'[h].batch = {} /\ UNCHANGED <<blobs, wal>>
           /\ HealerOutcome(h) =>
                /\ healer[h].phase = "heal" /\ healer'[h].phase \in {"requeue", "cleanup"}
                /\ healer'[h].batch = healer[h].batch /\ healer'[h].look = healer[h].look
                /\ healer'[h].requeue = ToEnqueue(h) /\ UNCHANGED <<blobs, wal>>
<1> USE DEF TypeInv, TypeOK, HealerTypeOK
<1>a. healer[h] \in HealerRecord
  BY Zenon
<1>1. ASSUME HealerRead(h)
      PROVE  /\ healer'[h].batch \subseteq wal /\ \A r \in healer'[h].batch : r.age = MinAge
             /\ healer[h].batch = {} /\ healer'[h].look = Unasked /\ UNCHANGED <<blobs, wal>>
             /\ healer'[h].phase = ReadPhase(healer'[h].batch)
  <2>1. PICK batch \in ReadEntries(ReadRange(h), healer[h].fetch) :
          /\ healer[h].phase = "fetch"
          /\ healer' = [healer EXCEPT ![h] =
             [phase |-> ReadPhase(batch),
              current |-> GrownFetch(healer[h].fetch, healer[h].current),
              fetch |-> GrownFetch(healer[h].fetch, healer[h].current),
              batch |-> batch, look |-> Unasked, requeue |-> {}]]
          /\ UNCHANGED storageVars
    BY <1>1, Zenon DEF HealerRead
  <2>2. batch \subseteq wal /\ \A r \in batch : r.age = MinAge
    BY ReadEntriesOld, Zenon
  <2> QED
    BY <2>1, <2>2, Zenon DEF HeldOK, storageVars
<1>2. ASSUME HealerReadErr(h) PROVE healer'[h].batch = {} /\ UNCHANGED <<blobs, wal>>
  <2>1. healer[h].batch = {}
    BY <1>2, Zenon DEF HealerReadErr, HeldOK
  <2>2. healer' = [healer EXCEPT ![h] = Started] \/ healer' = [healer EXCEPT ![h] = Shrunk(@)]
    BY <1>2, Zenon DEF HealerReadErr
  <2>3. Shrunk(healer[h]).batch = {} /\ Started.batch = {}
    BY <2>1, <1>a, Zenon DEF Shrunk, Started, HealerRecord
  <2> QED
    BY <2>2, <2>3, <1>2, Zenon DEF HealerReadErr
<1>3. ASSUME HealerCrash(h) PROVE healer'[h].batch = {} /\ UNCHANGED <<blobs, wal>>
  BY <1>3, Zenon DEF HealerCrash, Started
<1>4. ASSUME HealerOutcome(h)
      PROVE  /\ healer[h].phase = "heal" /\ healer'[h].phase \in {"requeue", "cleanup"}
             /\ healer'[h].batch = healer[h].batch /\ healer'[h].look = healer[h].look
             /\ healer'[h].requeue = ToEnqueue(h) /\ UNCHANGED <<blobs, wal>>
  <2>1. /\ healer' = [healer EXCEPT ![h] = Requeuing(@, ToEnqueue(h))]
        /\ healer[h].phase = "heal" /\ UNCHANGED <<blobs, wal>>
    BY <1>4, Zenon DEF HealerOutcome, storageVars
  <2>2. LET new == Requeuing(healer[h], ToEnqueue(h))
        IN  /\ new.phase \in {"requeue", "cleanup"} /\ new.batch = healer[h].batch
            /\ new.look = healer[h].look /\ new.requeue = ToEnqueue(h)
    BY <1>a, Zenon DEF Requeuing, HealerRecord
  <2> QED
    BY <2>1, <2>2, Zenon
<1> QED
  BY <1>1, <1>2, <1>3, <1>4, Zenon

(* ... which changes nothing else of what the healer holds. *)
LEMMA HealerLookup ==
    ASSUME TypeInv, NEW h \in Healers, NEW k \in Keys, NEW s \in Stores,
           HealerGet(h, k, s) \/ HealerPut(h, k, s)
    PROVE  /\ healer'[h].batch = healer[h].batch /\ healer'[h].phase = healer[h].phase
           /\ healer'[h].requeue = healer[h].requeue /\ healer[h].phase = "heal" /\ wal' = wal
           /\ \A j \in Keys, t \in Stores : <<j, t>> # <<k, s>> =>
                healer'[h].look[j][t] = healer[h].look[j][t]
           /\ Present(k, s) => healer'[h].look[k][s] # "none"
<1> USE DEF TypeInv, TypeOK, HealerTypeOK
<1>1. PICK answer : HealerAnswered(h, k, s, answer)
  BY HealerAnswers, Zenon
<1>2. healer[h] \in HealerRecord /\ healer[h].look \in [Keys -> [Stores -> Looks]]
  BY Zenon DEF HealerRecord
<1>3. /\ healer'[h].batch = healer[h].batch /\ healer'[h].phase = healer[h].phase
      /\ healer'[h].requeue = healer[h].requeue
      /\ healer'[h].look = [healer[h].look EXCEPT ![k][s] = answer]
  BY <1>1, <1>2, Zenon DEF HealerAnswered, HealerRecord
<1>4. /\ \A j \in Keys, t \in Stores : <<j, t>> # <<k, s>> =>
           healer'[h].look[j][t] = healer[h].look[j][t]
      /\ healer'[h].look[k][s] = answer
  BY <1>2, <1>3
<1> QED
  BY <1>1, <1>3, <1>4, Zenon DEF HealerAnswered

(* A requeue logs one row of the batch again, with a retry more if no      *)
(* store has the blob.                                                     *)
LEMMA HealerRequeueEffect ==
    ASSUME TypeInv, NEW h \in Healers, HealerRequeue(h)
    PROVE  \E r \in healer[h].requeue, sh \in Shards :
             /\ healer[h].phase = "requeue" /\ r.key \in Keys /\ r.retry \in 0 .. MaxRetries
             /\ LogEntry(sh, r.key, 0, IF MissingBlob(h, r.key) THEN r.retry + 1 ELSE r.retry, HeldIds)
             /\ healer'[h].batch = healer[h].batch /\ healer'[h].look = healer[h].look
             /\ healer'[h].requeue = healer[h].requeue \ {r}
             /\ healer'[h].phase \in {"requeue", "cleanup"} /\ blobs' = blobs
<1>1. PICK r \in healer[h].requeue, sh \in Shards :
        /\ healer[h].phase = "requeue"
        /\ LogEntry(sh, r.key, 0, IF MissingBlob(h, r.key) THEN r.retry + 1 ELSE r.retry, HeldIds)
        /\ healer' = [healer EXCEPT ![h] = Requeuing(@, @.requeue \ {r})]
        /\ UNCHANGED <<blobs, faults>>
  BY Zenon DEF HealerRequeue
<1> DEFINE new == Requeuing(healer[h], healer[h].requeue \ {r})
<1>2. healer[h] \in HealerRecord /\ healer[h].requeue \subseteq Row
  BY Zenon DEF TypeInv, TypeOK, HealerTypeOK, HealerRecord
<1>3. /\ new.batch = healer[h].batch /\ new.look = healer[h].look
      /\ new.requeue = healer[h].requeue \ {r} /\ new.phase \in {"requeue", "cleanup"}
  BY <1>2, Zenon DEF Requeuing, HealerRecord
<1>4. healer'[h] = new
  BY <1>1, Zenon DEF TypeInv, TypeOK, HealerTypeOK
<1>5. r.key \in Keys /\ r.retry \in 0 .. MaxRetries
  BY <1>2, Zenon DEF Row
<1> HIDE DEF new
<1>6. /\ healer'[h].batch = healer[h].batch /\ healer'[h].look = healer[h].look
      /\ healer'[h].requeue = healer[h].requeue \ {r}
      /\ healer'[h].phase \in {"requeue", "cleanup"}
  BY <1>3, <1>4, Zenon
<1> QED
  BY <1>1, <1>5, <1>6, Zenon

(* A delete removes only rows the healer read, by id and shard. *)
LEMMA HealerDeleteEffect ==
    ASSUME TypeInv, NEW h \in Healers, HealerDelete(h)
    PROVE  /\ healer[h].phase = "cleanup" /\ blobs' = blobs /\ wal' \subseteq wal
           /\ healer'[h].batch \subseteq healer[h].batch
           /\ healer'[h].phase = "fetch" => healer'[h].batch = {}
           /\ \A w \in wal \ wal' : \E r \in healer[h].batch :
                w.id = r.id /\ w.shard = ReadShardId(h, r)
<1>1. PICK sh \in {ReadShardId(h, r) : r \in healer[h].batch} :
        LET sent == {r \in healer[h].batch : ReadShardId(h, r) = sh}
        IN  /\ healer[h].phase = "cleanup"
            /\ DeleteIds(sh, {r.id : r \in sent})
            /\ healer' = [healer EXCEPT ![h] = Deleted(@, sent)]
            /\ UNCHANGED <<blobs, faults>>
  BY Zenon DEF HealerDelete
<1> DEFINE sent == {r \in healer[h].batch : ReadShardId(h, r) = sh}
<1>2. healer[h] \in HealerRecord
  BY Zenon DEF TypeInv, TypeOK, HealerTypeOK
<1>3. wal' \subseteq wal /\ \A w \in wal \ wal' : \E r \in sent : w.id = r.id /\ w.shard = sh
  BY <1>1, Zenon DEF DeleteIds
<1>4. healer'[h] = Deleted(healer[h], sent)
  BY <1>1, Zenon DEF TypeInv, TypeOK, HealerTypeOK
<1>5. \A w \in wal \ wal' : \E r \in healer[h].batch : w.id = r.id /\ w.shard = ReadShardId(h, r)
  BY <1>3, Zenon
<1>6. ASSUME NEW some
      PROVE  /\ Deleted(healer[h], some).batch \subseteq healer[h].batch
             /\ \/ Deleted(healer[h], some).batch = {}
                \/ Deleted(healer[h], some).phase = healer[h].phase
  BY <1>2, Zenon DEF Deleted, HealerRecord
<1>7. /\ healer'[h].batch \subseteq healer[h].batch
      /\ healer'[h].batch = {} \/ healer'[h].phase = healer[h].phase
  BY <1>4, <1>6, Zenon
<1> QED
  BY <1>1, <1>3, <1>5, <1>7, Zenon

(* Row ids stay unique, and held rows true, in every step of a healer. *)
LEMMA RowsHealer ==
    ASSUME TypeInv, RowsOK, HeldOK, NEW h \in Healers, HealerStep(h)
    PROVE  RowsOK' /\ HeldOK'
<1>0. \A g \in Healers \ {h} : healer'[g] = healer[g]
  BY HealerOthers, Zenon
<1>1. ASSUME HealerRead(h) PROVE RowsOK' /\ HeldOK'
  <2>1. /\ healer'[h].batch \subseteq wal /\ \A r \in healer'[h].batch : r.age = MinAge
        /\ healer'[h].phase = ReadPhase(healer'[h].batch) /\ wal' = wal
    BY <1>1, HealerBatch, Zenon
  <2>2. healer'[h].phase = "fetch" => healer'[h].batch = {}
    BY <2>1, Zenon DEF ReadPhase
  <2>3. RowsOK'
    BY <2>1, Zenon DEF RowsOK
  <2>4. HeldOK'
    BY <1>0, <2>1, <2>2, Zenon DEF RowsOK, HeldOK
  <2> QED
    BY <2>3, <2>4, Zenon
<1>2. ASSUME HealerReadErr(h) \/ HealerCrash(h) \/ HealerOutcome(h) PROVE RowsOK' /\ HeldOK'
  <2>1. /\ wal' \subseteq wal /\ healer'[h].batch \subseteq healer[h].batch
        /\ healer'[h].phase # "fetch" \/ healer'[h].batch = {}
    BY <1>2, HealerBatch, Zenon
  <2> QED
    BY <1>0, <2>1, DeleteRows, Zenon
<1>3. ASSUME NEW k \in Keys, NEW s \in Stores, HealerGet(h, k, s) \/ HealerPut(h, k, s)
      PROVE  RowsOK' /\ HeldOK'
  <2>1. wal' = wal /\ healer'[h].batch = healer[h].batch /\ healer'[h].phase = healer[h].phase
    BY <1>3, HealerLookup, Zenon
  <2> QED
    BY <1>0, <2>1, DeleteRows, Zenon
<1>4. ASSUME HealerRequeue(h) PROVE RowsOK' /\ HeldOK'
  <2>1. PICK r \in healer[h].requeue, sh \in Shards :
          /\ r.key \in Keys
          /\ LogEntry(sh, r.key, 0, IF MissingBlob(h, r.key) THEN r.retry + 1 ELSE r.retry, HeldIds)
          /\ healer'[h].batch = healer[h].batch /\ healer'[h].phase # "fetch"
    BY <1>4, HealerRequeueEffect, Zenon
  <2>2. PICK new :
          /\ wal' = wal \cup {new}
          /\ \A w \in wal : ~SameRow(w, new)
          /\ \A g \in Healers : \A q \in healer[g].batch : ~SameRow(new, q)
    BY <2>1, LogEntryNew, Zenon
  <2> QED
    BY <1>0, <2>1, <2>2, LogEntryRows, Zenon
<1>5. ASSUME HealerDelete(h) PROVE RowsOK' /\ HeldOK'
  <2>1. /\ wal' \subseteq wal /\ healer'[h].batch \subseteq healer[h].batch
        /\ healer'[h].phase = "fetch" => healer'[h].batch = {}
    BY <1>5, HealerDeleteEffect, Zenon
  <2> QED
    BY <1>0, <2>1, DeleteRows, Zenon
<1> QED
  BY <1>1, <1>2, <1>3, <1>4, <1>5, Zenon DEF HealerStep

-----------------------------------------------------------------------------
(* Rows that watch over puts. *)

(* Every healer reads from shard 0 on, and heals: `--shard-range` does not  *)
(* skip shards and `--drain-only` is not given.                             *)
HealsFromFirstShard == ~DrainOnly /\ \A h \in Healers : FirstShard[h] = 0

(* A row that waited long enough for its last retry has outlived the put:   *)
(* MAX_WAL_RETRIES times the minimum age is longer than the put timeout.    *)
LEMMA LastRetryIsLate ==
    ASSUME TypeInv, NEW p \in Puts, NEW r, r.retry = MaxRetries, r.age = MinAge, Fresh(r, p)
    PROVE  put[p].age > PutTimeout
<1>1. put[p].age \in Int
  BY TypesOfPuts, PutFields, Zenon
<1>2. (MaxRetries - 1) * MinAge + MinAge <= put[p].age
  BY StorageAssumption, Zenon DEF Fresh
<1>3. (MaxRetries - 1) * MinAge + MinAge = MaxRetries * MinAge
  BY StorageAssumption, OneMoreRound, Zenon
<1>4. MaxRetries * MinAge \in Int /\ PutTimeout \in Int /\ PutTimeout < MaxRetries * MinAge
  BY StorageAssumption, MultiplexAssumption
<1> QED
  BY <1>1, <1>2, <1>3, <1>4

(* A whole key stays whole. *)
LEMMA WholeStays ==
    ASSUME TypeInv, [Next]_vars, NEW k, Replicated(k)
    PROVE  Replicated(k)'
BY BlobsGrow, Zenon DEF Replicated, Present

(* A step of a put leaves every put covered, itself included. *)
LEMMA CoveredPut ==
    ASSUME IInv, NEW p \in Puts, PutStep(p, HeldIds), UNCHANGED healer
    PROVE  CoveredOK'
<1> USE DEF IInv
<1>0. \A k : Replicated(k) => Replicated(k)'
  BY WholeStays, Zenon DEF Next
<1>a. ASSUME wal \subseteq wal', NEW q \in Puts, put'[q].key = put[q].key,
             put'[q].landed = put[q].landed, put[q].state # "idle",
             put[q].landed = {} => put'[q].age = put[q].age
      PROVE  Covered(q)'
  <2>1. CASE Replicated(put[q].key)
    BY <2>1, <1>0, <1>a, Zenon DEF Covered, Replicated, Present
  <2>2. CASE Unlanded(q)
    BY <2>2, <1>a, Zenon DEF Unlanded, Covered
  <2>3. ASSUME NEW r \in wal, Watches(r, q) PROVE Watches(r, q)'
    BY <2>3, <1>a, Zenon DEF Watches, Fresh, Spared
  <2> QED
    BY <2>1, <2>2, <2>3, <1>a, Zenon DEF CoveredOK, Covered
<1>1. CASE PutLog(p, HeldIds)
  <2>1. PICK k \in Keys, sh \in Shards, age \in 0 .. MinAge :
          /\ LogEntry(sh, k, age, 0, HeldIds)
          /\ put' = [put EXCEPT ![p] =
                     [state |-> "writing", key |-> k, shard |-> sh, age |-> 0, clean |-> FALSE,
                      reply |-> Send(NoReplies, MainStores), landed |-> {}]]
    BY <1>1, Zenon DEF PutLog
  <2>a. LogEntry(sh, k, age, 0, HeldIds)
    BY <2>1, Zenon
  <2>2. PICK new :
          /\ wal' = wal \cup {new}
          /\ new.key = k /\ new.age = age /\ new.retry = 0
          /\ \A w \in wal : ~SameRow(w, new)
          /\ \A h \in Healers : \A r \in healer[h].batch : ~SameRow(new, r)
    BY <2>a, LogEntryNew
  <2>3. put'[p].key = k
    BY <2>1, Zenon DEF TypeInv, TypeOK, PutTypeOK
  <2>4. Watches(new, p)'
    BY <2>2, <2>3, Zenon DEF Watches, Fresh, SameRow
  <2>5. \A q \in Puts \ {p} : put'[q] = put[q]
    BY <2>1, Zenon DEF TypeInv, TypeOK, PutTypeOK
  <2> QED
    BY <2>2, <2>4, <2>5, <1>a, Zenon DEF CoveredOK, Covered
<1>2. CASE PutLogErr(p, HeldIds)
  <2>1. wal \subseteq wal'
    BY <1>2, Zenon DEF PutLogErr, LogEntry
  <2>2. put'[p].state = "failed"
    BY <1>2 DEF PutLogErr, TypeInv, TypeOK, PutTypeOK, PutRecord
  <2>3. Unlanded(p)' /\ \A q \in Puts \ {p} : put'[q] = put[q]
    BY <1>2, <2>2, TypesOfPuts, PutLogEffect, Zenon DEF Unlanded, TooOld
  <2> QED
    BY <2>1, <2>3, <1>a, Zenon DEF CoveredOK, Covered
<1>3. ASSUME NEW s \in Stores, PutLand(p, s) PROVE CoveredOK'
  <2>1. /\ \A q \in Puts \ {p} : put'[q] = put[q]
        /\ put[p].state # "idle" /\ put[p].age <= PutTimeout
        /\ put'[p].key = put[p].key /\ put'[p].landed = put[p].landed \cup {s}
    BY <1>3, TypesOfPuts, PutLandEffect, Zenon
  <2>2. wal' = wal
    BY <1>3, Zenon DEF PutLand
  <2>3. ~Unlanded(p) /\ PutTimeout \in Int /\ put[p].age \in Int
    BY <2>1, Ages, TypesOfPuts, PutFields, Zenon DEF Unlanded
  <2>4. ASSUME NEW r \in wal, Watches(r, p) PROVE Watches(r, p)'
    <3>1. ASSUME NEW h \in Healers, r \in healer[h].batch PROVE Spared(h, r, p)'
      <4>1. Spared(h, r, p)
        BY <2>4, <3>1, Zenon DEF Watches
      <4>2. CASE put[p].landed # {} \/ r.retry # MaxRetries
        BY <4>1, <4>2, <2>1, Zenon DEF Spared
      <4>3. CASE put[p].landed = {} /\ r.retry = MaxRetries
        <5>1. Fresh(r, p) /\ r.age = MinAge
          BY <4>3, <2>4, <3>1, Zenon DEF Watches, HeldOK
        <5>2. put[p].age > PutTimeout
          BY <5>1, <4>3, LastRetryIsLate, Zenon
        <5> QED
          BY <5>2, <2>1, <2>3
      <4> QED
        BY <4>2, <4>3, Zenon
    <3> QED
      BY <3>1, <2>1, <2>4, Zenon DEF Watches
  <2>5. Covered(p)'
    BY <2>1, <2>2, <2>3, <2>4, <1>0, Zenon DEF CoveredOK, Covered, Replicated, Present
  <2> QED
    BY <2>1, <2>2, <2>5, <1>a, Zenon DEF CoveredOK
<1>4. ASSUME Notes(p), ~PutDelete(p) PROVE CoveredOK'
  <2>1. Noted(p)
    BY <1>4, TypesOfPuts, NotesEffect, Zenon
  <2>2. wal' = wal
    BY <1>4, Zenon DEF Notes, PutOk, PutErr, PutDeleteErr, PutCrash, storageVars
  <2> QED
    BY <2>1, <2>2, <1>a, Zenon DEF CoveredOK, Noted
<1>5. ASSUME PutDelete(p) PROVE CoveredOK'
  <2>1. Noted(p)
    BY <1>5, TypesOfPuts, NotesEffect, Zenon DEF Notes
  <2>2. Replicated(put[p].key)
    BY <1>5, Zenon DEF PutDelete, PutsOK, Replicated
  <2>3. \A r \in wal : r.key # put[p].key => r \in wal'
    BY <1>5, Zenon DEF PutDelete, DeleteByKey
  <2>4. ASSUME NEW q \in Puts, put'[q].state # "idle", put[q].key # put[p].key
        PROVE  Covered(q)'
    <3>1. put'[q] = put[q]
      BY <2>1, <2>4, Zenon DEF Noted
    <3>2. ASSUME NEW r \in wal, Watches(r, q) PROVE r \in wal' /\ Watches(r, q)'
      BY <3>1, <3>2, <2>3, <2>4, Zenon DEF Watches, Fresh, Spared
    <3> QED
      BY <3>1, <3>2, <2>4, <1>0, Zenon DEF CoveredOK, Covered, Unlanded, Replicated, Present
  <2>5. ASSUME NEW q \in Puts, put[q].key = put[p].key PROVE Covered(q)'
    BY <2>1, <2>2, <2>5, <1>0, Zenon DEF Noted, Covered, Replicated, Present
  <2> QED
    BY <2>4, <2>5, Zenon DEF CoveredOK
<1> QED
  BY <1>1, <1>2, <1>3, <1>4, <1>5, Zenon DEF PutStep, Notes

(* Time ages the row no faster than the put it watches. *)
LEMMA CoveredTick ==
    ASSUME IInv, Tick
    PROVE  CoveredOK'
<1> USE DEF IInv
<1> DEFINE aged(r) == [r EXCEPT !.age = Older(@, MinAge)]
<1>1. wal' = {aged(r) : r \in wal} /\ healer' = healer /\ blobs' = blobs
  BY Zenon DEF Tick
<1>2. wal \subseteq Row
  BY Zenon DEF TypeInv, TypeOK, StorageTypeOK
<1>3. \A r \in wal : /\ aged(r).shard = r.shard /\ aged(r).id = r.id /\ aged(r).key = r.key
                     /\ aged(r).retry = r.retry /\ aged(r).age \in Int /\ aged(r).age <= r.age + 1
                     /\ r.age \in Int /\ r.retry \in Nat
  BY <1>2, StorageAssumption DEF Row, Older
<1> HIDE DEF aged
<1>4. SUFFICES ASSUME NEW p \in Puts, put'[p].state # "idle" PROVE Covered(p)'
  BY Zenon DEF CoveredOK
<1>5. put[p] \in PutRecord /\ put[p].age \in PutAges
  BY Zenon DEF TypeInv, TypeOK, PutTypeOK, PutRecord
<1>6. /\ put'[p].state = put[p].state /\ put'[p].key = put[p].key /\ put'[p].landed = put[p].landed
      /\ put[p].state \in {"writing", "failed", "dead"} => put'[p].age = Older(put[p].age, TooOld)
      /\ put[p].state \notin {"writing", "failed", "dead"} => put'[p].age = put[p].age
  BY <1>5, Zenon DEF Tick, PutRecord
<1>7. put[p].landed = {} => put[p].state \in {"writing", "failed", "dead"}
  BY <1>4, <1>5, <1>6, TypesOfPuts, QuorumLanded, Zenon DEF PutRecord, PutStates, Acked
<1>8. CASE Replicated(put[p].key)
  BY <1>8, <1>1, <1>6, Zenon DEF Covered, Replicated, Present
<1>9. CASE put[p].landed = {} /\ put[p].age = TooOld
  <2>1. put'[p].age = TooOld
    BY <1>6, <1>9, Ages DEF Older
  <2> QED
    BY <2>1, <1>6, <1>9, Zenon DEF Covered, Unlanded, TooOld
<1>10. ASSUME NEW r \in wal, Watches(r, p), ~(put[p].landed = {} /\ put[p].age = TooOld)
       PROVE  Watches(aged(r), p)'
  <2>1. aged(r).key = put'[p].key
    BY <1>10, <1>3, <1>6, Zenon DEF Watches
  <2>2. ASSUME put[p].landed = {} PROVE Fresh(aged(r), p)'
    <3>1. put'[p].age = put[p].age + 1 /\ put[p].age \in Int
      <4>1. put[p].age \in Int /\ put[p].age <= TooOld /\ put[p].age # TooOld /\ TooOld \in Int
        BY <2>2, <1>10, Ages, TypesOfPuts, PutFields, Zenon
      <4>2. put'[p].age = Older(put[p].age, TooOld)
        BY <2>2, <1>6, <1>7, Zenon
      <4> QED
        BY <4>1, <4>2 DEF Older
    <3>2. r.retry = 0 \/ (r.retry - 1) * MinAge + r.age <= put[p].age
      BY <2>2, <1>10, Zenon DEF Watches, Fresh
    <3> DEFINE rounds == (r.retry - 1) * MinAge
    <3>3. rounds \in Int
      BY <1>3, StorageAssumption, OneMoreRound, Zenon
    <3>4. r.retry = 0 \/ rounds + r.age <= put[p].age
      BY <3>2, Zenon
    <3>5. aged(r).retry = r.retry /\ (aged(r).retry - 1) * MinAge = rounds
      BY <1>3, Zenon
    <3> HIDE DEF rounds
    <3>6. aged(r).retry = 0 \/ rounds + aged(r).age <= put'[p].age
      BY <3>1, <3>3, <3>4, <3>5, <1>3
    <3> QED
      BY <3>5, <3>6, Zenon DEF Fresh
  <2>3. ASSUME NEW h \in Healers, aged(r) \in healer[h].batch PROVE Spared(h, aged(r), p)'
    <3>1. r = aged(r)
      BY <2>3, <1>3, Zenon DEF HeldOK, SameRow
    <3>2. Spared(h, r, p)
      BY <3>1, <2>3, <1>10, Zenon DEF Watches
    <3> QED
      BY <3>1, <3>2, <1>1, <1>6, Zenon DEF Spared
  <2> QED
    BY <2>1, <2>2, <2>3, <1>1, <1>6, Zenon DEF Watches
<1> QED
  BY <1>1, <1>4, <1>6, <1>8, <1>9, <1>10, Zenon DEF CoveredOK, Covered, Unlanded

(* A healer that lets a watching row go has made the key whole. *)
LEMMA OutcomeHeals ==
    ASSUME IInv, NEW h \in Healers, HealerOutcome(h), NEW p \in Puts, NEW r \in wal,
           Watches(r, p), ~Unlanded(p), r \in healer[h].batch, r \notin ToEnqueue(h)
    PROVE  Replicated(put[p].key)
<1> USE DEF IInv
<1>1. r.key = put[p].key /\ r.key \in Keys /\ r.age = MinAge /\ r.retry \in 0 .. MaxRetries
  BY Zenon DEF Watches, TypeInv, TypeOK, StorageTypeOK, Row, HeldOK
<1>2. Settled(h, r.key) /\ ~MissingBlobstores(h, r.key)
  BY Zenon DEF HealerOutcome, BatchKeys, ToEnqueue
<1>3. CASE Found(h, r.key)
  <2>1. \A s \in Stores : healer[h].look[r.key][s] \in {"some", "healed"}
    BY <1>2, <1>3, Zenon DEF Settled, MissingBlobstores
  <2> QED
    BY <2>1, <1>1, Zenon DEF LooksOK, Replicated
<1>4. CASE ~Found(h, r.key)
  <2>1. \A s \in Stores : healer[h].look[r.key][s] \in Looks
    BY <1>1, LookFields, Zenon
  <2>2. \A s \in Stores : healer[h].look[r.key][s] \notin {"asked", "some", "err", "healed", "failed"}
    BY <1>1, <1>2, <1>4, ZenonT(30) DEF Settled, Fetched, Found, MissingBlobstores, LooksOK
  <2>3. \A s \in Stores : healer[h].look[r.key][s] = "none"
    BY <2>1, <2>2, Zenon DEF Looks
  <2>4. r.retry = MaxRetries
    <3>1. MissingBlob(h, r.key)
      BY <2>3, Zenon DEF MissingBlob
    <3>2. ~(r.retry < MaxRetries)
      BY <3>1, Zenon DEF ToEnqueue
    <3>3. MaxRetries \in Nat
      BY StorageAssumption, Zenon
    <3> QED
      BY <3>2, <3>3, <1>1
  <2>5. put[p].landed \subseteq Stores
    BY TypesOfPuts, PutFields, Zenon
  <2>6. put[p].landed = {}
    BY <2>3, <2>4, <2>5, Zenon DEF Watches, Spared
  <2>7. put[p].age > PutTimeout
    BY <2>4, <2>6, <1>1, LastRetryIsLate, Zenon DEF Watches
  <2>8. put[p].age = TooOld
    BY <2>7, Ages, TypesOfPuts, PutFields
  <2> QED
    BY <2>6, <2>8, Zenon DEF Unlanded
<1> QED
  BY <1>3, <1>4, Zenon

(* A step of a healer that heals from shard 0 leaves every put covered. *)
LEMMA CoveredHealer ==
    ASSUME IInv, HealsFromFirstShard, NEW h \in Healers, HealerStep(h), UNCHANGED put
    PROVE  CoveredOK'
<1> USE DEF IInv
<1>0. /\ \A k : Replicated(k) => Replicated(k)'
      /\ \A g \in Healers \ {h} : healer'[g] = healer[g]
  BY WholeStays, HealerOthers, Zenon DEF Next
<1> SUFFICES ASSUME NEW p \in Puts, put[p].state # "idle", ~Replicated(put[p].key), ~Unlanded(p)
             PROVE  Covered(p)'
  BY <1>0, Zenon DEF CoveredOK, Covered, Replicated, Present, Unlanded
<1>1. PICK r \in wal : Watches(r, p)
  BY Zenon DEF CoveredOK, Covered
<1>2. r.key = put[p].key /\ r \in Row /\ r.key \in Keys /\ put[p].landed \subseteq Stores
  BY <1>1, Zenon DEF Watches, TypeInv, TypeOK, StorageTypeOK, Row, PutTypeOK, PutRecord
<1>a. ASSUME r \in wal', r \in healer'[h].batch => Spared(h, r, p)' PROVE Covered(p)'
  <2>1. \A g \in Healers : r \in healer'[g].batch => Spared(g, r, p)'
    <3>1. ASSUME NEW g \in Healers \ {h}, r \in healer'[g].batch PROVE Spared(g, r, p)'
      <4>1. healer'[g] = healer[g]
        BY <1>0, Zenon
      <4>2. Spared(g, r, p)
        BY <3>1, <4>1, <1>1, Zenon DEF Watches
      <4> QED
        BY <4>1, <4>2, Zenon DEF Spared
    <3> QED
      BY <3>1, <1>a, Zenon
  <2>2. Watches(r, p)'
    BY <2>1, <1>1, Zenon DEF Watches, Fresh
  <2> QED
    BY <2>2, <1>a, Zenon DEF Covered
<1>b. r \in healer[h].batch => Spared(h, r, p)
  BY <1>1, Zenon DEF Watches
<1>3. CASE HealerRead(h)
  <2>1. healer'[h].phase = ReadPhase(healer'[h].batch) /\ healer'[h].look = Unasked /\ wal' = wal
    BY <1>3, HealerBatch, Zenon
  <2>2. r \in healer'[h].batch => healer'[h].phase = "heal"
    BY <2>1, Zenon DEF ReadPhase, HealsFromFirstShard
  <2>3. \A s \in put[p].landed : healer'[h].look[r.key][s] # "none"
    BY <2>1, <1>2, Zenon DEF Unasked
  <2> QED
    BY <2>1, <2>2, <2>3, <1>a, Zenon DEF Spared
<1>4. CASE HealerReadErr(h) \/ HealerCrash(h)
  BY <1>4, <1>a, HealerBatch, Zenon
<1>5. ASSUME NEW k \in Keys, NEW s \in Stores, HealerGet(h, k, s) \/ HealerPut(h, k, s)
      PROVE  Covered(p)'
  <2>1. /\ healer'[h].batch = healer[h].batch /\ healer'[h].phase = healer[h].phase
        /\ healer'[h].requeue = healer[h].requeue /\ wal' = wal
        /\ \A j \in Keys, t \in Stores : <<j, t>> # <<k, s>> =>
             healer'[h].look[j][t] = healer[h].look[j][t]
        /\ Present(k, s) => healer'[h].look[k][s] # "none"
    BY <1>5, HealerLookup, Zenon
  <2>2. ASSUME NEW t \in put[p].landed, healer[h].look[r.key][t] # "none"
        PROVE  healer'[h].look[r.key][t] # "none"
    <3>1. CASE <<r.key, t>> = <<k, s>>
      <4>1. Present(r.key, t)
        BY <1>2, Zenon DEF PutsOK
      <4>2. r.key = k /\ t = s
        BY <3>1, Zenon
      <4> QED
        BY <4>1, <4>2, <2>1, Zenon
    <3>2. CASE <<r.key, t>> # <<k, s>>
      <4>1. t \in Stores
        BY <1>2, Zenon
      <4> QED
        BY <4>1, <3>2, <2>1, <2>2, <1>2, Zenon
    <3> QED
      BY <3>1, <3>2, Zenon
  <2>3. r \in healer'[h].batch => Spared(h, r, p)'
    BY <2>1, <2>2, <1>b, Zenon DEF Spared
  <2> QED
    BY <2>1, <2>3, <1>a, Zenon
<1>6. CASE HealerOutcome(h)
  <2>1. /\ healer'[h].batch = healer[h].batch /\ healer'[h].look = healer[h].look
        /\ healer'[h].requeue = ToEnqueue(h) /\ wal' = wal
    BY <1>6, HealerBatch, Zenon
  <2>2. r \in healer[h].batch => r \in ToEnqueue(h)
    BY <1>1, <1>6, OutcomeHeals, Zenon
  <2>3. r \in healer'[h].batch => Spared(h, r, p)'
    BY <2>1, <2>2, <1>b, Zenon DEF Spared
  <2> QED
    BY <2>1, <2>3, <1>a, Zenon
<1>7. CASE HealerRequeue(h)
  <2>1. PICK q \in healer[h].requeue, sh \in Shards :
          /\ healer[h].phase = "requeue" /\ q.key \in Keys /\ q.retry \in 0 .. MaxRetries
          /\ LogEntry(sh, q.key, 0, IF MissingBlob(h, q.key) THEN q.retry + 1 ELSE q.retry, HeldIds)
          /\ healer'[h].batch = healer[h].batch /\ healer'[h].look = healer[h].look
          /\ healer'[h].requeue = healer[h].requeue \ {q}
    BY <1>7, HealerRequeueEffect, Zenon
  <2> DEFINE again == IF MissingBlob(h, q.key) THEN q.retry + 1 ELSE q.retry
  <2>a. q.key \in Keys /\ LogEntry(sh, q.key, 0, again, HeldIds)
    BY <2>1, Zenon
  <2>b. again = q.retry \/ again = q.retry + 1
    BY Zenon
  <2>c. TypeInv
    BY Zenon DEF IInv
  <2> HIDE DEF again
  <2>2. PICK new :
          /\ wal' = wal \cup {new}
          /\ new.key = q.key /\ new.age = 0 /\ new.retry = again
          /\ \A w \in wal : ~SameRow(w, new)
          /\ \A g \in Healers : \A b \in healer[g].batch : ~SameRow(new, b)
    BY ONLY <2>a, <2>c, LogEntryNew
  <2>3. CASE q # r
    <3>1. r \in healer'[h].batch => Spared(h, r, p)'
      BY <2>1, <2>3, <1>b, Zenon DEF Spared
    <3> QED
      BY <3>1, <2>2, <1>a, Zenon
  <2>4. CASE q = r
    <3>1. r.age = MinAge
      BY <2>4, <2>1, Zenon DEF TypeInv, RequeueInRange, HeldOK
    <3>2. \A g \in Healers : new \notin healer'[g].batch
      BY <2>1, <2>2, <1>0, Zenon DEF SameRow
    <3>3. ASSUME put[p].landed = {} PROVE Fresh(new, p)'
      <4>1. r.retry = 0 \/ (r.retry - 1) * MinAge + MinAge <= put[p].age
        BY <3>1, <3>3, <1>1, Zenon DEF Watches, Fresh
      <4>2. put[p].age \in Int /\ put[p].age >= 0
        BY TypesOfPuts, PutFields, Zenon
      <4>3. new.retry = r.retry \/ new.retry = r.retry + 1
        BY <2>2, <2>4, <2>b, Zenon
      <4>4. r.retry \in Nat /\ MinAge \in Nat
        BY <2>1, <2>4, StorageAssumption
      <4> DEFINE before == (r.retry - 1) * MinAge
                 rounds == r.retry * MinAge
      <4>5. before \in Int /\ rounds \in Int /\ before + MinAge = rounds /\ 0 * MinAge = 0
        BY <4>4, OneMoreRound, Zenon
      <4>6. r.retry = 0 \/ before + MinAge <= put[p].age
        BY <4>1, Zenon
      <4>7. CASE new.retry = r.retry
        <5>1. new.retry = 0 \/ before + 0 <= put[p].age
          <6> HIDE DEF before, rounds
          <6> QED
            BY <4>2, <4>4, <4>5, <4>6, <4>7
        <5> QED
          BY <5>1, <4>7, <2>2, Zenon DEF Fresh
      <4>8. CASE new.retry = r.retry + 1
        <5>1. rounds <= put[p].age
          <6>1. CASE r.retry = 0
            BY <6>1, <4>2, <4>5, Zenon
          <6>2. CASE r.retry # 0
            <7> HIDE DEF before, rounds
            <7> QED
              BY <6>2, <4>5, <4>6, Zenon
          <6> QED
            BY <6>1, <6>2, Zenon
        <5>2. (new.retry - 1) * MinAge = rounds
          <6>1. new.retry - 1 = r.retry
            BY <4>4, <4>8
          <6> QED
            BY <6>1, Zenon
        <5>3. rounds + 0 <= put[p].age
          <6> HIDE DEF rounds
          <6> QED
            BY <5>1, <4>5
        <5> QED
          BY <5>2, <5>3, <2>2, Zenon DEF Fresh
      <4> QED
        BY <4>3, <4>7, <4>8, Zenon
    <3>4. Watches(new, p)'
      BY <3>2, <3>3, <2>2, <2>4, <1>2, Zenon DEF Watches
    <3> QED
      BY <3>4, <2>2, Zenon DEF Covered
  <2> QED
    BY <2>3, <2>4, Zenon
<1>8. CASE HealerDelete(h)
  <2>1. /\ healer[h].phase = "cleanup" /\ healer'[h].batch \subseteq healer[h].batch
        /\ \A w \in wal \ wal' : \E b \in healer[h].batch :
             w.id = b.id /\ w.shard = ReadShardId(h, b)
    BY <1>8, HealerDeleteEffect, Zenon
  <2>2. r \notin healer[h].batch
    BY <2>1, <1>b, Zenon DEF Spared, TypeInv, RequeueInRange
  <2>3. \A b \in healer[h].batch : ReadShardId(h, b) = b.shard
    <3>1. healer[h] \in HealerRecord
      BY Zenon DEF TypeInv, TypeOK, HealerTypeOK
    <3>2. \A b \in healer[h].batch : b.shard \in Int
      BY <3>1, StorageAssumption DEF HealerRecord, Row, Shards
    <3>3. FirstShard[h] = 0
      BY Zenon DEF HealsFromFirstShard
    <3> QED
      BY <3>2, <3>3 DEF ReadShardId
  <2>4. r \in wal'
    <3>1. ASSUME r \notin wal' PROVE FALSE
      <4>1. PICK b \in healer[h].batch : r.id = b.id /\ r.shard = ReadShardId(h, b)
        BY <3>1, <2>1, Zenon
      <4>2. SameRow(r, b)
        BY <4>1, <2>3, Zenon DEF SameRow
      <4>3. r = b
        BY <4>2, Zenon DEF HeldOK
      <4> QED
        BY <4>1, <4>3, <2>2, Zenon
    <3> QED
      BY <3>1, Zenon
  <2> QED
    BY <2>1, <2>2, <2>4, <1>a, Zenon
<1> QED
  BY <1>3, <1>4, <1>5, <1>6, <1>7, <1>8, Zenon DEF HealerStep

-----------------------------------------------------------------------------
(* The theorems. *)

(* What is known of puts and blobs, which no assumption on healers needs. *)
QuorumInv == TypeInv /\ PutsOK /\ BlobsOK /\ LooksOK

(* The part about puts and blobs holds in the beginning. *)
LEMMA QuorumInit == Init => QuorumInv
<1> SUFFICES ASSUME Init PROVE QuorumInv
  BY Zenon
<1>1. TypeInv
  BY TypeInit, Zenon
<1>2. PutsOK
  BY Zenon DEF Init, PutInit, PutsOK, NoReplies, Acked
<1>3. BlobsOK
  BY Zenon DEF Init, StorageInit, BlobsOK
<1>4. LooksOK
  BY Zenon DEF Init, HealerInit, LooksOK, Started, Unasked
<1> QED
  BY <1>1, <1>2, <1>3, <1>4, Zenon DEF QuorumInv

(* The types are inductive. *)
LEMMA TypeStep == TypeInv /\ [Next]_vars => TypeInv'
<1> SUFFICES ASSUME TypeInv, [Next]_vars PROVE TypeInv'
  BY Zenon
<1>1. CASE Next
  BY <1>1, PutStepType, HealerStepType, TickType, Zenon DEF Next
<1>2. CASE UNCHANGED vars
  BY <1>2, Zenon DEF vars, TypeInv, TypeOK, StorageTypeOK, PutTypeOK, HealerTypeOK,
              RequeueInRange, MissingBlob
<1> QED
  BY <1>1, <1>2, Zenon

(* The part about puts and blobs is inductive, for all healers. *)
LEMMA QuorumStep == QuorumInv /\ [Next]_vars => QuorumInv'
<1> SUFFICES ASSUME QuorumInv, [Next]_vars PROVE QuorumInv'
  BY Zenon
<1> USE DEF QuorumInv
<1>1. TypeInv' /\ LooksOK'
  BY TypeStep, LooksStep, Zenon
<1>2. ASSUME NEW p \in Puts, PutStep(p, HeldIds) PROVE PutsOK' /\ BlobsOK'
  BY <1>2, TypesOfPuts, PutsOKStep, Zenon
<1>3. ASSUME NEW h \in Healers, HealerStep(h), UNCHANGED put PROVE PutsOK' /\ BlobsOK'
  BY <1>3, BlobsOKHealer, Zenon
<1>4. ASSUME Tick PROVE PutsOK' /\ BlobsOK'
  <2>1. ASSUME NEW p \in Puts
        PROVE  /\ put'[p].state = put[p].state /\ put'[p].key = put[p].key
               /\ put'[p].landed = put[p].landed /\ put'[p].reply = put[p].reply
    BY <1>4, Zenon DEF Tick, TypeInv, TypeOK, PutTypeOK, PutRecord
  <2>2. blobs' = blobs
    BY <1>4, Zenon DEF Tick
  <2> QED
    <3>1. PutsOK'
      BY <2>1, <2>2 DEF PutsOK, Present, Acked
    <3>2. BlobsOK'
      BY <2>1, <2>2 DEF BlobsOK
    <3> QED
      BY <3>1, <3>2, Zenon
<1>5. ASSUME UNCHANGED vars PROVE PutsOK' /\ BlobsOK'
  <2>1. put' = put /\ blobs' = blobs
    BY <1>5, Zenon DEF vars
  <2>2. PutsOK'
    BY <2>1, Zenon DEF PutsOK, Present, Acked
  <2>3. BlobsOK'
    BY <2>1 DEF BlobsOK
  <2> QED
    BY <2>2, <2>3, Zenon
<1> QED
  BY <1>1, <1>2, <1>3, <1>4, <1>5, Zenon DEF Next

(* A put that put_impl answered Ok is in a write quorum of the main stores  *)
(* from then on, in every configuration: any shard range, also draining.    *)
THEOREM AckedStaysOnQuorum == Spec => []AckedOnQuorum
<1>1. QuorumInv => AckedOnQuorum
  <2> SUFFICES ASSUME QuorumInv, NEW p \in Puts, Acked(p)
               PROVE  Cardinality({s \in MainStores : Present(put[p].key, s)}) >= WriteQuorum
    BY Zenon DEF AckedOnQuorum
  <2> DEFINE holders == {s \in MainStores : Present(put[p].key, s)}
             acks == Acknowledged(put[p].reply)
  <2>1. acks \subseteq holders
    BY Zenon DEF QuorumInv, PutsOK, Acknowledged, Stores
  <2>2. IsFiniteSet(holders)
    BY StorageAssumption, FS_Subset, Zenon
  <2>3. Cardinality(acks) >= WriteQuorum
    BY Zenon DEF QuorumInv, PutsOK
  <2> HIDE DEF acks, holders
  <2>4. /\ Cardinality(acks) \in Nat /\ Cardinality(holders) \in Nat
        /\ Cardinality(acks) <= Cardinality(holders)
    BY <2>1, <2>2, FS_Subset, FS_CardinalityType, Zenon
  <2>5. WriteQuorum \in Int
    BY MultiplexAssumption
  <2>6. Cardinality(holders) >= WriteQuorum
    BY <2>3, <2>4, <2>5
  <2> QED
    BY <2>6, Zenon DEF holders
<1> QED
  BY QuorumInit, QuorumStep, <1>1, PTL DEF Spec

(* The invariant holds in the beginning. *)
LEMMA IInvInit == Init => IInv
<1> SUFFICES ASSUME Init PROVE IInv
  BY Zenon
<1>1. QuorumInv
  BY QuorumInit, Zenon
<1>2. RowsOK
  BY Zenon DEF Init, StorageInit, RowsOK
<1>3. HeldOK
  BY Zenon DEF Init, HealerInit, Started, HeldOK
<1>4. CoveredOK
  BY Zenon DEF Init, PutInit, CoveredOK
<1> QED
  BY <1>1, <1>2, <1>3, <1>4, Zenon DEF QuorumInv, IInv

(* The invariant is inductive when the healers heal from shard 0. *)
LEMMA IInvStep == HealsFromFirstShard /\ IInv /\ [Next]_vars => IInv'
<1> SUFFICES ASSUME HealsFromFirstShard, IInv, [Next]_vars PROVE IInv'
  BY Zenon
<1>1. QuorumInv'
  BY QuorumStep, Zenon DEF IInv, QuorumInv
<1>2. ASSUME NEW p \in Puts, PutStep(p, HeldIds), UNCHANGED healer
      PROVE  RowsOK' /\ HeldOK' /\ CoveredOK'
  BY <1>2, RowsPut, CoveredPut, Zenon DEF IInv
<1>3. ASSUME NEW h \in Healers, HealerStep(h), UNCHANGED put
      PROVE  RowsOK' /\ HeldOK' /\ CoveredOK'
  BY <1>3, RowsHealer, CoveredHealer, Zenon DEF IInv
<1>4. ASSUME Tick PROVE RowsOK' /\ HeldOK' /\ CoveredOK'
  BY <1>4, RowsTick, CoveredTick, Zenon DEF IInv
<1>5. ASSUME UNCHANGED vars PROVE RowsOK' /\ HeldOK' /\ CoveredOK'
  <2>0. put' = put /\ blobs' = blobs /\ wal' = wal /\ healer' = healer
    BY <1>5, Zenon DEF vars
  <2>1. RowsOK'
    BY <2>0, Zenon DEF IInv, RowsOK, SameRow
  <2>2. HeldOK'
    BY <2>0, Zenon DEF IInv, HeldOK, SameRow
  <2>3. \A r : \A p \in Puts : Watches(r, p)' = Watches(r, p)
    BY <2>0 DEF Watches, Fresh, Spared
  <2>4. \A p \in Puts : Covered(p) => Covered(p)'
    BY <2>0, <2>3, Zenon DEF Covered, Replicated, Present, Unlanded
  <2>5. CoveredOK'
    BY <2>0, <2>4, Zenon DEF IInv, CoveredOK
  <2> QED
    BY <2>1, <2>2, <2>5, Zenon
<1> QED
  BY <1>1, <1>2, <1>3, <1>4, <1>5, Zenon DEF Next, IInv, QuorumInv

(* A put that wrote somewhere has a row, unless the key is whole. *)
LEMMA CoveredIsEnough == IInv => NoPartialForgotten
<1> SUFFICES ASSUME IInv, NEW k \in Keys, NEW s \in Stores, Present(k, s), ~Replicated(k)
             PROVE  Pending(k)
  BY Zenon DEF NoPartialForgotten
<1>1. PICK p \in Puts : put[p].key = k /\ put[p].landed # {}
  BY Zenon DEF IInv, BlobsOK, Present
<1>2. put[p].state # "idle"
  BY <1>1, Zenon DEF IInv, PutsOK
<1>3. \E r \in wal : Watches(r, p)
  BY <1>1, <1>2, Zenon DEF IInv, CoveredOK, Covered, Unlanded
<1> QED
  BY <1>1, <1>3, Zenon DEF Watches, Pending

(* No partly written blob is ever without a row in the WAL, when every      *)
(* healer heals and reads from the first shard on.                          *)
THEOREM NothingPartialForgotten ==
    ASSUME HealsFromFirstShard
    PROVE  Spec => []NoPartialForgotten
<1>1. IInv /\ [Next]_vars => IInv'
  BY IInvStep, Zenon
<1> QED
  BY IInvInit, <1>1, CoveredIsEnough, PTL DEF Spec

(* The write-ahead discipline: a key that reaches its first store has a row. *)
LEMMA WriteAhead ==
    ASSUME IInv, [Next]_vars, NEW k \in Keys, \A s \in Stores : ~Present(k, s),
           NEW t \in Stores, Present(k, t)'
    PROVE  Pending(k)
<1> USE DEF IInv
<1>a. blobs \in [Stores -> SUBSET Keys]
  BY Zenon DEF TypeInv, TypeOK, StorageTypeOK
<1>b. ASSUME blobs' = blobs PROVE FALSE
  BY <1>b, Zenon DEF Present
<1>1. ASSUME NEW p \in Puts, NEW s \in Stores, PutLand(p, s) PROVE Pending(k)
  <2>1. /\ put[p].state # "idle" /\ put[p].age <= PutTimeout
        /\ blobs' = [blobs EXCEPT ![s] = @ \cup {put[p].key}]
    BY <1>1, TypesOfPuts, PutLandEffect, Zenon
  <2>2. put[p].key = k
    BY <2>1, <1>a, Zenon DEF Present
  <2>3. ~Unlanded(p)
    BY <2>1, Ages, Zenon DEF Unlanded
  <2>4. ~Replicated(k)
    BY Zenon DEF Replicated
  <2>5. \E r \in wal : Watches(r, p)
    BY <2>1, <2>2, <2>3, <2>4, Zenon DEF CoveredOK, Covered
  <2> QED
    BY <2>2, <2>5, Zenon DEF Watches, Pending
<1>2. ASSUME NEW h \in Healers, NEW j \in Keys, NEW s \in Stores, HealerPut(h, j, s) PROVE FALSE
  <2>1. \E u \in Stores : Present(j, u)
    BY <1>2, Zenon DEF HealerPut, Found, LooksOK
  <2>2. blobs' = [blobs EXCEPT ![s] = @ \cup {j}] \/ blobs' = blobs
    BY <1>2, Zenon DEF HealerPut
  <2> QED
    BY <2>1, <2>2, <1>a, Zenon DEF Present
<1>3. ASSUME NEW p \in Puts, PutStep(p, HeldIds), ~\E s \in Stores : PutLand(p, s)
      PROVE  blobs' = blobs
  BY <1>3, ZenonT(30) DEF PutStep, PutLog, PutLogErr, PutOk, PutErr, PutDelete, PutDeleteErr, PutCrash, storageVars
<1>4. ASSUME NEW h \in Healers, HealerStep(h), ~\E j \in Keys, s \in Stores : HealerPut(h, j, s)
      PROVE  blobs' = blobs
  BY <1>4, Zenon DEF HealerStep, HealerRead, HealerReadErr, HealerGet, HealerOutcome, HealerRequeue,
              HealerDelete, HealerCrash, storageVars
<1>5. ASSUME Tick \/ UNCHANGED vars PROVE blobs' = blobs
  BY <1>5, Zenon DEF Tick, vars
<1> QED
  BY <1>b, <1>1, <1>2, <1>3, <1>4, <1>5, Zenon DEF Next

(* What the stage of a key says about stores and rows. *)
StagesMean ==
    \A k \in Keys :
        /\ Stage(k) \in Life!Stages
        /\ Stage(k) = "whole" <=> Replicated(k)
        /\ Stage(k) = "partial" => \E s \in Stores : Present(k, s)
        /\ Stage(k) \in {"none", "open"} => \A s \in Stores : ~Present(k, s)
        /\ Stage(k) = "none" => ~Pending(k)

(* What the stage of a key says of stores and rows. *)
LEMMA StageMeaning == NoPartialForgotten => StagesMean
<1> SUFFICES ASSUME NoPartialForgotten, NEW k \in Keys
             PROVE  /\ Stage(k) \in Life!Stages
                    /\ Stage(k) = "whole" <=> Replicated(k)
                    /\ Stage(k) = "partial" => \E s \in Stores : Present(k, s)
                    /\ Stage(k) \in {"none", "open"} => \A s \in Stores : ~Present(k, s)
                    /\ Stage(k) = "none" => ~Pending(k)
  BY Zenon DEF StagesMean
<1>1. CASE Replicated(k)
  BY <1>1, Zenon DEF Stage, Life!Stages
<1>2. CASE ~Replicated(k) /\ Pending(k) /\ \E s \in Stores : Present(k, s)
  BY <1>2, Zenon DEF Stage, Life!Stages
<1>3. CASE ~Replicated(k) /\ Pending(k) /\ \A s \in Stores : ~Present(k, s)
  BY <1>3, Zenon DEF Stage, Life!Stages
<1>4. CASE ~Replicated(k) /\ ~Pending(k) /\ \A s \in Stores : ~Present(k, s)
  BY <1>4, Zenon DEF Stage, Life!Stages
<1> QED
  BY <1>1, <1>2, <1>3, <1>4, Zenon DEF NoPartialForgotten

(* One step moves the stage of every key as BlobLife allows. *)
LEMMA StageStep ==
    ASSUME IInv, StagesMean, StagesMean', [Next]_vars, NEW k \in Keys
    PROVE  Stage(k)' \in {Stage(k)} \cup Life!MayBecome(Stage(k))
<1>1. /\ Stage(k) \in Life!Stages /\ Stage(k)' \in Life!Stages
      /\ Stage(k) = "whole" => Stage(k)' = "whole"
  <2>1. Replicated(k) => Replicated(k)'
    BY WholeStays, Zenon DEF IInv
  <2> QED
    BY <2>1, Zenon DEF StagesMean
<1>2. ASSUME Stage(k) = "partial" PROVE Stage(k)' \in {"partial", "whole"}
  <2>1. PICK s \in Stores : Present(k, s)
    BY <1>2, Zenon DEF StagesMean
  <2>2. Present(k, s)'
    BY <2>1, BlobsGrow, Zenon DEF IInv, Present
  <2>3. Stage(k)' \notin {"none", "open"}
    BY <2>2, Zenon DEF StagesMean
  <2> QED
    BY <2>3, <1>1, Zenon DEF Life!Stages
<1>3. ASSUME Stage(k) = "none" PROVE Stage(k)' \in {"none", "open"}
  <2>1. /\ \A s \in Stores : ~Present(k, s)
        /\ ~Pending(k)
    BY <1>3, Zenon DEF StagesMean
  <2>2. \A s \in Stores : ~Present(k, s)'
    BY <2>1, WriteAhead, Zenon
  <2>3. Stores # {}
    BY MultiplexAssumption, FS_EmptySet DEF Stores
  <2>4. ~Replicated(k)'
    BY <2>2, <2>3, Zenon DEF Replicated
  <2>5. Stage(k)' \notin {"partial", "whole"}
    BY <2>2, <2>4, Zenon DEF StagesMean
  <2> QED
    BY <2>5, <1>1, Zenon DEF Life!Stages
<1> QED
  BY <1>1, <1>2, <1>3, Zenon DEF Life!Stages, Life!MayBecome

(* Puts and healers together implement the abstract specification BlobLife. *)
THEOREM RefinesBlobLife ==
    ASSUME HealsFromFirstShard
    PROVE  Spec => ImplementsBlobLife
<1>1. IInv /\ [Next]_vars => IInv'
  BY IInvStep, Zenon
<1>2. IInv => StagesMean
  BY CoveredIsEnough, StageMeaning, Zenon
<1>3. Init => Life!LifeInit
  <2> SUFFICES ASSUME Init, NEW k \in Keys PROVE Stage(k) = "none"
    BY Zenon DEF Life!LifeInit
  <2>1. Stores # {}
    BY MultiplexAssumption, FS_EmptySet DEF Stores
  <2>2. ~Replicated(k) /\ ~Pending(k) /\ \A s \in Stores : ~Present(k, s)
    BY <2>1, Zenon DEF Init, StorageInit, Replicated, Pending, Present
  <2> QED
    BY <2>2, Zenon DEF Stage
<1>4. IInv /\ StagesMean /\ StagesMean' /\ [Next]_vars => [Life!LifeNext]_[k \in Keys |-> Stage(k)]
  <2> SUFFICES ASSUME IInv, StagesMean, StagesMean', [Next]_vars PROVE Life!LifeNext
    BY Zenon
  <2>1. \A k \in Keys : Stage(k)' \in {Stage(k)} \cup Life!MayBecome(Stage(k))
    BY StageStep, Zenon
  <2>2. \A k \in Keys : Stage(k)' \in Life!Stages
    BY Zenon DEF StagesMean
  <2> QED
    BY <2>1, <2>2, Zenon DEF Life!LifeNext
<1> QED
  BY IInvInit, <1>1, <1>2, <1>3, <1>4, PTL DEF Spec, ImplementsBlobLife, Life!LifeSpec

-----------------------------------------------------------------------------
(* Unlinks beside them. *)

(* A put whose writes can still reach a store, or that may yet send some. *)
Alive(t) ==
    \/ t.state = "writing"
    \/ \E s \in Stores : /\ t.reply[s] \in {"inflight", "err", "dropped"}
                         /\ s \notin t.landed
                         /\ t.age <= PutTimeout

(* Nothing under way can write the key: no put, no row of the WAL, no healer. *)
Quiet(k) ==
    /\ \A r \in wal : r.key # k
    /\ \A p \in Puts : put[p].key = k => ~Alive(put[p])
    /\ \A h \in Healers : \A r \in healer[h].batch : r.key # k

(* The inductive invariant: an unlink that began in quiet stays in quiet,  *)
(* and a store that is counted as done does not have the key.              *)
UnlinkInv ==
    /\ TypeInv
    /\ unlink \in UnlinkRecord
    /\ unlink.state = "running" /\ unlink.calm =>
         /\ Quiet(unlink.key)
         /\ \A s \in MainStores : unlink.reply[s] = "ok" => ~Present(unlink.key, s)

(* The key is in no store where it was not. *)
NoNew(k) == \A s \in Stores : Present(k, s)' => Present(k, s)

-----------------------------------------------------------------------------
(* What `calm` records at the start is that nothing under way can write the *)
(* key, given that no put of it waits for its answer.                       *)
LEMMA CalmIsQuiet ==
    ASSUME NEW k, ~Unsettled(k), \A p \in Puts : put[p].key = k => put[p].state # "writing"
    PROVE  Quiet(k)
<1>1. \A r \in wal : r.key # k
  BY Zenon DEF Unsettled, Pending
<1>2. \A p \in Puts : put[p].key = k => ~Alive(put[p])
  BY Zenon DEF Unsettled, CanLand, Alive
<1>3. \A h \in Healers : \A r \in healer[h].batch : r.key # k
  BY Zenon DEF Unsettled, BatchKeys
<1> QED
  BY <1>1, <1>2, <1>3, Zenon DEF Quiet

(* No step of a put revives it once its writes are all over: answers only  *)
(* turn a write in flight into an answered or a dropped one.               *)
LEMMA DeadStaysDead ==
    ASSUME TypeInv, NEW p \in Puts, Notes(p), ~Alive(put[p])
    PROVE  ~Alive(put'[p])
<1>a. /\ put[p] \in PutRecord /\ put \in [Puts -> PutRecord]
      /\ put[p].reply \in [Stores -> Replies]
      /\ put[p].state # "writing"
  BY Zenon DEF TypeInv, TypeOK, PutTypeOK, PutRecord, Alive
<1>b. ASSUME NEW reply \in [Stores -> Replies], NEW state \in PutStates \ {"writing"},
             put' = [put EXCEPT ![p] = [put[p] EXCEPT !.reply = reply, !.state = state]],
             \A s \in Stores : reply[s] \in {"inflight", "err", "dropped"}
                                 => put[p].reply[s] \in {"inflight", "err", "dropped"}
      PROVE  ~Alive(put'[p])
  <2>1. /\ put'[p].reply = reply /\ put'[p].state = state
        /\ put'[p].landed = put[p].landed /\ put'[p].age = put[p].age
    BY <1>a, <1>b, Zenon DEF PutRecord
  <2> QED
    BY <2>1, <1>b, Zenon DEF Alive
<1>c. put[p].state \in PutStates \ {"writing"}
  BY <1>a, Zenon DEF PutRecord
<1>1. ASSUME NEW s \in Stores, PutOk(p, s) PROVE ~Alive(put'[p])
  <2> DEFINE reply == [put[p].reply EXCEPT ![s] = "ok"]
  <2>1. put' = [put EXCEPT ![p] = [put[p] EXCEPT !.reply = reply]]
    BY <1>1, <1>a, Zenon DEF PutOk
  <2>2. [put[p] EXCEPT !.reply = reply] = [put[p] EXCEPT !.reply = reply, !.state = put[p].state]
    BY <1>a, Zenon DEF PutRecord
  <2>3. reply \in [Stores -> Replies]
    BY <1>a, Zenon DEF Replies
  <2>4. \A t \in Stores : reply[t] \in {"inflight", "err", "dropped"}
                            => put[p].reply[t] \in {"inflight", "err", "dropped"}
    BY <1>a, Zenon
  <2> HIDE DEF reply
  <2> QED
    BY <2>1, <2>2, <2>3, <2>4, <1>b, <1>c, Zenon
<1>2. ASSUME NEW s \in Stores, PutErr(p, s) PROVE ~Alive(put'[p])
  <2> DEFINE err == [put[p].reply EXCEPT ![s] = "err"]
             reply == Drop(err, Group(s))
  <2>1. put' = [put EXCEPT ![p] = [put[p] EXCEPT !.reply = reply]]
    BY <1>2, <1>a, Zenon DEF PutErr
  <2>2. [put[p] EXCEPT !.reply = reply] = [put[p] EXCEPT !.reply = reply, !.state = put[p].state]
    BY <1>a, Zenon DEF PutRecord
  <2>3. reply \in [Stores -> Replies]
    BY <1>a, Zenon DEF Replies, Drop
  <2>4. \A t \in Stores : reply[t] \in {"inflight", "err", "dropped"}
                            => put[p].reply[t] \in {"inflight", "err", "dropped"}
    BY <1>2, <1>a, Zenon DEF PutErr, Drop
  <2> HIDE DEF reply
  <2> QED
    BY <2>1, <2>2, <2>3, <2>4, <1>b, <1>c, Zenon
<1>3. ASSUME PutDelete(p) \/ PutDeleteErr(p) PROVE ~Alive(put'[p])
  <2>1. put' = [put EXCEPT ![p] = [put[p] EXCEPT !.state = "done"]]
    BY <1>3, Zenon DEF PutDelete, PutDeleteErr
  <2>2. [put[p] EXCEPT !.state = "done"] = [put[p] EXCEPT !.reply = put[p].reply, !.state = "done"]
    BY <1>a, Zenon DEF PutRecord
  <2>3. "done" \in PutStates \ {"writing"}
    BY Zenon DEF PutStates
  <2> QED
    BY <2>1, <2>2, <2>3, <1>a, <1>b, Zenon
<1>4. ASSUME PutCrash(p) PROVE ~Alive(put'[p])
  <2> DEFINE reply == Drop(put[p].reply, Stores)
             state == IF put[p].state = "acked" THEN "done" ELSE "dead"
  <2>1. put' = [put EXCEPT ![p] = Crashed(put[p])]
    BY <1>4, Zenon DEF PutCrash
  <2>2. Crashed(put[p]) = [put[p] EXCEPT !.reply = reply, !.state = state]
    BY <1>a, Zenon DEF Crashed, PutRecord
  <2>3. reply \in [Stores -> Replies] /\ state \in PutStates \ {"writing"}
    BY <1>a, Zenon DEF Replies, Drop, PutStates
  <2>4. \A t \in Stores : reply[t] \in {"inflight", "err", "dropped"}
                            => put[p].reply[t] \in {"inflight", "err", "dropped"}
    BY Zenon DEF Drop
  <2> HIDE DEF reply, state
  <2> QED
    BY <2>1, <2>2, <2>3, <2>4, <1>b, Zenon
<1> QED
  BY <1>1, <1>2, <1>3, <1>4, Zenon DEF Notes

(* A put that does not start on the key leaves the quiet alone. *)
LEMMA PutStepQuiet ==
    ASSUME TypeInv, NEW k \in Keys, Quiet(k), NEW p \in Puts, PutStep(p, HeldIds), UNCHANGED healer,
           put[p].state = "idle" /\ put'[p].state # "idle" => put'[p].key # k
    PROVE  Quiet(k)' /\ NoNew(k)
<1>a. put[p] \in PutRecord /\ put \in [Puts -> PutRecord] /\ blobs \in [Stores -> SUBSET Keys]
  BY Zenon DEF TypeInv, TypeOK, PutTypeOK, StorageTypeOK
<1>b. \A h \in Healers : \A r \in healer'[h].batch : r.key # k
  BY Zenon DEF Quiet
<1>1. ASSUME NEW j \in Keys, NEW sh \in Shards, NEW age, put[p].state = "idle",
             LogEntry(sh, j, age, 0, HeldIds) \/ UNCHANGED wal,
             put'[p].state # "idle", put'[p].key = j,
             \A q \in Puts \ {p} : put'[q] = put[q], UNCHANGED blobs
      PROVE  Quiet(k)' /\ NoNew(k)
  <2>1. j # k
    BY <1>1, Zenon
  <2>2. \A r \in wal' : r.key # k
    BY <1>1, <2>1 DEF LogEntry, Quiet
  <2>3. \A q \in Puts : put'[q].key = k => ~Alive(put'[q])
    BY <1>1, <2>1, Zenon DEF Quiet
  <2> QED
    BY <2>2, <2>3, <1>1, <1>b, Zenon DEF Quiet, NoNew, Present
<1>2. CASE PutLog(p, HeldIds)
  <2>1. PICK j \in Keys, sh \in Shards, age \in 0 .. MinAge :
          /\ put[p].state = "idle"
          /\ LogEntry(sh, j, age, 0, HeldIds)
          /\ put' = [put EXCEPT ![p] =
                       [state |-> "writing", key |-> j, shard |-> sh, age |-> 0, clean |-> FALSE,
                        reply |-> Send(NoReplies, MainStores), landed |-> {}]]
          /\ UNCHANGED <<blobs, faults>>
    BY <1>2, Zenon DEF PutLog
  <2>2. /\ put'[p].state # "idle" /\ put'[p].key = j
        /\ \A q \in Puts \ {p} : put'[q] = put[q]
    BY <2>1, <1>a, Zenon
  <2> QED
    BY <2>1, <2>2, <1>1, Zenon
<1>3. CASE PutLogErr(p, HeldIds)
  <2>1. PICK j \in Keys, sh \in Shards, age \in 0 .. MinAge :
          /\ put[p].state = "idle"
          /\ LogEntry(sh, j, age, 0, HeldIds) \/ UNCHANGED wal
          /\ put' = [put EXCEPT ![p] = [@ EXCEPT !.state = "failed", !.key = j, !.age = TooOld]]
          /\ UNCHANGED blobs
    BY <1>3, Zenon DEF PutLogErr
  <2>2. /\ put'[p].state # "idle" /\ put'[p].key = j
        /\ \A q \in Puts \ {p} : put'[q] = put[q]
    BY <2>1, <1>a, Zenon DEF PutRecord
  <2> QED
    BY <2>1, <2>2, <1>1, Zenon
<1>4. ASSUME NEW s \in Stores, PutLand(p, s) PROVE Quiet(k)' /\ NoNew(k)
  <2>1. put[p].key # k
    BY <1>4, Zenon DEF PutLand, CanLand, Quiet, Alive
  <2>2. NoNew(k)
    BY <1>4, <2>1, <1>a, Zenon DEF PutLand, NoNew, Present
  <2>3. /\ put'[p].key = put[p].key /\ \A q \in Puts \ {p} : put'[q] = put[q]
    BY <1>4, <1>a, Zenon DEF PutLand, PutRecord
  <2> QED
    BY <2>1, <2>2, <2>3, <1>4, <1>b, Zenon DEF Quiet, PutLand
<1>5. CASE Notes(p)
  <2> DEFINE Keeps == /\ put'[p].key = put[p].key
                      /\ \A q \in Puts \ {p} : put'[q] = put[q]
                      /\ wal' \subseteq wal /\ blobs' = blobs
  <2>a. ASSUME NEW new, put' = [put EXCEPT ![p] = new], new.key = put[p].key,
               wal' \subseteq wal, blobs' = blobs
        PROVE  Keeps
    BY <2>a, <1>a, Zenon
  <2>b. ASSUME NEW s \in Stores, PutOk(p, s) PROVE Keeps
    <3> DEFINE reply == [put[p].reply EXCEPT ![s] = "ok"]
               quorum == Cardinality(Acknowledged(reply)) = WriteQuorum
               new == CASE put[p].state = "writing" /\ quorum -> Quorate(put[p], reply)
                        [] put[p].state = "writing" /\ ~quorum -> Recorded(put[p], reply)
                        [] OTHER -> [put[p] EXCEPT !.reply = reply]
    <3>1. put' = [put EXCEPT ![p] = new] /\ wal' = wal /\ blobs' = blobs
      BY <2>b, Zenon DEF PutOk, storageVars
    <3> HIDE DEF reply, quorum
    <3>2. new.key = put[p].key
      BY <1>a, Zenon DEF Quorate, Recorded, PutRecord
    <3> QED
      BY <3>1, <3>2, <2>a, Zenon
  <2>c. ASSUME NEW s \in Stores, PutErr(p, s) PROVE Keeps
    <3> DEFINE reply == [put[p].reply EXCEPT ![s] = "err"]
               new == IF put[p].state = "writing" THEN Recorded(put[p], reply)
                      ELSE [put[p] EXCEPT !.reply = Drop(reply, Group(s))]
    <3>1. put' = [put EXCEPT ![p] = new] /\ wal' = wal /\ blobs' = blobs
      BY <2>c, Zenon DEF PutErr
    <3> HIDE DEF reply
    <3>2. new.key = put[p].key
      BY <1>a, Zenon DEF Recorded, PutRecord
    <3> QED
      BY <3>1, <3>2, <2>a, Zenon
  <2>d. ASSUME PutDelete(p) \/ PutDeleteErr(p) PROVE Keeps
    BY <2>d, <1>a DEF PutDelete, PutDeleteErr, DeleteByKey, PutRecord
  <2>e. ASSUME PutCrash(p) PROVE Keeps
    BY <2>e, <1>a, Zenon DEF PutCrash, Crashed, PutRecord
  <2>1. Keeps
    BY <1>5, <2>b, <2>c, <2>d, <2>e, Zenon DEF Notes
  <2>2. put[p].key = k => ~Alive(put'[p])
    BY <1>5, DeadStaysDead, Zenon DEF Quiet
  <2> QED
    BY <2>1, <2>2, <1>b, Zenon DEF Quiet, NoNew, Present
<1> QED
  BY <1>2, <1>3, <1>4, <1>5, Zenon DEF PutStep, Notes

(* A healer writes and logs only keys of its batch, and reads only keys *)
(* that are in the WAL.                                                 *)
LEMMA HealerStepQuiet ==
    ASSUME TypeInv, NEW k \in Keys, Quiet(k), NEW h \in Healers, HealerStep(h), UNCHANGED put
    PROVE  Quiet(k)' /\ NoNew(k)
<1>a. /\ healer[h] \in HealerRecord /\ healer \in [Healers -> HealerRecord]
      /\ blobs \in [Stores -> SUBSET Keys]
  BY Zenon DEF TypeInv, TypeOK, HealerTypeOK, StorageTypeOK
<1>b. ASSUME NEW new, healer' = [healer EXCEPT ![h] = new], \A r \in new.batch : r.key # k,
             \A r \in wal' : r.key # k, NoNew(k)
      PROVE  Quiet(k)' /\ NoNew(k)
  BY <1>b, <1>a, Zenon DEF Quiet
<1>c. /\ \A r \in healer[h].batch : r.key # k
      /\ \A r \in wal : r.key # k
      /\ blobs' = blobs => NoNew(k)
  BY Zenon DEF Quiet, NoNew, Present
<1>1. CASE HealerRead(h)
  <2>1. PICK batch \in ReadEntries(ReadRange(h), healer[h].fetch) :
          /\ healer' = [healer EXCEPT ![h] =
               [phase |-> ReadPhase(batch),
                current |-> GrownFetch(healer[h].fetch, healer[h].current),
                fetch |-> GrownFetch(healer[h].fetch, healer[h].current),
                batch |-> batch, look |-> Unasked, requeue |-> {}]]
          /\ wal' = wal /\ blobs' = blobs
    BY <1>1, Zenon DEF HealerRead, storageVars
  <2>2. \A r \in batch : r.key # k
    BY <1>c, ReadEntriesOld, Zenon
  <2> DEFINE size == GrownFetch(healer[h].fetch, healer[h].current)
             new == [phase |-> ReadPhase(batch), current |-> size, fetch |-> size,
                     batch |-> batch, look |-> Unasked, requeue |-> {}]
  <2>3. healer' = [healer EXCEPT ![h] = new] /\ new.batch = batch
    BY <2>1, Zenon
  <2> HIDE DEF new
  <2> QED
    BY <2>1, <2>2, <2>3, <1>b, <1>c, Zenon
<1>2. CASE HealerReadErr(h)
  <2> DEFINE new == IF healer[h].fetch \div 2 < 1 THEN Started ELSE Shrunk(healer[h])
  <2>1. healer' = [healer EXCEPT ![h] = new] /\ wal' = wal /\ blobs' = blobs
    BY <1>2, Zenon DEF HealerReadErr
  <2>2. new.batch = {} \/ new.batch = healer[h].batch
    BY <1>a, Zenon DEF Started, Shrunk, HealerRecord
  <2> HIDE DEF new
  <2> QED
    BY <2>1, <2>2, <1>b, <1>c, Zenon
<1>3. ASSUME NEW j \in Keys, NEW s \in Stores, HealerGet(h, j, s) PROVE Quiet(k)' /\ NoNew(k)
  <2>1. PICK answer : healer' = [healer EXCEPT ![h].look[j][s] = answer]
    BY <1>3, Zenon DEF HealerGet
  <2>2. wal' = wal /\ blobs' = blobs
    BY <1>3, Zenon DEF HealerGet, storageVars
  <2>3. [healer[h] EXCEPT !.look[j][s] = answer].batch = healer[h].batch
    BY <1>a, Zenon DEF HealerRecord
  <2> QED
    BY <2>1, <2>2, <2>3, <1>b, <1>c, Zenon
<1>4. ASSUME NEW j \in Keys, NEW s \in Stores, HealerPut(h, j, s) PROVE Quiet(k)' /\ NoNew(k)
  <2>1. PICK answer : healer' = [healer EXCEPT ![h].look[j][s] = answer]
    BY <1>4, Zenon DEF HealerPut
  <2>2. wal' = wal /\ (blobs' = [blobs EXCEPT ![s] = @ \cup {j}] \/ blobs' = blobs)
    BY <1>4, Zenon DEF HealerPut
  <2>3. [healer[h] EXCEPT !.look[j][s] = answer].batch = healer[h].batch
    BY <1>a, Zenon DEF HealerRecord
  <2>4. j # k
    BY <1>4, <1>c, Zenon DEF HealerPut, BatchKeys
  <2>5. NoNew(k)
    BY <2>2, <2>4, <1>a, Zenon DEF NoNew, Present
  <2> QED
    BY <2>1, <2>2, <2>3, <2>5, <1>b, <1>c, Zenon
<1>5. CASE HealerOutcome(h)
  <2> DEFINE new == Requeuing(healer[h], ToEnqueue(h))
  <2>1. healer' = [healer EXCEPT ![h] = new] /\ wal' = wal /\ blobs' = blobs
    BY <1>5, Zenon DEF HealerOutcome, storageVars
  <2>2. new.batch = healer[h].batch
    BY <1>a, Zenon DEF Requeuing, HealerRecord
  <2> HIDE DEF new
  <2> QED
    BY <2>1, <2>2, <1>b, <1>c, Zenon
<1>6. CASE HealerRequeue(h)
  <2>1. PICK r \in healer[h].requeue, sh \in Shards :
          /\ \E retry : LogEntry(sh, r.key, 0, retry, HeldIds)
          /\ healer' = [healer EXCEPT ![h] = Requeuing(@, @.requeue \ {r})]
          /\ UNCHANGED <<blobs, faults>>
    BY <1>6, Zenon DEF HealerRequeue
  <2> DEFINE new == Requeuing(healer[h], healer[h].requeue \ {r})
  <2>2. r.key # k
    BY <1>c, Zenon DEF TypeInv, RequeueInRange
  <2>3. \A w \in wal' : w.key # k
    <3>1. PICK retry, id :
            wal' = wal \cup {[shard |-> sh, key |-> r.key, age |-> 0, retry |-> retry, id |-> id]}
      BY <2>1, Zenon DEF LogEntry
    <3> QED
      BY ONLY <3>1, <2>2, <1>c
  <2>4. new.batch = healer[h].batch
    BY <1>a, Zenon DEF Requeuing, HealerRecord
  <2>5. healer' = [healer EXCEPT ![h] = new] /\ blobs' = blobs
    BY <2>1, Zenon
  <2> HIDE DEF new
  <2> QED
    BY <2>3, <2>4, <2>5, <1>b, <1>c, Zenon
<1>7. CASE HealerDelete(h)
  <2>1. PICK sh, sent : /\ DeleteIds(sh, {r.id : r \in sent})
                        /\ healer' = [healer EXCEPT ![h] = Deleted(@, sent)]
                        /\ UNCHANGED <<blobs, faults>>
    BY <1>7, Zenon DEF HealerDelete
  <2> DEFINE new == Deleted(healer[h], sent)
  <2>2. \A w \in wal' : w.key # k
    BY <2>1, <1>c, Zenon DEF DeleteIds
  <2>3. new.batch \subseteq healer[h].batch
    BY <1>a, Zenon DEF Deleted, HealerRecord
  <2>4. healer' = [healer EXCEPT ![h] = new] /\ blobs' = blobs
    BY <2>1, Zenon
  <2> HIDE DEF new
  <2> QED
    BY <2>2, <2>3, <2>4, <1>b, <1>c, Zenon
<1>8. CASE HealerCrash(h)
  <2>1. healer' = [healer EXCEPT ![h] = Started] /\ wal' = wal /\ blobs' = blobs
    BY <1>8, Zenon DEF HealerCrash
  <2>2. \A r \in Started.batch : r.key # k
    BY Zenon DEF Started
  <2> QED
    BY <2>1, <2>2, <1>b, <1>c, Zenon
<1> QED
  BY <1>1, <1>2, <1>3, <1>4, <1>5, <1>6, <1>7, <1>8, Zenon DEF HealerStep

(* Time only makes what is over older. *)
LEMMA TickQuiet ==
    ASSUME TypeInv, NEW k \in Keys, Quiet(k), Tick
    PROVE  Quiet(k)' /\ NoNew(k)
<1>1. \A r \in wal' : r.key # k
  <2>1. \A r \in wal : [r EXCEPT !.age = Older(@, MinAge)].key = r.key
    BY Zenon DEF TypeInv, TypeOK, StorageTypeOK, Row
  <2> QED
    BY <2>1, Zenon DEF Tick, Quiet
<1>2. ASSUME NEW p \in Puts, put'[p].key = k PROVE ~Alive(put'[p])
  <2>1. /\ put[p] \in PutRecord
        /\ put'[p] = put[p] \/ put'[p] = [put[p] EXCEPT !.age = Older(@, TooOld)]
    BY Zenon DEF TypeInv, TypeOK, PutTypeOK, Tick
  <2>2. /\ put'[p].key = put[p].key /\ put'[p].state = put[p].state
        /\ put'[p].reply = put[p].reply /\ put'[p].landed = put[p].landed
        /\ put'[p].age = put[p].age \/ put'[p].age = Older(put[p].age, TooOld)
    BY <2>1, Zenon DEF PutRecord
  <2>3. put[p].age \in Int /\ PutTimeout \in Int
    BY Ages, TypesOfPuts, PutFields, Zenon
  <2>4. put'[p].age <= PutTimeout => put[p].age <= PutTimeout
    BY <2>2, <2>3 DEF Older
  <2>5. ~Alive(put[p])
    BY <1>2, <2>2, Zenon DEF Quiet
  <2> QED
    BY <2>2, <2>4, <2>5, Zenon DEF Alive
<1>3. healer' = healer /\ blobs' = blobs
  BY Zenon DEF Tick
<1> QED
  BY <1>1, <1>2, <1>3, Zenon DEF Quiet, NoNew, Present

-----------------------------------------------------------------------------
(* A step of puts, healers or time keeps the invariant of a running unlink. *)
LEMMA SystemStepInv ==
    ASSUME UnlinkInv, Next, UNCHANGED unlink,
           \A p \in Puts : (put[p].state = "idle" /\ put'[p].state # "idle") =>
              ~(unlink.state = "running" /\ put'[p].key = unlink.key)
    PROVE  UnlinkInv'
<1>a. TypeInv /\ unlink \in UnlinkRecord /\ unlink.key \in Keys
  BY Zenon DEF UnlinkInv, UnlinkRecord
<1>1. TypeInv'
  BY <1>a, PutStepType, HealerStepType, TickType, Zenon DEF Next
<1>2. ASSUME unlink.state = "running", unlink.calm
      PROVE  /\ Quiet(unlink.key)'
             /\ \A s \in MainStores : unlink.reply[s] = "ok" => ~Present(unlink.key, s)'
  <2>1. Quiet(unlink.key)
    BY <1>2, Zenon DEF UnlinkInv
  <2> DEFINE k == unlink.key
  <2>2. k \in Keys /\ k' = k /\ Quiet(k)
    BY <1>a, <2>1, Zenon
  <2> HIDE DEF k
  <2>3. Quiet(k)' /\ NoNew(k)
    <3>1. ASSUME NEW p \in Puts, PutStep(p, HeldIds), UNCHANGED healer PROVE Quiet(k)' /\ NoNew(k)
      <4>1. put[p].state = "idle" /\ put'[p].state # "idle" => put'[p].key # k
        BY <1>2, Zenon DEF k
      <4> QED
        BY <1>a, <2>2, <3>1, <4>1, PutStepQuiet, Zenon
    <3>2. ASSUME NEW h \in Healers, HealerStep(h), UNCHANGED put PROVE Quiet(k)' /\ NoNew(k)
      BY <1>a, <2>2, <3>2, HealerStepQuiet, Zenon
    <3>3. ASSUME Tick PROVE Quiet(k)' /\ NoNew(k)
      BY <1>a, <2>2, <3>3, TickQuiet, Zenon
    <3> QED
      BY <3>1, <3>2, <3>3, Zenon DEF Next
  <2> QED
    BY <1>2, <2>3, Zenon DEF k, NoNew, UnlinkInv, Stores
<1> QED
  BY <1>a, <1>1, <1>2, Zenon DEF UnlinkInv

(* A step of the unlink keeps it: a store is counted as done only when the *)
(* key left it or the presence check did not find it.                      *)
LEMMA UnlinkStepInv ==
    ASSUME UnlinkInv, NEW s \in MainStores, UnlinkStore(s) \/ UnlinkCheck(s)
    PROVE  UnlinkInv'
<1>k. PICK k : k = unlink.key
  BY Zenon
<1>a. /\ TypeInv /\ unlink \in UnlinkRecord /\ k \in Keys
      /\ unlink.reply \in [MainStores -> {"sent", "check", "ok", "err"}]
      /\ blobs \in [Stores -> SUBSET Keys]
      /\ faults \in 0 .. MaxFaults
  BY <1>k, Zenon DEF UnlinkInv, UnlinkRecord, TypeInv, TypeOK, StorageTypeOK
<1>1. /\ wal' = wal /\ put' = put /\ healer' = healer
      /\ faults' = faults \/ Fault
      /\ blobs' = [blobs EXCEPT ![s] = @ \ {k}] \/ blobs' = blobs
  BY <1>k, Zenon DEF UnlinkStore, UnlinkCheck, Remove
<1>2. PICK answer \in {"check", "ok", "err"} :
        /\ unlink' = [unlink EXCEPT !.reply[s] = answer]
        /\ answer = "ok" => ~Present(k, s)'
  <2>1. CASE UnlinkStore(s)
    BY <2>1, <1>a, <1>k, Zenon DEF UnlinkStore, Answered, Remove, Present, Stores
  <2>2. CASE UnlinkCheck(s)
    BY <2>2, <1>k, Zenon DEF UnlinkCheck, Answered, Present
  <2> QED
    BY <2>1, <2>2, Zenon
<1>3. /\ unlink' \in UnlinkRecord
      /\ unlink'.key = k /\ unlink'.calm = unlink.calm /\ unlink'.state = unlink.state
      /\ \A m \in MainStores : unlink'.reply[m] = IF m = s THEN answer ELSE unlink.reply[m]
  BY <1>2, <1>a, <1>k, Zenon DEF UnlinkRecord
<1>4. TypeInv'
  <2>1. blobs' \in [Stores -> SUBSET Keys]
    BY <1>1, <1>a, Zenon
  <2>2. faults' \in 0 .. MaxFaults
    BY <1>1, <1>a, StorageAssumption DEF Fault
  <2> QED
    BY <1>1, <1>a, <2>1, <2>2, Zenon DEF TypeInv, TypeOK, StorageTypeOK, PutTypeOK, HealerTypeOK,
                            RequeueInRange, MissingBlob
<1>5. \A m \in Stores : Present(k, m)' => Present(k, m)
  BY <1>1, <1>a, Zenon DEF Present
<1>6. ASSUME unlink.state = "running", unlink.calm
      PROVE  Quiet(k)' /\ \A m \in MainStores : unlink'.reply[m] = "ok" => ~Present(k, m)'
  <2>1. Quiet(k) /\ \A m \in MainStores : unlink.reply[m] = "ok" => ~Present(k, m)
    BY <1>6, <1>k, Zenon DEF UnlinkInv
  <2>3. Quiet(k)'
    BY <2>1, <1>1, Zenon DEF Quiet
  <2> QED
    BY <2>1, <2>3, <1>2, <1>3, <1>5, Zenon DEF Stores
<1> QED
  BY <1>3, <1>4, <1>6, Zenon DEF UnlinkInv

(* The invariant of an unlink next to puts and healers. *)
LEMMA UnlinkInvariant == UnlinkSpec => []UnlinkInv
<1>1. UnlinkInit => UnlinkInv
  <2> SUFFICES ASSUME UnlinkInit PROVE UnlinkInv
    BY Zenon
  <2>1. TypeInv
    BY TypeInit, Zenon DEF UnlinkInit
  <2>2. (CHOOSE k \in Keys : TRUE) \in Keys
    BY StorageAssumption, Zenon
  <2> QED
    BY <2>1, <2>2, Zenon DEF UnlinkInit, UnlinkInv, UnlinkRecord
<1>2. UnlinkInv /\ [UnlinkNext]_unlinkVars => UnlinkInv'
  <2> SUFFICES ASSUME UnlinkInv, [UnlinkNext]_unlinkVars PROVE UnlinkInv'
    BY Zenon
  <2>a. ASSUME UNCHANGED vars PROVE TypeInv' /\ \A k \in Keys : Quiet(k) => Quiet(k)'
    BY <2>a, Zenon DEF vars, UnlinkInv, TypeInv, TypeOK, StorageTypeOK, PutTypeOK, HealerTypeOK,
                RequeueInRange, MissingBlob, Quiet
  <2>1. ASSUME NEW k \in Keys, UnlinkStart(k) PROVE UnlinkInv'
    <3>1. UNCHANGED vars /\ unlink' \in UnlinkRecord /\ unlink'.key = k
      BY <2>1, Zenon DEF UnlinkStart, UnlinkRecord
    <3>2. unlink'.calm => Quiet(k)
      BY <2>1, CalmIsQuiet, Zenon DEF UnlinkStart
    <3>3. \A s \in MainStores : unlink'.reply[s] # "ok"
      BY <2>1, Zenon DEF UnlinkStart
    <3>4. TypeInv' /\ (unlink'.calm => Quiet(k)')
      BY <3>1, <3>2, <2>a, Zenon
    <3> QED
      BY <3>1, <3>3, <3>4, Zenon DEF UnlinkInv
  <2>2. CASE UnlinkReturn
    <3>1. UNCHANGED vars /\ unlink' \in UnlinkRecord /\ unlink'.state # "running"
      BY <2>2, Zenon DEF UnlinkReturn, UnlinkInv, UnlinkRecord
    <3> QED
      BY <3>1, <2>a, Zenon DEF UnlinkInv
  <2>3. CASE UNCHANGED unlinkVars
    <3>1. UNCHANGED vars /\ UNCHANGED unlink
      BY <2>3, Zenon DEF unlinkVars, vars
    <3>2. unlink.key \in Keys
      BY Zenon DEF UnlinkInv, UnlinkRecord
    <3> QED
      BY <3>1, <3>2, <2>a, Zenon DEF UnlinkInv, Present, vars
  <2> QED
    BY <2>1, <2>2, <2>3, SystemStepInv, UnlinkStepInv, Zenon DEF UnlinkNext
<1> QED
  BY <1>1, <1>2, PTL DEF UnlinkSpec

(* An unlink that starts when no background write, WAL row or healer can    *)
(* bring the key back counts a store as done only when the key is gone from *)
(* it, and nothing brings the key back before unlink_impl answers: neither  *)
(* other puts, nor healers, nor the errors of `unlink` and `is_present`.    *)
THEOREM UnlinkedGone == UnlinkSpec => []UnlinkedStaysGone
<1>1. UnlinkInv => UnlinkedStaysGone
  BY Zenon DEF UnlinkInv, UnlinkedStaysGone
<1> QED
  BY <1>1, UnlinkInvariant, PTL
=============================================================================
