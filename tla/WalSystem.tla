------------------------------ MODULE WalSystem ------------------------------
(***************************************************************************)
(* Servers putting blobs through the WAL multiplexed blobstore while        *)
(* healers work on the same stores and the same WAL.                        *)
(***************************************************************************)
EXTENDS WalMultiplex, WalHealer

vars == <<blobs, wal, faults, put, healer>>

Older(age, limit) == IF age < limit THEN age + 1 ELSE age

(* Time passes.  with_timeout answers every main write within PutTimeout. *)
Tick ==
    /\ \A p \in Puts : put[p].state = "writing" => put[p].age < PutTimeout
    /\ wal' = {[r EXCEPT !.age = Older(@, MinAge)] : r \in wal}
    /\ put' = [p \in Puts |-> IF put[p].state \in {"writing", "failed", "dead"}
                              THEN [put[p] EXCEPT !.age = Older(@, TooOld)] ELSE put[p]]
    /\ UNCHANGED <<blobs, faults, healer>>

Init == StorageInit /\ PutInit /\ HealerInit

Next ==
    \/ \E p \in Puts : PutStep(p, HeldIds) /\ UNCHANGED healer
    \/ \E h \in Healers : HealerStep(h) /\ UNCHANGED put
    \/ Tick

Spec == Init /\ [][Next]_vars

(* Fairness.  Tokio polls every task that is ready, TimedStore answers every *)
(* write, and a supervisor keeps the healer running; nothing makes a store   *)
(* fail or a process crash, and MaxFaults bounds how often they do.  Nothing *)
(* makes a write that failed or was dropped take effect after all.           *)
PutProgress(p) ==
    \/ \E s \in Stores : put[p].reply[s] = "inflight" /\ PutLand(p, s)
    \/ \E s \in Stores : PutOk(p, s)
    \/ PutDelete(p)

HealerProgress(h) ==
    \/ HealerRead(h) \/ HealerOutcome(h) \/ HealerRequeue(h) \/ HealerDelete(h)
    \/ \E k \in Keys, s \in Stores : HealerGet(h, k, s) \/ HealerPut(h, k, s)

Fairness ==
    /\ \A p \in Puts : WF_vars(PutProgress(p) /\ UNCHANGED healer)
    /\ \A h \in Healers : WF_vars(HealerProgress(h) /\ UNCHANGED put)
    /\ WF_vars(Tick)

FairSpec == Spec /\ Fairness

-----------------------------------------------------------------------------
TypeOK == StorageTypeOK /\ PutTypeOK /\ HealerTypeOK

(* A key that is in some store but not in all has a row in the WAL, at every *)
(* moment: whatever fails or crashes between the log, the writes, the early  *)
(* answer, delete_by_key and the healer's requeue and delete, and although a *)
(* row is dropped after MAX_WAL_RETRIES, no partly written blob is ever out  *)
(* of the healer's sight.                                                    *)
NoPartialForgotten ==
    \A k \in Keys : (\E s \in Stores : Present(k, s)) /\ ~Replicated(k) => Pending(k)

(* A put answered Ok is, and stays, in a write quorum of the main stores. *)
AckedOnQuorum ==
    \A p \in Puts : Acked(p) =>
        Cardinality({s \in MainStores : Present(put[p].key, s)}) >= WriteQuorum

(* The stage of a key in the abstract specification BlobLife. *)
Stage(k) ==
    CASE Replicated(k) -> "whole"
      [] ~Replicated(k) /\ Pending(k) /\ (\E s \in Stores : Present(k, s)) -> "partial"
      [] ~Replicated(k) /\ Pending(k) /\ (\A s \in Stores : ~Present(k, s)) -> "open"
      [] ~Replicated(k) /\ ~Pending(k) /\ (\A s \in Stores : ~Present(k, s)) -> "none"
      [] OTHER -> "lost"

Life == INSTANCE BlobLife WITH life <- [k \in Keys |-> Stage(k)]

(* Puts and healers together implement BlobLife: no store is written before *)
(* the row is in the WAL, a row is given up only while no store has the     *)
(* key, a partly written key can only become whole, and a whole key stays.  *)
ImplementsBlobLife == Life!LifeSpec

(* Every key that reached some store reaches every store, the write-only    *)
(* ones included: although background writes may fail, be dropped with      *)
(* their stream or die with the server, and although put_impl may have      *)
(* answered an error, the healer completes what was begun.                  *)
WrittenReachesAllStores ==
    \A k \in Keys : (\E s \in Stores : Present(k, s)) ~> Replicated(k)

(* The WAL drains: healed rows are deleted, and rows whose blob is nowhere  *)
(* are retried a bounded number of times.                                   *)
WalDrains == <>[](wal = {})

(* The fetch size that falls on read errors climbs back to the batch size,  *)
(* as the comment in fetch_entries promises ("Growth is at least 1").       *)
FetchSizeRecovers ==
    \A h \in Healers : <>[](healer[h].phase = "fetch" => healer[h].current = BatchSize)
=============================================================================
