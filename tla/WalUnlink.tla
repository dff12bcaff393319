------------------------------ MODULE WalUnlink ------------------------------
(***************************************************************************)
(* unlink_impl of WalMultiplexedBlobstore (multiplex.rs) next to puts and  *)
(* healers.  The caller keeps its side of the contract: no put of the key  *)
(* is waiting for its answer when the unlink starts, and none starts       *)
(* before it returned.  The background writes of an answered put and the   *)
(* healer are not under the caller's control.                              *)
(***************************************************************************)
EXTENDS WalSystem

VARIABLE unlink   \* one unlink_impl

unlinkVars == <<blobs, wal, faults, put, healer, unlink>>

UnlinkRecord ==
    [state : {"idle", "running", "ok", "failed"},
     key   : Keys,
     calm  : BOOLEAN,   \* nothing was writing the key, and no row asked to, at the start
     reply : [MainStores -> {"sent", "check", "ok", "err"}]]

(* A write of the key is in flight, or the WAL can still cause one. *)
Unsettled(k) ==
    \/ Pending(k)
    \/ \E p \in Puts : put[p].key = k /\ \E s \in Stores : CanLand(p, s)
    \/ \E h \in Healers : k \in BatchKeys(h)

UnlinkStart(k) ==
    /\ unlink.state = "idle"
    /\ \A p \in Puts : put[p].key = k => put[p].state # "writing"
    /\ unlink' = [state |-> "running", key |-> k, calm |-> ~Unsettled(k),
                  reply |-> [s \in MainStores |-> "sent"]]
    /\ UNCHANGED vars

Answered(s, reply) == unlink' = [unlink EXCEPT !.reply[s] = reply]

Remove(s) == blobs' = [blobs EXCEPT ![s] = @ \ {unlink.key}]

(* The unlink of one store: a store that does not hold the key refuses. *)
UnlinkStore(s) ==
    /\ unlink.state = "running"
    /\ unlink.reply[s] = "sent"
    /\ \/ Present(unlink.key, s) /\ Remove(s) /\ Answered(s, "ok") /\ UNCHANGED faults
       \/ ~Present(unlink.key, s) /\ Answered(s, "check") /\ UNCHANGED <<blobs, faults>>
       \/ Fault /\ Answered(s, "check") /\ (Remove(s) \/ UNCHANGED blobs)
    /\ UNCHANGED <<wal, put, healer>>

(* Mutant: an error of is_present is taken for an absent key. *)
UnlinkCheckTrusting(s) ==
    /\ unlink.state = "running"
    /\ unlink.reply[s] = "check"
    /\ \/ ~Present(unlink.key, s) /\ Answered(s, "ok") /\ UNCHANGED faults
       \/ Present(unlink.key, s) /\ Answered(s, "err") /\ UNCHANGED faults
       \/ Fault /\ Answered(s, "ok")
    /\ UNCHANGED <<blobs, wal, put, healer>>

(* After an error, is_present decides: absent is as good as unlinked. *)
UnlinkCheck(s) ==
    /\ unlink.state = "running"
    /\ unlink.reply[s] = "check"
    /\ \/ ~Present(unlink.key, s) /\ Answered(s, "ok") /\ UNCHANGED faults
       \/ Present(unlink.key, s) /\ Answered(s, "err") /\ UNCHANGED faults
       \/ Fault /\ Answered(s, "err")
    /\ UNCHANGED <<blobs, wal, put, healer>>

UnlinkReturn ==
    /\ unlink.state = "running"
    /\ \A s \in MainStores : unlink.reply[s] \in {"ok", "err"}
    /\ unlink' = [unlink EXCEPT !.state =
                    IF \A s \in MainStores : unlink.reply[s] = "ok" THEN "ok" ELSE "failed"]
    /\ UNCHANGED vars

UnlinkInit ==
    /\ Init
    /\ unlink = [state |-> "idle", key |-> CHOOSE k \in Keys : TRUE, calm |-> FALSE,
                 reply |-> [s \in MainStores |-> "sent"]]

UnlinkNext ==
    \/ Next /\ UNCHANGED unlink
         /\ \A p \in Puts : (put[p].state = "idle" /\ put'[p].state # "idle") =>
              ~(unlink.state = "running" /\ put'[p].key = unlink.key)
    \/ \E k \in Keys : UnlinkStart(k)
    \/ \E s \in MainStores : UnlinkStore(s) \/ UnlinkCheck(s)
    \/ UnlinkReturn

UnlinkSpec == UnlinkInit /\ [][UnlinkNext]_unlinkVars

-----------------------------------------------------------------------------
(* When no background write, WAL row or healer can bring the key back, a     *)
(* store that unlink_impl counts as done does not have the key, up to the    *)
(* answer: an error of `unlink` alone is not taken for an absent key, nor an *)
(* error of the presence check.                                              *)
UnlinkedStaysGone ==
    unlink.state = "running" /\ unlink.calm =>
        \A s \in MainStores : unlink.reply[s] = "ok" => ~Present(unlink.key, s)
=============================================================================
