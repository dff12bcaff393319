---------------------------- MODULE MCWalUnlink ----------------------------
EXTENDS WalUnlink, TLC

(* --shard-range "..": every healer reads every shard. *)
FromFirst == [h \in Healers |-> 0]
ToLast == [h \in Healers |-> NumShards - 1]

Symmetry == Permutations(MainStores)
=============================================================================
