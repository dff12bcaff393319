---------------------------- MODULE MCWalSystem ----------------------------
EXTENDS WalSystem, TLC

(* --shard-range "..": every healer reads every shard. *)
FromFirst == [h \in Healers |-> 0]
ToLast == [h \in Healers |-> NumShards - 1]

(* --shard-range "1": the healer reads the second shard only. *)
FromSecond == [h \in Healers |-> 1]

KeySymmetry == Permutations(Keys) \cup Permutations(MainStores) \cup Permutations(Puts)

Symmetry == Permutations(MainStores) \cup Permutations(Puts) \cup Permutations(Healers)
=============================================================================
