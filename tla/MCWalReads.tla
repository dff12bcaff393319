----------------------------- MODULE MCWalReads -----------------------------
EXTENDS WalReads, TLC

(* Nothing is disabled; two stores are, so that fewer main stores than a *)
(* quorum are left; all main stores are; or all stores.                  *)
SomeKnob == {off \in SUBSET Stores : Cardinality(off) \in {0, 2} \/ MainStores \subseteq off}

Symmetry == Permutations(MainStores) \cup Permutations(Puts)
=============================================================================
