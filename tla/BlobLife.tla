------------------------------ MODULE BlobLife ------------------------------
(***************************************************************************)
(* What the WAL multiplexed blobstore and its healer promise together,     *)
(* seen from one key: it is announced before it is written, once written   *)
(* it is never given up, and once whole it stays whole.                    *)
(***************************************************************************)
CONSTANT Keys

VARIABLE life   \* life[k]: how far the key is

(* "none": unknown; "open": announced, in no store; "partial": announced   *)
(* and in some stores; "whole": in every store.                            *)
Stages == {"none", "open", "partial", "whole"}

MayBecome(stage) ==
    CASE stage = "none"    -> {"open"}
      [] stage = "open"    -> {"none", "partial", "whole"}
      [] stage = "partial" -> {"whole"}
      [] OTHER             -> {}

LifeInit == life = [k \in Keys |-> "none"]

(* Several keys may move at once: one DELETE can drop rows of several. *)
LifeNext ==
    /\ life' \in [Keys -> Stages]
    /\ \A k \in Keys : life'[k] \in {life[k]} \cup MayBecome(life[k])

LifeSpec == LifeInit /\ [][LifeNext]_life
=============================================================================
