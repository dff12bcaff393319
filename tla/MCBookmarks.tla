---------------------------- MODULE MCBookmarks ----------------------------
EXTENDS Bookmarks, TLC

CONSTANTS c1, c2

Op(k, n, o, c) == [kind |-> k, name |-> n, old |-> o, new |-> c]

(* One operation of every kind, and two transactions on both bookmarks *)
(* that name them in opposite order.                                   *)
SomeOps ==
    {<<Op("update", 1, c1, c2)>>,
     <<Op("delete", 1, c1, NoCs)>>,
     <<Op("create_or_update", 1, NoCs, c2)>>,
     <<Op("create", 2, NoCs, c1), Op("update", 1, c1, c2)>>,
     <<Op("force_set", 1, NoCs, c1), Op("force_delete", 2, NoCs, NoCs)>>,
     <<Op("force_set", 2, NoCs, c2)>>}

Move(id, o, c) == [name |-> 1, log_id |-> id, old |-> o, new |-> c]

(* The source's bookmark leaves a changeset and comes back to it. *)
SomeMoves == <<Move(2, NoCs, c1), Move(3, c1, c2), Move(5, c2, c1), Move(6, c1, c2)>>

Symmetry == Permutations(Writers)
=============================================================================
