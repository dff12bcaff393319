-------------------------- MODULE MCAsyncRequests --------------------------
(* Two requests, the second on its own or waiting for the first. *)
EXTENDS AsyncRequests

CONSTANTS a, b

Alone == [r \in Requests |-> {}]
Chain == [Alone EXCEPT ![b] = {a}]
SomeDependencies == {Alone, Chain}
=============================================================================
