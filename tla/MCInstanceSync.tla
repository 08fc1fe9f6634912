--------------------------- MODULE MCInstanceSync ---------------------------
(***************************************************************************)
(* Two or three requests of any kind and a history of two chats.           *)
(***************************************************************************)
EXTENDS InstanceSync, TLC

CONSTANTS r1, r2, r3, c1, c2

Symmetry == Permutations({r1, r2, r3})

AnyFlow == [r \in Requests |-> AllFlows]
=============================================================================
