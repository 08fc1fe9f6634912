------------------------- MODULE MCRevisionDelivery -------------------------
(* Small instances of RevisionDelivery for TLC.                            *)
EXTENDS RevisionDelivery, TLC

CONSTANTS r1, r2, u1, j1

TwoReviews == {r1, r2}
OneDirect  == {u1}
OneJob     == {j1}
None       == {}

AllFaults    == FaultKinds
PromptFaults == FaultKinds \ {"stale"}

\* Review requests differ only by name.
RequestSymmetry == Permutations(Reviews)
=============================================================================
