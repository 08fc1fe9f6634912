---------------------------- MODULE MCMenuImports ----------------------------
(* Small instances of MenuImports for TLC.                                 *)
EXTENDS MenuImports, TLC

CONSTANTS a, b, i1, i2, r1, r2

TwoCategories == {a, b}
TwoImports    == {i1, i2}
TwoCalls   == {r1, r2}
CrossedMenus  == {<<a, b>>, <<b, a>>}
AllFaults     == FaultKinds
==============================================================================
