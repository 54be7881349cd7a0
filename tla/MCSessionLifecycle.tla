------------------------- MODULE MCSessionLifecycle -------------------------
(***************************************************************************)
(* Two sessions built, used and dropped side by side over one library.     *)
(***************************************************************************)
EXTENDS SessionLifecycle, TLC

CONSTANTS a, b

TwoSessions == {a, b}
SomeBatches == {0, 3}
SomeDefaults == {0, 2}
SomeLens == {-1, 0, 3}
Symmetry == Permutations(TwoSessions)
=============================================================================
