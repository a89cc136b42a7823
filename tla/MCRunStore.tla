---------------------------- MODULE MCRunStore ----------------------------
(* The instances of RunStore that TLC checks.                             *)
EXTENDS RunStore

CONSTANTS r1, r2

TwoRequests == {r1, r2}
Symmetry    == Permutations(TwoRequests)
=============================================================================
