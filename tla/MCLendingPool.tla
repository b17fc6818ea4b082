--------------------------- MODULE MCLendingPool ---------------------------
(* Bounded instances of LendingPool for TLC.                               *)
EXTENDS LendingPool, TLC

Symmetry == Permutations(Investors)
=============================================================================
