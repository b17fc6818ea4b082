------------------------ MODULE MCLendingPoolAudit -------------------------
(* Bounded instances of LendingPoolAudit for TLC.                          *)
EXTENDS LendingPoolAudit, TLC

Symmetry == Permutations(Investors)
=============================================================================
