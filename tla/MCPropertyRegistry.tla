------------------------- MODULE MCPropertyRegistry ------------------------
(* Bounded instances of PropertyRegistry for TLC.                          *)
EXTENDS PropertyRegistry, TLC

Symmetry == Permutations(Evidence) \cup Permutations(TrusteeChanges)
=============================================================================
