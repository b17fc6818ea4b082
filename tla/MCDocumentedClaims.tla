------------------------ MODULE MCDocumentedClaims -------------------------
(* Bounded instances of DocumentedClaims for TLC.                          *)
EXTENDS DocumentedClaims

\* 3 drawn as 1 and 2; over 2 months the slice is 1.
OneFacility == {[principal |-> 3, term_months |-> 2, rate_bps |-> 2]}
=============================================================================
