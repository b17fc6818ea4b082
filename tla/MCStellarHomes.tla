-------------------------- MODULE MCStellarHomes ---------------------------
(* Bounded instances of StellarHomes for TLC.                              *)
EXTENDS HomesRefinement

Facility(principal, term_months, rate_bps) ==
  [principal |-> principal, term_months |-> term_months, rate_bps |-> rate_bps]

\* A facility of 3 in 2 stages is drawn 1 then 2; over 2 months its slice is 1,
\* so the last payment clears a remainder.
OneFacility == {Facility(3, 2, 2)}

\* Small facilities for runs with two loans: the second one has a stage that
\* no tranche reaches.
SmallFacilities == {Facility(2, 1, 2), Facility(1, 1, 0)}
=============================================================================
