--------------------------- MODULE MCLoanLedger ----------------------------
(* Bounded instances of LoanLedger for TLC.                                *)
EXTENDS LoanLedger

\* Principals that divide into three stages with and without a remainder, one
\* smaller than the number of stages; terms that divide them and not; rates
\* that leave a remainder every month, and none.
SomeFacilities == [principal : {2, 3, 5}, term_months : {1, 2, 3}, rate_bps : {0, 1, 3}]
=============================================================================
