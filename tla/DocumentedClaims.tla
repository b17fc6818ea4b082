------------------------- MODULE DocumentedClaims --------------------------
(***************************************************************************)
(* What the documentation and the comments say of the contracts together   *)
(* and the code does not do.  Each is checked by a run that TLC finds      *)
(* violated; README.md walks through the counterexamples.                  *)
(***************************************************************************)
EXTENDS StellarHomes

\* "`disburse` is permissionless once a stage is signed off", and the worked
\* example draws the walls tranche after the first payment: a signed-off stage
\* of a live loan can be drawn.
RepayingLoansCanDraw ==
  \A id \in Live : \A stage \in Registry!Stages :
    /\ Registry!IsReleasable(mortgages[id].property_id, stage)
    /\ TrancheFor(mortgages[id], stage) > 0
    => ENABLED Disburse(id, stage)

\* "Free a property once its loan is closed, so it can be financed again": on a
\* property whose loans are all closed, somebody can apply for a new one.
ClosedLoansFreeTheProperty ==
  \A p \in Registry!PropertyIds :
    (\E id \in LoansWith({"PaidOff", "Defaulted"}) : mortgages[id].property_id = p)
      /\ p \notin DOMAIN property_mortgage
      => \E f \in Facilities : ENABLED Apply(p, f.principal, f.term_months, f.rate_bps)

\* "so the new tranche is not charged for time it was not outstanding": less
\* than a month after a draw, a borrower owes no more interest than without it.
DrawsAreNotChargedForThePast ==
  [][\A id \in MortgageIds :
       LET before == mortgages[id]
           after  == mortgages'[id]
       IN  id \in MortgageIds' /\ after.disbursed > before.disbursed =>
             \A t \in now..(now + SECONDS_PER_MONTH - 1) :
               Accrue(after, t).interest_accrued <= Accrue(before, t).interest_accrued]_vars

\* "so the loan clears on schedule": a loan paid as many instalments as its
\* term has months owes nothing.
LoansClearOnSchedule ==
  \A id \in Live : mortgages[id].payments_made < mortgages[id].term_months

=============================================================================
