---------------------------- MODULE LoanLedger -----------------------------
(***************************************************************************)
(* One loan against an ideal ledger.                                       *)
(*                                                                         *)
(* mortgage_pool charges interest lazily: the record is brought up to date *)
(* only when somebody draws, pays or defaults, and then for all the whole  *)
(* months since the last time, with the remainder of the division carried. *)
(* The ideal ledger charges, at the end of each month since the first      *)
(* draw, the month's exact interest (in units of 1/ChargeDivisor) on the   *)
(* balance of that moment.  The properties say that the two never differ.  *)
(*                                                                         *)
(* loan and now are the state of the code; first_draw and charged are the  *)
(* ledger, and no step of the loan reads them.                             *)
(***************************************************************************)
EXTENDS MortgageLoan, Totals

CONSTANTS
  Facilities,   \* [principal, term_months, rate_bps] of the loan
  Payments,     \* the amounts the borrower pays
  Graces,       \* the grace periods in force at one time or another
  MaxTime,      \* bound on now
  Horizon       \* how far ahead the views are compared

ASSUME LoanLedgerAssumption ==
  /\ Facilities \subseteq [principal : Nat, term_months : Nat \ {0}, rate_bps : Nat]
  /\ Payments \subseteq Nat
  /\ Graces \subseteq Nat
  /\ MaxTime \in Nat
  /\ Horizon \in Nat

VARIABLES
  loan,         \* the Mortgage record
  drawn,        \* the stages whose tranche has been released
  now,          \* the ledger timestamp
  first_draw,   \* when the first tranche was drawn; 0 before
  charged       \* exact interest charged so far, in 1/ChargeDivisor units

ledgerVars == <<loan, drawn, now, first_draw, charged>>

Stages == 0..(MILESTONE_COUNT - 1)

LedgerInit ==
  /\ \E f \in Facilities :
       loan = [Application(1, f.principal, f.term_months, f.rate_bps)
                 EXCEPT !.status = "Approved"]
  /\ drawn = {}
  /\ now \in 1..MaxTime
  /\ first_draw = 0
  /\ charged = 0

\* draws the last stage like any other, and leaves the remainder behind
Draw_EqualTranches(stage) ==
  LET tranche == loan.principal \div MILESTONE_COUNT
  IN  /\ loan.status \in {"Approved", "Funded"}
      /\ stage \notin drawn
      /\ tranche > 0
      /\ loan' = AfterDraw(Accrue(loan, now), tranche, now)
      /\ drawn' = drawn \cup {stage}
      /\ first_draw' = IF IsFirstDraw(loan) THEN now ELSE first_draw
      /\ UNCHANGED <<now, charged>>

\* disburse, for a stage the registry finds releasable
Draw(stage) ==
  /\ loan.status \in {"Approved", "Funded"}
  /\ stage \notin drawn
  /\ TrancheFor(loan, stage) > 0
  /\ loan' = AfterDraw(Accrue(loan, now), TrancheFor(loan, stage), now)
  /\ drawn' = drawn \cup {stage}
  /\ first_draw' = IF IsFirstDraw(loan) THEN now ELSE first_draw
  /\ UNCHANGED <<now, charged>>

\* repay
Pay(amount) ==
  /\ amount > 0
  /\ loan.status \in {"Funded", "Repaying"}
  /\ LET m     == Accrue(loan, now)
         after == AfterPayment(m, Smaller(amount, Payoff(m)))
     IN  /\ IsEnough(m, amount)
         /\ loan' = IF IsCleared(after) THEN [after EXCEPT !.status = "PaidOff"]
                                        ELSE after
  /\ UNCHANGED <<drawn, now, first_draw, charged>>

\* mark_default, under whatever grace period is in force
Default ==
  /\ loan.status \in {"Funded", "Repaying"}
  /\ \E grace \in Graces : IsInDefault(loan, now, grace)
  /\ loan' = [Accrue(loan, now) EXCEPT !.status = "Defaulted"]
  /\ UNCHANGED <<drawn, now, first_draw, charged>>

\* A month of the loan ends at time t.
MonthEnds(t) ==
  /\ loan.status \in {"Funded", "Repaying"}
  /\ t > first_draw
  /\ (t - first_draw) % SECONDS_PER_MONTH = 0

Tick ==
  /\ now < MaxTime
  /\ now' = now + 1
  /\ charged' = IF MonthEnds(now + 1) THEN charged + loan.outstanding * loan.rate_bps
                                      ELSE charged
  /\ UNCHANGED <<loan, drawn, first_draw>>

LedgerNext ==
  \/ \E stage \in Stages : Draw(stage)
  \/ \E amount \in Payments : Pay(amount)
  \/ Default
  \/ Tick

LedgerSpec == LedgerInit /\ [][LedgerNext]_ledgerVars

-----------------------------------------------------------------------------
(* Properties.                                                             *)

\* The loan, the clock and the ledger have their types.
LedgerTypeOK ==
  /\ loan \in Mortgage
  /\ drawn \subseteq Stages
  /\ now \in Nat
  /\ first_draw \in Nat
  /\ charged \in Nat

IsOpen == loan.status \in {"Funded", "Repaying"}

\* No unit of interest is lost or charged twice: whenever and however often
\* the record is brought up to date, what the borrower has been charged plus
\* the carried remainder is exactly what the ideal ledger charged.
InterestIsExact ==
  LET m == IF IsOpen THEN Accrue(loan, now) ELSE loan
  IN  (m.interest_accrued + m.interest_paid) * ChargeDivisor + m.interest_carry = charged

\* "any sequence of accruals over the same period comes to exactly the same
\* figure": bringing the loan up to date now and again later is bringing it up
\* to date once, later.
AccrualsCompose ==
  \A later \in now..(now + Horizon) :
    Accrue(Accrue(loan, now), later) = Accrue(loan, later)

\* A borrower who has paid once for every month that has passed cannot be
\* defaulted, in whatever order draws and payments came and whatever the grace
\* period has become since: none at all, or one so long that the end of it is
\* no longer a u64.
PaidUpIsSafe ==
  IsOpen /\ loan.payments_made >= (now - first_draw) \div SECONDS_PER_MONTH
    => \A grace \in Graces \cup {0} : ~IsInDefault(loan, now, grace)

\* What was drawn is the tranches of the stages released, whatever was paid in
\* between, and the tranches of all stages are the facility, with nothing left
\* over.  What a borrower owes of it is what was drawn and not repaid: interest
\* never turns into principal, and an open loan always owes some.  A loan that
\* was paid off has brought back all that was drawn and charged, but for the
\* fraction of a unit carried.
InterestNeverBecomesPrincipal ==
  /\ loan.disbursed = Total([s \in drawn |-> TrancheFor(loan, s)])
  /\ loan.principal = Total([s \in Stages |-> TrancheFor(loan, s)])
  /\ loan.outstanding = loan.disbursed - (loan.total_repaid - loan.interest_paid)
  /\ IsOpen => loan.outstanding > 0
  /\ loan.status = "PaidOff" =>
       loan.total_repaid * ChargeDivisor + loan.interest_carry
         = loan.disbursed * ChargeDivisor + charged

=============================================================================
