--------------------------- MODULE MortgageLoan ----------------------------
(***************************************************************************)
(* The arithmetic of one loan: the pure part of                            *)
(* contracts/mortgage_pool/src/lib.rs.  Every operator takes a Mortgage    *)
(* record, and the ledger timestamp where the code reads it.               *)
(*                                                                         *)
(* Fields no operation reads (id, borrower, created_at) are left out.      *)
(***************************************************************************)
EXTENDS Integers

CONSTANTS
  BPS_DENOMINATOR,     \* 10 000 in the code
  MONTHS_PER_YEAR,     \* 12 in the code
  SECONDS_PER_MONTH,   \* 30 days in the code
  MILESTONE_COUNT,     \* 5 in the code
  MAX_U64              \* u64::MAX: an addition beyond it panics

ASSUME MortgageLoanAssumption ==
  /\ BPS_DENOMINATOR \in Nat \ {0}
  /\ MONTHS_PER_YEAR \in Nat \ {0}
  /\ SECONDS_PER_MONTH \in Nat \ {0}
  /\ MILESTONE_COUNT \in Nat \ {0}
  /\ MAX_U64 \in Nat

MortgageStatus == {"Applied", "Approved", "Funded", "Repaying", "PaidOff", "Defaulted"}

Mortgage == [property_id : Nat, principal : Nat, term_months : Nat \ {0}, rate_bps : Nat,
             status : MortgageStatus, disbursed : Nat, outstanding : Nat,
             interest_accrued : Nat, interest_carry : Nat,
             total_repaid : Nat, interest_paid : Nat, payments_made : Nat,
             last_accrued_at : Nat, next_payment_due : Nat]

\* The record apply writes.
Application(property_id, principal, term_months, rate_bps) ==
  [property_id |-> property_id, principal |-> principal, term_months |-> term_months,
   rate_bps |-> rate_bps, status |-> "Applied", disbursed |-> 0, outstanding |-> 0,
   interest_accrued |-> 0, interest_carry |-> 0, total_repaid |-> 0, interest_paid |-> 0,
   payments_made |-> 0, last_accrued_at |-> 0, next_payment_due |-> 0]

Smaller_Larger(a, b) == IF a <= b THEN b ELSE a

Smaller(a, b) == IF a <= b THEN a ELSE b

-----------------------------------------------------------------------------
(* Interest.  An operator named Op_Mistake is a slip, as in LendingPool.   *)

MonthsSince(m, now) == (now - m.last_accrued_at) \div SECONDS_PER_MONTH

\* A loan that has been drawn, still owes principal and has a whole month to
\* be charged for; accrue returns early on any other.
OwesInterest(m, now) ==
  /\ m.last_accrued_at # 0
  /\ m.outstanding > 0
  /\ now > m.last_accrued_at
  /\ MonthsSince(m, now) > 0

ChargeDivisor == BPS_DENOMINATOR * MONTHS_PER_YEAR

Charge_WithoutCarry(m, months) == m.outstanding * m.rate_bps * months

\* the numerator of the interest for so many months
Charge(m, months) == m.outstanding * m.rate_bps * months + m.interest_carry

\* loses the part of a month that has passed
Accrue_ClockToNow(m, now) ==
  LET charge == Charge(m, MonthsSince(m, now))
  IN  IF OwesInterest(m, now)
      THEN [m EXCEPT !.interest_accrued = @ + charge \div ChargeDivisor,
                     !.interest_carry   = charge % ChargeDivisor,
                     !.last_accrued_at  = now]
      ELSE m

Accrue(m, now) ==
  LET months == MonthsSince(m, now)
      charge == Charge(m, months)
  IN  IF OwesInterest(m, now)
      THEN [m EXCEPT !.interest_accrued = @ + charge \div ChargeDivisor,
                     !.interest_carry   = charge % ChargeDivisor,
                     !.last_accrued_at  = @ + months * SECONDS_PER_MONTH]
      ELSE m

-----------------------------------------------------------------------------
(* Payments.  Each of these reads a loan whose interest is up to date.     *)

Payoff(m) == m.outstanding + m.interest_accrued

InstalmentDue_OfDrawnBalance(m) ==
  m.interest_accrued + Smaller(m.disbursed \div m.term_months, m.outstanding)

InstalmentDue(m) ==
  m.interest_accrued + Smaller(m.principal \div m.term_months, m.outstanding)

\* Interest first, then principal.
InterestPart(m, amount)  == Smaller(amount, m.interest_accrued)
PrincipalPart(m, amount) == amount - InterestPart(m, amount)

\* A payment must cover the instalment or settle the loan.
IsEnough(m, amount) == amount >= InstalmentDue(m) \/ amount >= Payoff(m)

\* The loan after a payment of amount, at most the payoff, before repay looks
\* whether that cleared it.
AfterPayment(m, amount) ==
  [m EXCEPT !.interest_accrued = @ - InterestPart(m, amount),
            !.outstanding      = @ - PrincipalPart(m, amount),
            !.total_repaid     = @ + amount,
            !.interest_paid    = @ + InterestPart(m, amount),
            !.payments_made    = @ + 1,
            !.next_payment_due = @ + SECONDS_PER_MONTH,
            !.status           = "Repaying"]

IsCleared(m) == m.outstanding = 0 /\ m.interest_accrued = 0

Undrawn(m) == m.principal - m.disbursed

-----------------------------------------------------------------------------
(* Draws.                                                                  *)

TrancheFor(m, stage) ==
  LET each == m.principal \div MILESTONE_COUNT
  IN  IF stage = MILESTONE_COUNT - 1 THEN m.principal - each * (MILESTONE_COUNT - 1)
                                     ELSE each

IsFirstDraw(m) == m.disbursed = 0

AfterDraw_DueAtOnce(m, tranche, now) ==
  [m EXCEPT !.disbursed = @ + tranche, !.outstanding = @ + tranche,
            !.status = "Funded", !.next_payment_due = now,
            !.last_accrued_at = IF IsFirstDraw(m) THEN now ELSE @]

\* The loan after a tranche, drawn at time now.
AfterDraw(m, tranche, now) ==
  LET grown == [m EXCEPT !.disbursed = @ + tranche, !.outstanding = @ + tranche]
  IN  IF IsFirstDraw(m)
      THEN [grown EXCEPT !.status = "Funded",
                         !.last_accrued_at = now,
                         !.next_payment_due = now + SECONDS_PER_MONTH]
      ELSE grown

-----------------------------------------------------------------------------

\* reads the interest as last written, which nobody has brought up to date
IsInDefault_OnStaleInterest(m, now, grace_secs) ==
  m.interest_accrued > 0 /\ now > m.next_payment_due + grace_secs

\* as built without overflow checks
IsInDefault_Wraps(m, now, grace_secs) ==
  m.next_payment_due # 0 /\ now > (m.next_payment_due + grace_secs) % (MAX_U64 + 1)

\* False as well where the sum overflows: the call panics, and mark_default
\* with it.
IsInDefault(m, now, grace_secs) ==
  /\ m.next_payment_due # 0
  /\ m.next_payment_due + grace_secs <= MAX_U64
  /\ now > m.next_payment_due + grace_secs

=============================================================================
