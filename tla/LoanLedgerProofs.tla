-------------------------- MODULE LoanLedgerProofs -------------------------
(***************************************************************************)
(* Proofs about a loan's interest, for every facility, rate, length of the *)
(* month, number of stages and sequence of draws and payments.             *)
(***************************************************************************)
EXTENDS LoanLedger, MortgageLoanProofs

-----------------------------------------------------------------------------
(* The inductive invariant.                                                *)

\* Before the first draw a loan is as apply left it.
NotYetDrawn ==
  loan.status = "Approved" =>
    /\ loan.disbursed = 0 /\ loan.outstanding = 0
    /\ loan.interest_accrued = 0 /\ loan.interest_carry = 0 /\ loan.interest_paid = 0
    /\ loan.payments_made = 0 /\ loan.last_accrued_at = 0
    /\ charged = 0

\* From then until it ends, its clock stands a whole number of months after
\* the first draw, and its next instalment is due a month after the last.
Running ==
  IsOpen =>
    /\ first_draw \in 1..now
    /\ loan.disbursed > 0 /\ loan.outstanding > 0
    /\ \E k \in Nat : loan.last_accrued_at = first_draw + k * SECONDS_PER_MONTH
    /\ loan.last_accrued_at <= now
    /\ loan.next_payment_due = first_draw + (loan.payments_made + 1) * SECONDS_PER_MONTH

LedgerInv ==
  /\ LedgerTypeOK
  /\ now >= 1
  /\ NotYetDrawn
  /\ Running
  /\ InterestIsExact

\* What every handler starts from: the loan brought up to date.
LEMMA UpToDate ==
  ASSUME LedgerInv, IsOpen, NEW m, m = Accrue(loan, now)
  PROVE  /\ m \in Mortgage
         /\ ChargedBy(m) = charged
         /\ m.status = loan.status /\ m.disbursed = loan.disbursed
         /\ m.outstanding = loan.outstanding /\ m.payments_made = loan.payments_made
         /\ m.next_payment_due = loan.next_payment_due
         /\ \E k \in Nat : m.last_accrued_at = first_draw + k * SECONDS_PER_MONTH
         /\ m.last_accrued_at <= now /\ now - m.last_accrued_at < SECONDS_PER_MONTH
         /\ ChargedBy(m) = ChargedBy(loan)
                             + loan.outstanding * loan.rate_bps * MonthsSince(loan, now)
         /\ MonthsSince(loan, now) \in Nat
<1> DEFINE S == SECONDS_PER_MONTH
<1>1. S \in Nat \ {0}
  BY DivisorPositive
<1>2. loan \in Mortgage /\ now \in Nat /\ first_draw \in Nat
  BY DEF LedgerInv, LedgerTypeOK
<1>3. PICK k \in Nat : loan.last_accrued_at = first_draw + k * S
  BY DEF LedgerInv, Running
<1>4. first_draw >= 1 /\ loan.last_accrued_at <= now /\ loan.outstanding > 0
  BY <1>2 DEF LedgerInv, Running
<1>5. k * S \in Nat
  BY <1>1
<1>6. loan.last_accrued_at > 0
  <2> DEFINE kS == k * S
  <2>1. kS \in Nat /\ loan.last_accrued_at = first_draw + kS
    BY <1>3, <1>5
  <2> HIDE DEF kS
  <2> QED
    BY <1>2, <1>4, <2>1
<1>7. PICK a \in Nat, c \in Nat, l \in Nat :
        /\ m = UpTo(loan, a, c, l)
        /\ (a + loan.interest_paid) * ChargeDivisor + c =
             ChargedBy(loan) + loan.outstanding * loan.rate_bps * MonthsSince(loan, now)
        /\ l = loan.last_accrued_at + MonthsSince(loan, now) * S
        /\ l <= now /\ now - l < S
        /\ MonthsSince(loan, now) \in Nat
  BY <1>2, <1>4, <1>6, AccrueOpen
<1>8. /\ m \in Mortgage
      /\ m.interest_accrued = a /\ m.interest_carry = c /\ m.last_accrued_at = l
      /\ m.interest_paid = loan.interest_paid
      /\ m.status = loan.status /\ m.disbursed = loan.disbursed
      /\ m.outstanding = loan.outstanding /\ m.payments_made = loan.payments_made
      /\ m.next_payment_due = loan.next_payment_due
  <2> DEFINE u == UpTo(loan, a, c, l)
  <2>1. m = u
    BY <1>7
  <2>2. /\ u \in Mortgage
        /\ u.interest_accrued = a /\ u.interest_carry = c /\ u.last_accrued_at = l
        /\ u.interest_paid = loan.interest_paid
        /\ u.status = loan.status /\ u.disbursed = loan.disbursed
        /\ u.outstanding = loan.outstanding /\ u.payments_made = loan.payments_made
        /\ u.next_payment_due = loan.next_payment_due
    BY <1>2, UpToFields
  <2> HIDE DEF u
  <2> QED
    BY <2>1, <2>2
<1>9. l = first_draw + (k + MonthsSince(loan, now)) * S
  <2> DEFINE n == MonthsSince(loan, now)
  <2>1. n \in Nat /\ l = first_draw + k * S + n * S
    BY <1>3, <1>7
  <2> HIDE DEF n, S
  <2>2. (k + n) * S = k * S + n * S /\ k * S \in Int /\ n * S \in Int
    BY <1>1, <2>1
  <2> QED
    BY <1>2, <2>1, <2>2 DEF n
<1>10. k + MonthsSince(loan, now) \in Nat
  BY <1>7
<1>11. ChargedBy(m) = charged
  BY DEF LedgerInv, InterestIsExact, ChargedBy
<1>12. ChargedBy(m) = (a + loan.interest_paid) * ChargeDivisor + c
  BY <1>8 DEF ChargedBy
<1>13. \E j \in Nat : m.last_accrued_at = first_draw + j * SECONDS_PER_MONTH
  BY <1>8, <1>9, <1>10
<1> HIDE DEF S
<1> QED
  BY <1>7, <1>8, <1>11, <1>12, <1>13 DEF S

\* The invariant holds of a facility nothing was drawn from.
LEMMA LedgerInitInv ==
  ASSUME LedgerInit
  PROVE  LedgerInv
<1>1. PICK f \in Facilities :
        loan = [Application(1, f.principal, f.term_months, f.rate_bps)
                  EXCEPT !.status = "Approved"]
  BY DEF LedgerInit
<1>2. f.principal \in Nat /\ f.term_months \in Nat \ {0} /\ f.rate_bps \in Nat
  BY LoanLedgerAssumption
<1>3. loan = [property_id |-> 1, principal |-> f.principal, term_months |-> f.term_months,
              rate_bps |-> f.rate_bps, status |-> "Approved", disbursed |-> 0,
              outstanding |-> 0, interest_accrued |-> 0, interest_carry |-> 0,
              total_repaid |-> 0, interest_paid |-> 0, payments_made |-> 0,
              last_accrued_at |-> 0, next_payment_due |-> 0]
  BY <1>1 DEF Application
<1>4. loan \in Mortgage
  BY <1>2, <1>3 DEF Mortgage, MortgageStatus
<1>5. loan.status = "Approved" /\ loan.interest_accrued = 0 /\ loan.interest_paid = 0
      /\ loan.interest_carry = 0 /\ loan.disbursed = 0 /\ loan.outstanding = 0
      /\ loan.payments_made = 0 /\ loan.last_accrued_at = 0
  BY <1>3
<1>6. drawn = {} /\ now \in Nat /\ now >= 1 /\ first_draw = 0 /\ charged = 0
  BY LoanLedgerAssumption DEF LedgerInit
<1>7. ~IsOpen
  BY <1>5 DEF IsOpen
<1>8. LedgerTypeOK
  BY <1>4, <1>6 DEF LedgerTypeOK
<1>9. InterestIsExact
  BY <1>5, <1>6, <1>7, DivisorPositive DEF InterestIsExact
<1> QED
  BY <1>5, <1>6, <1>7, <1>8, <1>9 DEF LedgerInv, NotYetDrawn, Running

\* A draw, which accrues first, keeps the invariant.
LEMMA DrawInv ==
  ASSUME LedgerInv, NEW stage \in Stages, Draw(stage)
  PROVE  LedgerInv'
<1> DEFINE m == Accrue(loan, now)
           tranche == TrancheFor(loan, stage)
<1>1. loan \in Mortgage /\ drawn \subseteq Stages /\ now \in Nat /\ first_draw \in Nat
      /\ charged \in Nat /\ now >= 1
  BY DEF LedgerInv, LedgerTypeOK
<1>2. /\ loan.status \in {"Approved", "Funded"}
      /\ tranche > 0
      /\ loan' = AfterDraw(m, tranche, now)
      /\ drawn' = drawn \cup {stage}
      /\ first_draw' = IF IsFirstDraw(loan) THEN now ELSE first_draw
      /\ now' = now /\ charged' = charged
  BY DEF Draw
<1>3. tranche \in Nat
  BY <1>1, <1>2, TrancheIsInt
<1>4. SECONDS_PER_MONTH \in Nat \ {0}
  BY DivisorPositive
<1> HIDE DEF tranche
<1>5. CASE loan.status = "Approved"
  <2>1. /\ loan.disbursed = 0 /\ loan.outstanding = 0
        /\ loan.interest_accrued = 0 /\ loan.interest_carry = 0 /\ loan.interest_paid = 0
        /\ loan.payments_made = 0 /\ loan.last_accrued_at = 0
        /\ charged = 0
    BY <1>5 DEF LedgerInv, NotYetDrawn
  <2>2. m = loan
    BY <2>1 DEF Accrue, OwesInterest
  <2> HIDE DEF m
  <2>3. /\ loan' \in Mortgage
        /\ loan'.disbursed = tranche /\ loan'.outstanding = tranche
        /\ loan'.interest_accrued = 0 /\ loan'.interest_carry = 0
        /\ loan'.interest_paid = 0 /\ loan'.payments_made = 0
        /\ loan'.status = "Funded" /\ loan'.last_accrued_at = now
        /\ loan'.next_payment_due = now + SECONDS_PER_MONTH
        /\ first_draw' = now
    <3>1. IsFirstDraw(loan)
      BY <2>1 DEF IsFirstDraw
    <3>2. loan' = AfterDraw(loan, tranche, now)
      BY <1>2, <2>2
    <3>3. DrawnFrom(loan', loan, tranche, now)
      BY <1>1, <1>3, <3>2, DrawResult
    <3> QED
      BY <1>2, <1>3, <2>1, <3>1, <3>3 DEF DrawnFrom
  <2>4. Accrue(loan', now) = loan'
    BY <1>1, <1>4, <2>3, NoMonth
  <2>5. InterestIsExact'
    BY <1>2, <2>1, <2>3, <2>4, DivisorPositive DEF InterestIsExact, IsOpen
  <2>6. Running'
    <3>1. now = now + 0 * SECONDS_PER_MONTH
          /\ now + SECONDS_PER_MONTH = now + (0 + 1) * SECONDS_PER_MONTH
      BY <1>1, <1>4
    <3> QED
      BY <1>1, <1>2, <1>3, <2>3, <3>1 DEF Running
  <2>7. LedgerTypeOK'
    BY <1>1, <1>2, <2>3 DEF LedgerTypeOK
  <2> QED
    BY <1>1, <1>2, <2>3, <2>5, <2>6, <2>7 DEF LedgerInv, NotYetDrawn
<1>6. CASE loan.status = "Funded"
  <2>1. IsOpen
    BY <1>6 DEF IsOpen
  <2>2. /\ first_draw \in 1..now /\ loan.disbursed > 0 /\ loan.outstanding > 0
        /\ loan.next_payment_due = first_draw + (loan.payments_made + 1) * SECONDS_PER_MONTH
    BY <2>1 DEF LedgerInv, Running
  <2>3. /\ m \in Mortgage
        /\ ChargedBy(m) = charged
        /\ m.status = "Funded" /\ m.disbursed = loan.disbursed
        /\ m.outstanding = loan.outstanding /\ m.payments_made = loan.payments_made
        /\ m.next_payment_due = loan.next_payment_due
        /\ \E k \in Nat : m.last_accrued_at = first_draw + k * SECONDS_PER_MONTH
        /\ m.last_accrued_at <= now /\ now - m.last_accrued_at < SECONDS_PER_MONTH
    BY <1>6, <2>1, UpToDate
  <2> HIDE DEF m
  <2>4. ~IsFirstDraw(loan) /\ ~IsFirstDraw(m) /\ first_draw' = first_draw
    BY <1>2, <2>2, <2>3 DEF IsFirstDraw
  <2>5. /\ loan' \in Mortgage
        /\ loan'.disbursed = m.disbursed + tranche
        /\ loan'.outstanding = m.outstanding + tranche
        /\ loan'.interest_accrued = m.interest_accrued
        /\ loan'.interest_carry = m.interest_carry
        /\ loan'.interest_paid = m.interest_paid
        /\ loan'.payments_made = m.payments_made
        /\ loan'.status = m.status
        /\ loan'.last_accrued_at = m.last_accrued_at
        /\ loan'.next_payment_due = m.next_payment_due
    <3>1. loan' = AfterDraw(m, tranche, now)
      BY <1>2 DEF m
    <3>2. DrawnFrom(loan', m, tranche, now)
      BY <1>1, <1>3, <2>3, <3>1, DrawResult
    <3> QED
      BY <2>4, <3>2 DEF DrawnFrom
  <2>6. Accrue(loan', now) = loan'
    BY <1>1, <2>3, <2>5, NoMonth
  <2>7. InterestIsExact'
    BY <1>2, <2>3, <2>5, <2>6 DEF InterestIsExact, IsOpen, ChargedBy
  <2>8. loan'.disbursed > 0 /\ loan'.outstanding > 0
    BY <1>1, <1>3, <2>2, <2>3, <2>5 DEF Mortgage
  <2>9. Running'
    BY <1>2, <2>2, <2>3, <2>4, <2>5, <2>8 DEF Running
  <2>10. LedgerTypeOK'
    BY <1>1, <1>2, <2>4, <2>5 DEF LedgerTypeOK
  <2> QED
    BY <1>1, <1>2, <2>3, <2>5, <2>7, <2>9, <2>10 DEF LedgerInv, NotYetDrawn
<1> QED
  BY <1>2, <1>5, <1>6

\* A payment, which accrues first, keeps the invariant.
LEMMA PayInv ==
  ASSUME LedgerInv, NEW amount \in Payments, Pay(amount)
  PROVE  LedgerInv'
<1> DEFINE m == Accrue(loan, now)
           after == AfterPayment(m, Smaller(amount, Payoff(m)))
<1>1. loan \in Mortgage /\ drawn \subseteq Stages /\ now \in Nat /\ first_draw \in Nat
      /\ charged \in Nat /\ now >= 1
  BY DEF LedgerInv, LedgerTypeOK
<1>2. /\ amount \in Nat /\ amount > 0
      /\ IsOpen
      /\ IsEnough(m, amount)
      /\ loan' = IF IsCleared(after) THEN [after EXCEPT !.status = "PaidOff"] ELSE after
      /\ drawn' = drawn /\ now' = now /\ first_draw' = first_draw /\ charged' = charged
  BY LoanLedgerAssumption DEF Pay, IsOpen
<1>3. /\ first_draw \in 1..now /\ loan.disbursed > 0 /\ loan.outstanding > 0
      /\ loan.next_payment_due = first_draw + (loan.payments_made + 1) * SECONDS_PER_MONTH
  BY <1>2 DEF LedgerInv, Running
<1>4. /\ m \in Mortgage
      /\ ChargedBy(m) = charged
      /\ m.disbursed = loan.disbursed /\ m.payments_made = loan.payments_made
      /\ m.next_payment_due = loan.next_payment_due
      /\ \E k \in Nat : m.last_accrued_at = first_draw + k * SECONDS_PER_MONTH
      /\ m.last_accrued_at <= now /\ now - m.last_accrued_at < SECONDS_PER_MONTH
  BY <1>2, UpToDate
<1> HIDE DEF m
<1>5. PaidFrom(after, m)
  BY <1>2, <1>4, PaymentResult
<1> HIDE DEF after
<1>6. /\ after \in Mortgage /\ after.status = "Repaying"
      /\ after.disbursed = m.disbursed
      /\ after.payments_made = m.payments_made + 1
      /\ after.next_payment_due = m.next_payment_due + SECONDS_PER_MONTH
      /\ after.last_accrued_at = m.last_accrued_at
      /\ (IsCleared(after) <=> after.outstanding = 0)
  BY <1>5 DEF PaidFrom
<1>7. ChargedBy(after) = charged
  <2>1. /\ after.interest_accrued = 0 /\ after.interest_carry = m.interest_carry
        /\ after.interest_paid = m.interest_paid + m.interest_accrued
    BY <1>5 DEF PaidFrom
  <2>2. m.interest_paid \in Nat /\ m.interest_accrued \in Nat
    BY <1>4 DEF Mortgage
  <2>3. after.interest_accrued + after.interest_paid = m.interest_accrued + m.interest_paid
    BY <2>1, <2>2
  <2> QED
    BY <1>4, <2>1, <2>3 DEF ChargedBy
<1>8. CASE IsCleared(after)
  <2>1. loan' \in Mortgage /\ loan'.status = "PaidOff" /\ ChargedBy(loan') = charged
    BY <1>2, <1>6, <1>7, <1>8, StatusOnly DEF MortgageStatus
  <2>2. InterestIsExact'
    BY <1>2, <2>1 DEF InterestIsExact, IsOpen, ChargedBy
  <2> QED
    BY <1>1, <1>2, <2>1, <2>2 DEF LedgerInv, LedgerTypeOK, NotYetDrawn, Running, IsOpen
<1>9. CASE ~IsCleared(after)
  <2>1. loan' = after
    BY <1>2, <1>9
  <2>2. Accrue(after, now) = after
    BY <1>1, <1>4, <1>6, NoMonth
  <2>3. InterestIsExact'
    BY <1>2, <1>6, <1>7, <2>1, <2>2 DEF InterestIsExact, ChargedBy
  <2>4. after.next_payment_due = first_draw + (after.payments_made + 1) * SECONDS_PER_MONTH
    <3> DEFINE S == SECONDS_PER_MONTH
               n == loan.payments_made
    <3>1. S \in Nat /\ n \in Nat
      BY <1>1, DivisorPositive DEF Mortgage
    <3>2. after.next_payment_due = first_draw + (n + 1) * S + S /\ after.payments_made = n + 1
      BY <1>3, <1>4, <1>6
    <3> HIDE DEF S, n
    <3>3. (n + 1 + 1) * S = (n + 1) * S + S /\ (n + 1) * S \in Int
      BY <3>1
    <3> QED
      BY <1>1, <3>1, <3>2, <3>3 DEF S
  <2>5. after.outstanding > 0 /\ after.disbursed > 0
    BY <1>3, <1>4, <1>6, <1>9 DEF Mortgage
  <2>6. Running'
    BY <1>2, <1>3, <1>4, <1>6, <2>1, <2>4, <2>5 DEF Running
  <2> QED
    BY <1>1, <1>2, <1>6, <2>1, <2>3, <2>6 DEF LedgerInv, LedgerTypeOK, NotYetDrawn
<1> QED
  BY <1>8, <1>9

\* A default keeps the invariant: it only closes the loan.
LEMMA DefaultInv ==
  ASSUME LedgerInv, Default
  PROVE  LedgerInv'
<1> DEFINE m == Accrue(loan, now)
<1>1. drawn \subseteq Stages /\ now \in Nat /\ first_draw \in Nat /\ charged \in Nat /\ now >= 1
  BY DEF LedgerInv, LedgerTypeOK
<1>2. /\ IsOpen /\ loan' = [m EXCEPT !.status = "Defaulted"]
      /\ drawn' = drawn /\ now' = now /\ first_draw' = first_draw /\ charged' = charged
  BY DEF Default, IsOpen
<1>3. m \in Mortgage /\ ChargedBy(m) = charged
  BY <1>2, UpToDate
<1> HIDE DEF m
<1>4. loan' \in Mortgage /\ loan'.status = "Defaulted" /\ ChargedBy(loan') = charged
  BY <1>2, <1>3, StatusOnly DEF MortgageStatus
<1>5. InterestIsExact'
  BY <1>2, <1>4 DEF InterestIsExact, IsOpen, ChargedBy
<1> QED
  BY <1>1, <1>2, <1>4, <1>5 DEF LedgerInv, LedgerTypeOK, NotYetDrawn, Running, IsOpen

\* Time keeps the invariant: the ledger charges a month when accrue would.
LEMMA TickInv ==
  ASSUME LedgerInv, Tick
  PROVE  LedgerInv'
<1>1. loan \in Mortgage /\ drawn \subseteq Stages /\ now \in Nat /\ first_draw \in Nat
      /\ charged \in Nat /\ now >= 1
  BY DEF LedgerInv, LedgerTypeOK
<1>2. /\ now' = now + 1
      /\ charged' = IF MonthEnds(now + 1) THEN charged + loan.outstanding * loan.rate_bps
                                          ELSE charged
      /\ loan' = loan /\ drawn' = drawn /\ first_draw' = first_draw
  BY DEF Tick
<1>3. loan.outstanding * loan.rate_bps \in Nat
  BY <1>1 DEF Mortgage
<1>4. charged' \in Nat /\ now' \in Nat /\ now' >= 1
  BY <1>1, <1>2, <1>3
<1>5. LedgerTypeOK'
  BY <1>1, <1>2, <1>4 DEF LedgerTypeOK
<1>6. CASE ~IsOpen
  <2>1. charged' = charged
    BY <1>2, <1>6 DEF MonthEnds, IsOpen
  <2>2. InterestIsExact'
    BY <1>2, <1>6, <2>1 DEF LedgerInv, InterestIsExact, IsOpen
  <2> QED
    BY <1>2, <1>4, <1>5, <1>6, <2>1, <2>2 DEF LedgerInv, NotYetDrawn, Running, IsOpen
<1>7. CASE IsOpen
  <2> DEFINE x == loan.outstanding * loan.rate_bps
             n == MonthsSince(loan, now)
             u == now + 1
  <2>1. /\ first_draw \in 1..now /\ loan.disbursed > 0 /\ loan.outstanding > 0
        /\ loan.last_accrued_at <= now
        /\ loan.next_payment_due = first_draw + (loan.payments_made + 1) * SECONDS_PER_MONTH
    BY <1>7 DEF LedgerInv, Running
  <2>2. PICK k \in Nat : loan.last_accrued_at = first_draw + k * SECONDS_PER_MONTH
    BY <1>7 DEF LedgerInv, Running
  <2>3. loan.last_accrued_at > 0
    <3> DEFINE kS == k * SECONDS_PER_MONTH
    <3>1. kS \in Nat
      BY DivisorPositive
    <3>2. loan.last_accrued_at = first_draw + kS
      BY <2>2
    <3> HIDE DEF kS
    <3> QED
      BY <1>1, <2>1, <3>1, <3>2
  <2>4. MonthsSince(loan, u) =
          n + (IF (u - first_draw) % SECONDS_PER_MONTH = 0 THEN 1 ELSE 0)
    BY <1>1, <2>2, MonthEnding
  <2>5. charged = ChargedBy(loan) + x * n /\ n \in Nat
    BY <1>7, UpToDate
  <2>6. MonthEnds(u) <=> (u - first_draw) % SECONDS_PER_MONTH = 0
    BY <1>1, <1>7, <2>1 DEF MonthEnds, IsOpen
  <2>7. charged' = ChargedBy(loan) + x * MonthsSince(loan, u)
    <3>1. charged' = IF MonthEnds(u) THEN charged + x ELSE charged
      BY <1>2
    <3>2. ChargedBy(loan) \in Int
      <4>1. /\ loan.interest_accrued + loan.interest_paid \in Int
            /\ loan.interest_carry \in Int
        BY <1>1 DEF Mortgage
      <4>2. (loan.interest_accrued + loan.interest_paid) * ChargeDivisor \in Int
        BY <4>1, DivisorPositive
      <4> QED
        BY <4>1, <4>2 DEF ChargedBy
    <3>3. x \in Int
      BY <1>3
    <3>4. MonthsSince(loan, u) = n + (IF MonthEnds(u) THEN 1 ELSE 0)
      BY <2>4, <2>6
    <3> HIDE DEF x, n, u
    <3>5. x * (n + 1) = x * n + x /\ x * n \in Int
      BY <2>5, <3>3
    <3> QED
      BY <2>5, <3>1, <3>2, <3>3, <3>4, <3>5
  <2>8. PICK a \in Nat, c \in Nat, l \in Nat :
          /\ Accrue(loan, u) = UpTo(loan, a, c, l)
          /\ (a + loan.interest_paid) * ChargeDivisor + c =
               ChargedBy(loan) + x * MonthsSince(loan, u)
    <3>1. u \in Nat /\ loan.last_accrued_at <= u
      BY <1>1, <2>1 DEF Mortgage
    <3> HIDE DEF u
    <3> QED
      BY <1>1, <2>1, <2>3, <3>1, AccrueOpen
  <2>9. InterestIsExact'
    <3> DEFINE m == Accrue(loan, u)
    <3>1. m.interest_accrued = a /\ m.interest_carry = c /\ m.interest_paid = loan.interest_paid
      BY <1>1, <2>8, UpToFields
    <3>2. (m.interest_accrued + m.interest_paid) * ChargeDivisor + m.interest_carry = charged'
      BY <2>7, <2>8, <3>1
    <3> HIDE DEF m
    <3>3. IsOpen' /\ Accrue(loan', now') = m
      BY <1>2, <1>7 DEF IsOpen, m
    <3> QED
      BY <3>2, <3>3 DEF InterestIsExact
  <2>10. Running'
    <3>1. first_draw \in 1..now' /\ loan.last_accrued_at <= now'
      BY <1>1, <1>2, <2>1 DEF Mortgage
    <3> QED
      BY <1>2, <2>1, <2>2, <3>1 DEF Running
  <2> QED
    BY <1>2, <1>4, <1>5, <1>7, <2>9, <2>10 DEF LedgerInv, NotYetDrawn, IsOpen
<1> QED
  BY <1>6, <1>7

-----------------------------------------------------------------------------
(* The theorems.                                                           *)

\* The invariant is inductive.
THEOREM LedgerInvariant == LedgerSpec => []LedgerInv
<1>1. LedgerInit => LedgerInv
  BY LedgerInitInv
<1>2. LedgerInv /\ [LedgerNext]_ledgerVars => LedgerInv'
  <2> SUFFICES ASSUME LedgerInv, [LedgerNext]_ledgerVars
               PROVE  LedgerInv'
    OBVIOUS
  <2>1. CASE \E stage \in Stages : Draw(stage)
    BY <2>1, DrawInv
  <2>2. CASE \E amount \in Payments : Pay(amount)
    BY <2>2, PayInv
  <2>3. CASE Default
    BY <2>3, DefaultInv
  <2>4. CASE Tick
    BY <2>4, TickInv
  <2>5. CASE UNCHANGED ledgerVars
    BY <2>5 DEF ledgerVars, LedgerInv, LedgerTypeOK, NotYetDrawn, Running, InterestIsExact, IsOpen
  <2> QED
    BY <2>1, <2>2, <2>3, <2>4, <2>5 DEF LedgerNext
<1> QED
  BY <1>1, <1>2, PTL DEF LedgerSpec

\* The loan record keeps its types: in particular no balance, no interest and
\* no remainder of it ever goes below zero.
THEOREM LedgerTypeCorrect == LedgerSpec => []LedgerTypeOK
<1>1. LedgerInv => LedgerTypeOK
  BY DEF LedgerInv
<1> QED
  BY <1>1, LedgerInvariant, PTL

\* accrue and repay together lose and invent no interest: whenever the record
\* is brought up to date, it agrees with the ideal ledger to the last unit.
THEOREM NoInterestIsLost == LedgerSpec => []InterestIsExact
<1>1. LedgerInv => InterestIsExact
  BY DEF LedgerInv
<1> QED
  BY <1>1, LedgerInvariant, PTL

\* When somebody happens to touch a loan makes no difference to what accrue
\* charges it.
THEOREM AccrualsAlwaysCompose == LedgerSpec => []AccrualsCompose
<1>1. LedgerInv => AccrualsCompose
  BY AccrueComposes, LoanLedgerAssumption DEF LedgerInv, LedgerTypeOK, AccrualsCompose
<1> QED
  BY <1>1, LedgerInvariant, PTL

\* A borrower who has paid for every month gone by is never in default.
THEOREM PaidUpBorrowersAreSafe == LedgerSpec => []PaidUpIsSafe
<1>1. LedgerInv => PaidUpIsSafe
  <2> SUFFICES ASSUME LedgerInv, IsOpen,
                      loan.payments_made >= (now - first_draw) \div SECONDS_PER_MONTH,
                      NEW grace \in Graces \cup {0}
               PROVE  ~IsInDefault(loan, now, grace)
    BY DEF PaidUpIsSafe
  <2> DEFINE S == SECONDS_PER_MONTH
             y == now - first_draw
             n == loan.payments_made
             q == y \div S
  <2>1. S \in Nat \ {0} /\ n \in Nat /\ y \in Int /\ now \in Nat /\ first_draw \in Nat
    BY DivisorPositive DEF LedgerInv, LedgerTypeOK, Mortgage
  <2>2. loan.next_payment_due = first_draw + (n + 1) * S
    BY DEF LedgerInv, Running
  <2>3. n >= q
    OBVIOUS
  <2> HIDE DEF S, y, n
  <2>4. q \in Int /\ (y % S) \in 0..(S - 1) /\ y = S * q + (y % S)
    BY <2>1, Division
  <2> HIDE DEF q
  <2>5. (n + 1) * S > y
    <3>1. (n + 1) * S >= (q + 1) * S
      BY <2>1, <2>3, <2>4
    <3>2. (q + 1) * S = S * q + S /\ S * q \in Int /\ (n + 1) * S \in Int
      BY <2>1, <2>4
    <3> QED
      BY <2>1, <2>4, <3>1, <3>2
  <2>6. (n + 1) * S \in Int
    BY <2>1
  <2>0. grace \in Nat
    BY LoanLedgerAssumption
  <2>7. ~(now > loan.next_payment_due + grace)
    BY <2>0, <2>1, <2>2, <2>5, <2>6 DEF y
  <2> QED
    BY <2>7 DEF IsInDefault
<1> QED
  BY <1>1, LedgerInvariant, PTL

-----------------------------------------------------------------------------
(* Principal.                                                              *)

\* What was drawn is the tranches of the stages released, what is not
\* outstanding of it was repaid, and a loan that was paid off owes nothing.
PrincipalInv ==
  /\ loan.disbursed = TranchesOf(loan.principal, drawn)
  /\ loan.outstanding = loan.disbursed - (loan.total_repaid - loan.interest_paid)
  /\ loan.status = "PaidOff" => loan.outstanding = 0 /\ loan.interest_accrued = 0

\* Every step keeps what is drawn and outstanding in balance.
LEMMA PrincipalStep ==
  ASSUME LedgerInv, PrincipalInv, [LedgerNext]_ledgerVars
  PROVE  PrincipalInv'
<1> DEFINE m == Accrue(loan, now)
<1>1. loan \in Mortgage /\ drawn \in SUBSET Stages /\ now \in Nat
  BY DEF LedgerInv, LedgerTypeOK
<1>2. /\ m \in Mortgage
      /\ m.principal = loan.principal /\ m.disbursed = loan.disbursed
      /\ m.outstanding = loan.outstanding /\ m.total_repaid = loan.total_repaid
      /\ m.interest_paid = loan.interest_paid /\ m.status = loan.status
  BY <1>1, AccrueKeeps
<1>3. /\ m.disbursed \in Nat /\ m.outstanding \in Nat /\ m.total_repaid \in Nat
      /\ m.interest_paid \in Nat
  BY <1>2 DEF Mortgage
<1> HIDE DEF m
<1>4. CASE \E stage \in Stages : Draw(stage)
  <2>1. PICK stage \in Stages : Draw(stage)
    BY <1>4
  <2> DEFINE tranche == TrancheFor(loan, stage)
  <2>2. /\ stage \notin drawn /\ tranche > 0 /\ drawn' = drawn \cup {stage}
        /\ loan' = AfterDraw(m, tranche, now)
    BY <2>1 DEF Draw, m
  <2>3. tranche \in Nat
    BY <1>1, <2>2, TrancheIsInt
  <2>4. TranchesOf(loan.principal, drawn') = TranchesOf(loan.principal, drawn) + tranche
    BY <1>1, <2>2, TranchesGrow DEF Stages, LastStage
  <2> HIDE DEF tranche
  <2>5. DrawnFrom(loan', m, tranche, now)
    BY <1>1, <1>2, <2>2, <2>3, DrawResult
  <2>6. loan'.status # "PaidOff"
    BY <1>2, <2>1, <2>2 DEF Draw, AfterDraw, Mortgage
  <2> QED
    BY <1>2, <1>3, <2>3, <2>4, <2>5, <2>6 DEF PrincipalInv, DrawnFrom
<1>5. CASE \E amount \in Payments : Pay(amount)
  <2>1. PICK amount \in Payments : Pay(amount)
    BY <1>5
  <2> DEFINE after == AfterPayment(m, Smaller(amount, Payoff(m)))
  <2>2. /\ amount \in Nat /\ amount > 0 /\ IsEnough(m, amount)
        /\ loan' = IF IsCleared(after) THEN [after EXCEPT !.status = "PaidOff"] ELSE after
        /\ drawn' = drawn
    BY <2>1, LoanLedgerAssumption DEF Pay, m
  <2>3. PaidFrom(after, m)
    BY <1>2, <2>2, PaymentResult
  <2> HIDE DEF after
  <2>4. /\ after \in Mortgage
        /\ after.disbursed = m.disbursed /\ after.principal = m.principal
        /\ after.total_repaid - after.interest_paid =
             m.total_repaid - m.interest_paid + (m.outstanding - after.outstanding)
    BY <2>3 DEF PaidFrom
  <2>5. after.outstanding \in Nat /\ after.total_repaid \in Nat /\ after.interest_paid \in Nat
    BY <2>4 DEF Mortgage
  <2>6. /\ loan'.disbursed = after.disbursed /\ loan'.principal = after.principal
        /\ loan'.outstanding = after.outstanding /\ loan'.total_repaid = after.total_repaid
        /\ loan'.interest_paid = after.interest_paid
    BY <2>2, <2>4 DEF Mortgage
  <2>7. loan'.status = "PaidOff" => loan'.outstanding = 0 /\ loan'.interest_accrued = 0
    <3>1. loan'.interest_accrued = after.interest_accrued
      BY <2>2, <2>4 DEF Mortgage
    <3>2. ~IsCleared(after) => loan'.status = "Repaying"
      BY <2>2, <2>3 DEF PaidFrom
    <3> QED
      BY <2>6, <3>1, <3>2 DEF IsCleared
  <2> QED
    BY <1>2, <1>3, <2>2, <2>4, <2>5, <2>6, <2>7 DEF PrincipalInv
<1>6. CASE Default
  <2>1. loan' = [m EXCEPT !.status = "Defaulted"] /\ drawn' = drawn
    BY <1>6 DEF Default, m
  <2> QED
    BY <1>2, <2>1 DEF PrincipalInv, Mortgage
<1>7. CASE Tick \/ UNCHANGED ledgerVars
  BY <1>7 DEF Tick, ledgerVars, PrincipalInv
<1> QED
  BY <1>4, <1>5, <1>6, <1>7 DEF LedgerNext

\* At first nothing is drawn and nothing outstanding.
LEMMA PrincipalInit ==
  ASSUME LedgerInit
  PROVE  PrincipalInv
<1>1. PICK f \in Facilities :
        loan = [Application(1, f.principal, f.term_months, f.rate_bps)
                  EXCEPT !.status = "Approved"]
  BY DEF LedgerInit
<1>2. loan.disbursed = 0 /\ loan.outstanding = 0 /\ loan.total_repaid = 0
      /\ loan.interest_paid = 0 /\ loan.principal = f.principal /\ loan.status = "Approved"
  BY <1>1 DEF Application
<1>3. f.principal \div MILESTONE_COUNT \in Int
  BY LoanLedgerAssumption, MortgageLoanAssumption
<1>4. drawn = {} /\ Cardinality({}) = 0
  BY FS_EmptySet DEF LedgerInit
<1>5. drawn \ {LastStage} = {} /\ LastStage \notin drawn
  BY <1>4
<1>6. TranchesOf(loan.principal, drawn) = 0
  <2> DEFINE each == f.principal \div MILESTONE_COUNT
  <2>1. Cardinality(drawn \ {LastStage}) = 0
    BY <1>4, <1>5, Zenon
  <2>2. TranchesOf(loan.principal, drawn) = each * 0 + 0
    BY <1>2, <1>5, <2>1 DEF TranchesOf
  <2> HIDE DEF each
  <2> QED
    BY <1>3, <2>2 DEF each
<1> QED
  BY <1>2, <1>6 DEF PrincipalInv

\* A loan has drawn the tranches of the stages released and no more, all of them
\* together are the facility, nothing but a tranche adds to the principal a
\* borrower owes, and a loan paid off has brought back all that was drawn and
\* charged.
THEOREM PrincipalIsDrawnNotCharged == LedgerSpec => []InterestNeverBecomesPrincipal
<1>1. LedgerInit => LedgerInv /\ PrincipalInv
  BY LedgerInitInv, PrincipalInit
<1>2. LedgerInv /\ PrincipalInv /\ [LedgerNext]_ledgerVars => PrincipalInv'
  BY PrincipalStep
<1>3. LedgerInv /\ PrincipalInv => InterestNeverBecomesPrincipal
  <2> SUFFICES ASSUME LedgerInv, PrincipalInv
               PROVE  InterestNeverBecomesPrincipal
    OBVIOUS
  <2>1. loan \in Mortgage /\ drawn \in SUBSET Stages /\ Stages = 0..LastStage
    BY DEF LedgerInv, LedgerTypeOK, Stages, LastStage
  <2>2. loan.disbursed = Total([s \in drawn |-> TrancheFor(loan, s)])
    BY <2>1, TranchesTotal DEF PrincipalInv
  <2>3. loan.principal = Total([s \in Stages |-> TrancheFor(loan, s)])
    <3>1. loan.principal \in Nat
      BY <2>1 DEF Mortgage
    <3>2. TranchesOf(loan.principal, Stages) = loan.principal
      BY <2>1, <3>1, TranchesOfAll
    <3> QED
      BY <2>1, <3>2, TranchesTotal
  <2>4. ASSUME loan.status = "PaidOff"
        PROVE  loan.total_repaid * ChargeDivisor + loan.interest_carry
                 = loan.disbursed * ChargeDivisor + charged
    <3> DEFINE D == ChargeDivisor
    <3>1. /\ loan.total_repaid \in Nat /\ loan.interest_paid \in Nat
          /\ loan.disbursed \in Nat /\ loan.interest_carry \in Nat
      BY <2>1 DEF Mortgage
    <3>2. loan.outstanding = 0 /\ loan.interest_accrued = 0
      BY <2>4 DEF PrincipalInv
    <3>3. (0 + loan.interest_paid) * D + loan.interest_carry = charged
      BY <2>4, <3>2 DEF LedgerInv, InterestIsExact, IsOpen
    <3>4. loan.total_repaid = loan.disbursed + loan.interest_paid
      BY <3>1, <3>2 DEF PrincipalInv
    <3>5. D \in Nat
      BY DivisorPositive
    <3> HIDE DEF D
    <3>6. (loan.disbursed + loan.interest_paid) * D
            = loan.disbursed * D + loan.interest_paid * D
      BY <3>1, <3>5
    <3>7. loan.disbursed * D \in Nat /\ loan.interest_paid * D \in Nat
      BY <3>1, <3>5
    <3>8. 0 + loan.interest_paid = loan.interest_paid
      BY <3>1
    <3> QED
      BY <3>1, <3>3, <3>4, <3>6, <3>7, <3>8 DEF D
  <2>5. IsOpen => loan.outstanding > 0
    BY DEF LedgerInv, Running
  <2> QED
    BY <2>2, <2>3, <2>4, <2>5 DEF InterestNeverBecomesPrincipal, PrincipalInv
<1> QED
  BY <1>1, <1>2, <1>3, LedgerInvariant, PTL DEF LedgerSpec
=============================================================================
