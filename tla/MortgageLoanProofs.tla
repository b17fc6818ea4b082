------------------------- MODULE MortgageLoanProofs -------------------------
(***************************************************************************)
(* What the operators on a loan return, for every loan, rate, length of    *)
(* the month, number of stages and time: the facts the proofs about        *)
(* LoanLedger and StellarHomes rest on.                                    *)
(***************************************************************************)
EXTENDS MortgageLoan, TotalsProofs

-----------------------------------------------------------------------------
(* Division.                                                               *)

\* Quotient and remainder of a division, and that they are the only ones.
LEMMA Division ==
  ASSUME NEW x \in Int, NEW d \in Nat \ {0}
  PROVE  x \div d \in Int /\ x % d \in 0..(d - 1) /\ x = d * (x \div d) + (x % d)
  OBVIOUS

\* A number of the form d * q + r with r below d has quotient q and
\* remainder r: how the charge of accrue is recognised.
LEMMA DivisionUnique ==
  ASSUME NEW x \in Int, NEW d \in Nat \ {0}, NEW q \in Int, NEW r \in 0..(d - 1),
         x = d * q + r
  PROVE  x \div d = q /\ x % d = r
  OBVIOUS

\* Taking whole multiples of d away first does not change the remainder.
LEMMA DivisionShift ==
  ASSUME NEW x \in Int, NEW d \in Nat \ {0}, NEW k \in Int
  PROVE  (x - k * d) \div d = x \div d - k /\ (x - k * d) % d = x % d
<1> DEFINE q == x \div d
           r == x % d
<1>1. q \in Int /\ r \in 0..(d - 1) /\ x = d * q + r
  BY Division
<1> HIDE DEF q, r
<1>2. x - k * d = d * (q - k) + r /\ q - k \in Int /\ x - k * d \in Int
  BY <1>1
<1>3. (x - k * d) \div d = q - k /\ (x - k * d) % d = r
  BY <1>1, <1>2, DivisionUnique
<1> QED
  BY <1>3 DEF q, r

\* The divisor of accrue and the length of a month are positive.
LEMMA DivisorPositive == ChargeDivisor \in Nat \ {0} /\ SECONDS_PER_MONTH \in Nat \ {0}
  BY MortgageLoanAssumption DEF ChargeDivisor

-----------------------------------------------------------------------------
(* Accrual.                                                                *)

\* The months charged by accrue.
Charged(m, t) == IF OwesInterest(m, t) THEN MonthsSince(m, t) ELSE 0

\* A loan whose interest stands at accrued and carry, up to time last.
UpTo(m, accrued, carry, last) ==
  [m EXCEPT !.interest_accrued = accrued, !.interest_carry = carry, !.last_accrued_at = last]

\* Accruing writes three fields of the record and no other.
LEMMA UpToFields ==
  ASSUME NEW m \in Mortgage, NEW a \in Nat, NEW c \in Nat, NEW l \in Nat
  PROVE  /\ UpTo(m, a, c, l) \in Mortgage
         /\ UpTo(m, a, c, l).interest_accrued = a
         /\ UpTo(m, a, c, l).interest_carry = c
         /\ UpTo(m, a, c, l).last_accrued_at = l
         /\ UpTo(m, a, c, l).property_id = m.property_id
         /\ UpTo(m, a, c, l).principal = m.principal
         /\ UpTo(m, a, c, l).term_months = m.term_months
         /\ UpTo(m, a, c, l).rate_bps = m.rate_bps
         /\ UpTo(m, a, c, l).status = m.status
         /\ UpTo(m, a, c, l).disbursed = m.disbursed
         /\ UpTo(m, a, c, l).outstanding = m.outstanding
         /\ UpTo(m, a, c, l).total_repaid = m.total_repaid
         /\ UpTo(m, a, c, l).interest_paid = m.interest_paid
         /\ UpTo(m, a, c, l).payments_made = m.payments_made
         /\ UpTo(m, a, c, l).next_payment_due = m.next_payment_due
  BY DEF UpTo, Mortgage

\* Of two accruals only what the later one wrote is left in the record.
LEMMA UpToTwice ==
  ASSUME NEW m \in Mortgage, NEW a, NEW c, NEW l, NEW a2, NEW c2, NEW l2
  PROVE  UpTo(UpTo(m, a, c, l), a2, c2, l2) = UpTo(m, a2, c2, l2)
  BY DEF UpTo, Mortgage

\* What accrue does: it charges whole months, moves the clock by as many, and
\* loses nothing of the charge.
LEMMA AccrueResult ==
  ASSUME NEW m \in Mortgage, NEW t \in Nat
  PROVE  \E a \in Nat, c \in Nat, l \in Nat :
           /\ Accrue(m, t) = UpTo(m, a, c, l)
           /\ a * ChargeDivisor + c =
                m.interest_accrued * ChargeDivisor + m.interest_carry
                  + m.outstanding * m.rate_bps * Charged(m, t)
           /\ c = IF OwesInterest(m, t) THEN Charge(m, MonthsSince(m, t)) % ChargeDivisor
                                        ELSE m.interest_carry
           /\ l = m.last_accrued_at + Charged(m, t) * SECONDS_PER_MONTH
           /\ Charged(m, t) \in Nat
<1> USE DivisorPositive
<1>1. /\ m.interest_accrued \in Nat /\ m.interest_carry \in Nat /\ m.last_accrued_at \in Nat
      /\ m.outstanding \in Nat /\ m.rate_bps \in Nat
  BY DEF Mortgage
<1>2. CASE ~OwesInterest(m, t)
  <2>1. m = UpTo(m, m.interest_accrued, m.interest_carry, m.last_accrued_at)
    BY DEF UpTo, Mortgage
  <2>2. Charged(m, t) = 0 /\ Accrue(m, t) = m
    BY <1>2 DEF Charged, Accrue
  <2> QED
    BY <1>1, <1>2, <2>1, <2>2
<1>3. CASE OwesInterest(m, t)
  <2> DEFINE n == MonthsSince(m, t)
             w == Charge(m, n)
             D == ChargeDivisor
  <2>1. n \in Nat
    <3>1. t - m.last_accrued_at \in Int
      BY <1>1
    <3>2. n \in Int
      BY <3>1, Division DEF MonthsSince
    <3> QED
      BY <1>3, <3>2 DEF OwesInterest
  <2>2. w = m.outstanding * m.rate_bps * n + m.interest_carry
    BY DEF Charge
  <2> HIDE DEF n
  <2>3. w \in Nat
    <3>1. m.outstanding * m.rate_bps \in Nat
      BY <1>1
    <3>2. m.outstanding * m.rate_bps * n \in Nat
      BY <2>1, <3>1
    <3> QED
      BY <1>1, <2>2, <3>2
  <2>4. n * SECONDS_PER_MONTH \in Nat
    BY <2>1
  <2> DEFINE q == w \div D
             r == w % D
  <2>5. q \in Nat /\ r \in Nat /\ w = D * q + r
    <3> HIDE DEF w, D
    <3>1. D \in Nat \ {0}
      BY DEF D
    <3> QED
      BY <2>3, <3>1
  <2>6. Accrue(m, t) = UpTo(m, m.interest_accrued + q, r,
                            m.last_accrued_at + n * SECONDS_PER_MONTH)
    BY <1>3 DEF Accrue, UpTo, n
  <2>7. Charged(m, t) = n
    BY <1>3 DEF Charged, n
  <2>8. (m.interest_accrued + q) * D + r = m.interest_accrued * D + w
    <3> HIDE DEF q, r, w, D
    <3>1. D \in Nat
      BY DEF D
    <3> QED
      BY <1>1, <2>5, <3>1
  <2>9. m.interest_accrued * D + w =
          m.interest_accrued * D + m.interest_carry + m.outstanding * m.rate_bps * n
    <3>1. m.outstanding * m.rate_bps * n \in Int
      <4>1. m.outstanding * m.rate_bps \in Int
        BY <1>1
      <4> QED
        BY <2>1, <4>1
    <3>2. m.interest_accrued * D \in Int
      BY <1>1
    <3> QED
      BY <1>1, <2>2, <3>1, <3>2
  <2>10. /\ m.interest_accrued + q \in Nat
         /\ m.last_accrued_at + n * SECONDS_PER_MONTH \in Nat
    <3> HIDE DEF q
    <3> QED
      BY <1>1, <2>4, <2>5
  <2>11. r = Charge(m, MonthsSince(m, t)) % ChargeDivisor
    BY DEF n
  <2> HIDE DEF q, r, w
  <2> QED
    BY <1>3, <2>1, <2>5, <2>6, <2>7, <2>8, <2>9, <2>10, <2>11
<1> QED
  BY <1>2, <1>3

\* An interval's whole months are those up to a point of it that is whole
\* months in, and those after.
LEMMA MonthsSplit ==
  ASSUME NEW m \in Mortgage, NEW t \in Nat, NEW u \in Nat, t <= u,
         NEW l \in Nat, l = m.last_accrued_at + MonthsSince(m, t) * SECONDS_PER_MONTH,
         NEW a \in Nat, NEW c \in Nat, MonthsSince(m, t) \in Nat
  PROVE  /\ MonthsSince(UpTo(m, a, c, l), u) = MonthsSince(m, u) - MonthsSince(m, t)
         /\ MonthsSince(m, u) \in Nat
         /\ MonthsSince(m, u) >= MonthsSince(m, t)
         /\ MonthsSince(m, u) * SECONDS_PER_MONTH <= u - m.last_accrued_at
<1> DEFINE S == SECONDS_PER_MONTH
           n == MonthsSince(m, t)
           N == MonthsSince(m, u)
           b == m.last_accrued_at
<1>1. S \in Nat \ {0} /\ b \in Nat /\ n \in Nat
  BY DivisorPositive DEF Mortgage
<1>2. N = (u - b) \div S /\ n = (t - b) \div S
  BY DEF MonthsSince
<1>3. MonthsSince(UpTo(m, a, c, l), u) = ((u - b) - n * S) \div S
  <2>1. UpTo(m, a, c, l).last_accrued_at = l
    BY DEF UpTo, Mortgage
  <2>2. u - l = (u - b) - n * S
    <3> HIDE DEF n, S, b
    <3>1. l = b + n * S
      BY DEF n, S, b
    <3>2. n * S \in Int
      BY <1>1
    <3> QED
      BY <1>1, <3>1, <3>2
  <2> QED
    BY <2>1, <2>2 DEF MonthsSince
<1> HIDE DEF S, n, N, b
<1>4. u - b \in Int /\ t - b \in Int
  BY <1>1
<1>5. ((u - b) - n * S) \div S = (u - b) \div S - n
  <2> DEFINE y == u - b
  <2>1. y \in Int
    BY <1>4
  <2> HIDE DEF y
  <2>2. (y - n * S) \div S = y \div S - n
    <3>1. n \in Int
      BY <1>1
    <3> QED
      BY <1>1, <2>1, <3>1, DivisionShift, Zenon
  <2> QED
    BY <2>2 DEF y
<1>6. /\ N \in Int
      /\ (u - b) % S \in 0..(S - 1) /\ u - b = S * N + ((u - b) % S)
      /\ (t - b) % S \in 0..(S - 1) /\ t - b = S * n + ((t - b) % S)
  BY <1>1, <1>2, <1>4, Division
<1>7. N >= n
  <2>1. S * N + S > S * n
    BY <1>1, <1>6
  <2>2. CASE N < n
    <3>1. S * (N + 1) <= S * n
      BY <1>1, <1>6, <2>2
    <3>2. S * (N + 1) = S * N + S
      BY <1>1, <1>6
    <3> QED
      BY <1>1, <1>6, <2>1, <3>1, <3>2
  <2> QED
    BY <1>1, <1>6, <2>2
<1>8. N * S <= u - b
  BY <1>1, <1>6
<1> QED
  BY <1>1, <1>2, <1>3, <1>5, <1>6, <1>7, <1>8 DEF S, n, N, b

\* "any sequence of accruals over the same period comes to exactly the same
\* figure": accruing now and again later is accruing once, later.
THEOREM AccrueComposes ==
  ASSUME NEW m \in Mortgage, NEW t \in Nat, NEW u \in Nat, t <= u
  PROVE  Accrue(Accrue(m, t), u) = Accrue(m, u)
<1>1. CASE ~OwesInterest(m, t)
  BY <1>1 DEF Accrue
<1>2. CASE OwesInterest(m, t)
  <2> DEFINE n == MonthsSince(m, t)
             N == MonthsSince(m, u)
             D == ChargeDivisor
             x == m.outstanding * m.rate_bps
             base == m.interest_accrued * D + m.interest_carry
  <2>1. /\ m.interest_accrued \in Nat /\ m.interest_carry \in Nat /\ m.last_accrued_at \in Nat
        /\ m.outstanding \in Nat /\ m.rate_bps \in Nat
    BY DEF Mortgage
  <2>2. Charged(m, t) = n
    BY <1>2 DEF Charged
  <2>3. PICK a \in Nat, c \in Nat, l \in Nat :
          /\ Accrue(m, t) = UpTo(m, a, c, l)
          /\ a * D + c = base + x * n
          /\ c = Charge(m, n) % D
          /\ l = m.last_accrued_at + n * SECONDS_PER_MONTH
          /\ n \in Nat
    BY <1>2, <2>2, AccrueResult
  <2> DEFINE m2 == UpTo(m, a, c, l)
             k  == MonthsSince(m2, u)
  <2>4. k = N - n /\ N \in Nat /\ N >= n /\ N * SECONDS_PER_MONTH <= u - m.last_accrued_at
    BY <2>3, MonthsSplit
  <2>5. /\ m2 \in Mortgage /\ m2.interest_accrued = a /\ m2.interest_carry = c
        /\ m2.last_accrued_at = l /\ m2.outstanding = m.outstanding
        /\ m2.rate_bps = m.rate_bps
    BY UpToFields
  <2>6. m.last_accrued_at # 0 /\ m.outstanding > 0 /\ t > m.last_accrued_at /\ n > 0
    BY <1>2 DEF OwesInterest
  <2> HIDE DEF m2, k, n, N
  <2>7. OwesInterest(m, u)
    <3>1. u > m.last_accrued_at /\ N > 0
      BY <2>1, <2>3, <2>4, <2>6
    <3> QED
      BY <2>6, <3>1 DEF OwesInterest, N
  <2>8. CASE N = n
    <3>1. ~OwesInterest(m2, u)
      BY <2>3, <2>4, <2>8 DEF OwesInterest, k
    <3>2. Accrue(m2, u) = Accrue(m, t)
      BY <2>3, <3>1 DEF Accrue, m2
    <3>3. Accrue(m, u) = Accrue(m, t)
      BY <1>2, <2>7, <2>8 DEF Accrue, n, N
    <3> QED
      BY <2>3, <3>2, <3>3 DEF m2
  <2>9. CASE N > n
    <3> USE DivisorPositive
    <3>1. k \in Nat /\ k > 0
      BY <2>3, <2>4, <2>9
    <3>2. l # 0 /\ u > l
      <4> DEFINE S == SECONDS_PER_MONTH
      <4>1. S \in Nat \ {0} /\ n * S \in Nat /\ N * S \in Nat
        BY <2>3, <2>4
      <4>2. N * S > n * S
        BY <2>3, <2>4, <2>9, <4>1
      <4> HIDE DEF S
      <4>3. l = m.last_accrued_at + n * S /\ N * S <= u - m.last_accrued_at
        BY <2>3, <2>4 DEF S
      <4> QED
        BY <2>1, <2>6, <4>1, <4>2, <4>3
    <3>3. OwesInterest(m2, u)
      BY <2>5, <2>6, <3>1, <3>2 DEF OwesInterest, k
    <3>4. Charged(m2, u) = k /\ Charged(m, u) = N
      BY <2>7, <3>3 DEF Charged, k, N
    <3>5. PICK a2 \in Nat, c2 \in Nat, l2 \in Nat :
            /\ Accrue(m2, u) = UpTo(m2, a2, c2, l2)
            /\ a2 * D + c2 = a * D + c + x * k
            /\ c2 = Charge(m2, k) % D
            /\ l2 = l + k * SECONDS_PER_MONTH
      <4>1. \E a2 \in Nat, c2 \in Nat, l2 \in Nat :
            /\ Accrue(m2, u) = UpTo(m2, a2, c2, l2)
            /\ a2 * ChargeDivisor + c2 =
                 m2.interest_accrued * ChargeDivisor + m2.interest_carry
                   + m2.outstanding * m2.rate_bps * Charged(m2, u)
            /\ c2 = IF OwesInterest(m2, u) THEN Charge(m2, MonthsSince(m2, u)) % ChargeDivisor
                                            ELSE m2.interest_carry
            /\ l2 = m2.last_accrued_at + Charged(m2, u) * SECONDS_PER_MONTH
            /\ Charged(m2, u) \in Nat
        BY <2>5, AccrueResult
      <4> QED
        BY <2>5, <3>3, <3>4, <4>1 DEF k
    <3>6. PICK a3 \in Nat, c3 \in Nat, l3 \in Nat :
            /\ Accrue(m, u) = UpTo(m, a3, c3, l3)
            /\ a3 * D + c3 = base + x * N
            /\ c3 = Charge(m, N) % D
            /\ l3 = m.last_accrued_at + N * SECONDS_PER_MONTH
      BY <2>7, <3>4, AccrueResult DEF N
    <3>7. c2 \in 0..(D - 1) /\ c3 \in 0..(D - 1)
      <4>1. Charge(m2, k) \in Int /\ Charge(m, N) \in Int
        <5>1. x \in Int
          BY <2>1
        <5>2. x * k \in Int /\ x * N \in Int
          BY <2>4, <3>1, <5>1
        <5>3. Charge(m2, k) = x * k + c /\ Charge(m, N) = x * N + m.interest_carry
          BY <2>5 DEF Charge
        <5> QED
          BY <2>1, <5>2, <5>3
      <4> QED
        BY <3>5, <3>6, <4>1, Division
    <3>8. a2 = a3 /\ c2 = c3
      <4>1. x \in Int
        BY <2>1
      <4>2. x * N = x * n + x * k
        <5> HIDE DEF x
        <5>1. N = n + k
          BY <2>3, <2>4, <3>1
        <5> QED
          BY <2>3, <3>1, <4>1, <5>1
      <4>3. x * n \in Int /\ x * k \in Int /\ base \in Int
        BY <2>1, <2>3, <3>1, <4>1
      <4>4. D \in Nat \ {0}
        OBVIOUS
      <4>5. a * D \in Int
        BY <4>4
      <4> HIDE DEF x, D, base
      <4>6. D * a2 + c2 = D * a3 + c3
        <5>1. a2 * D + c2 = a3 * D + c3
          BY <2>3, <3>5, <3>6, <4>2, <4>3, <4>5
        <5> QED
          BY <4>4, <5>1
      <4>7. D * a2 + c2 \in Int
        BY <4>4
      <4> QED
        BY <3>7, <4>4, <4>6, <4>7, DivisionUnique
    <3>9. l2 = l3
      <4> DEFINE S == SECONDS_PER_MONTH
      <4>1. S \in Nat
        OBVIOUS
      <4> HIDE DEF S
      <4>2. n * S \in Int /\ k * S \in Int /\ N * S = n * S + k * S
        <5>1. N = n + k
          BY <2>3, <2>4, <3>1
        <5> QED
          BY <2>3, <3>1, <4>1, <5>1
      <4> QED
        BY <2>1, <2>3, <3>5, <3>6, <4>2 DEF S
    <3>10. UpTo(m2, a2, c2, l2) = UpTo(m, a2, c2, l2)
      BY UpToTwice DEF m2
    <3> QED
      BY <2>3, <3>5, <3>6, <3>8, <3>9, <3>10 DEF m2
  <2> QED
    BY <2>3, <2>4, <2>8, <2>9
<1> QED
  BY <1>1, <1>2

-----------------------------------------------------------------------------
(* The loan against the ledger: constant-level facts.                      *)

\* A quotient grows by one exactly when the remainder wraps around.
LEMMA DivisionStep ==
  ASSUME NEW x \in Int, NEW d \in Nat \ {0}
  PROVE  (x + 1) \div d = x \div d + (IF (x + 1) % d = 0 THEN 1 ELSE 0)
<1> DEFINE q == x \div d
           r == x % d
<1>1. q \in Int /\ r \in 0..(d - 1) /\ x = d * q + r
  BY Division
<1> HIDE DEF q, r
<1>2. CASE r = d - 1
  <2>1. x + 1 = d * (q + 1) + 0 /\ q + 1 \in Int /\ 0 \in 0..(d - 1) /\ x + 1 \in Int
    BY <1>1, <1>2
  <2>2. (x + 1) \div d = q + 1 /\ (x + 1) % d = 0
    BY <2>1, DivisionUnique
  <2> QED
    BY <2>2 DEF q
<1>3. CASE r # d - 1
  <2>1. x + 1 = d * q + (r + 1) /\ r + 1 \in 0..(d - 1) /\ x + 1 \in Int
    BY <1>1, <1>3
  <2>2. (x + 1) \div d = q /\ (x + 1) % d = r + 1
    BY <1>1, <2>1, DivisionUnique
  <2> QED
    BY <1>1, <2>2 DEF q
<1> QED
  BY <1>2, <1>3

\* What a loan has been charged so far, in the ledger's unit.
ChargedBy(m) == (m.interest_accrued + m.interest_paid) * ChargeDivisor + m.interest_carry

\* Accruing a loan in being leaves less than a month uncharged.
LEMMA AccrueOpen ==
  ASSUME NEW m \in Mortgage, NEW t \in Nat,
         m.last_accrued_at > 0, m.last_accrued_at <= t, m.outstanding > 0
  PROVE  \E a \in Nat, c \in Nat, l \in Nat :
           /\ Accrue(m, t) = UpTo(m, a, c, l)
           /\ (a + m.interest_paid) * ChargeDivisor + c =
                ChargedBy(m) + m.outstanding * m.rate_bps * MonthsSince(m, t)
           /\ l = m.last_accrued_at + MonthsSince(m, t) * SECONDS_PER_MONTH
           /\ l <= t /\ t - l < SECONDS_PER_MONTH
           /\ MonthsSince(m, t) \in Nat
<1> DEFINE S == SECONDS_PER_MONTH
           D == ChargeDivisor
           n == MonthsSince(m, t)
           b == m.last_accrued_at
           x == m.outstanding * m.rate_bps
<1>1. /\ b \in Nat /\ S \in Nat \ {0} /\ D \in Nat \ {0}
      /\ m.interest_accrued \in Nat /\ m.interest_carry \in Nat /\ m.interest_paid \in Nat
      /\ m.outstanding \in Nat /\ m.rate_bps \in Nat
  BY DivisorPositive DEF Mortgage
<1>2. n = (t - b) \div S
  BY DEF MonthsSince
<1>3. n \in Nat /\ n * S <= t - b /\ t - b < n * S + S
  <2> HIDE DEF S, b, n
  <2>1. t - b \in Nat
    BY <1>1 DEF b
  <2>2. n \in Int /\ (t - b) % S \in 0..(S - 1) /\ t - b = S * n + ((t - b) % S)
    <3> DEFINE y == t - b
    <3> HIDE DEF y
    <3>1. y \in Int /\ n = y \div S
      BY <1>2, <2>1 DEF y
    <3>2. n \in Int /\ y % S \in 0..(S - 1) /\ y = S * n + (y % S)
      BY <1>1, <3>1, Division
    <3> QED
      BY <3>2 DEF y
  <2>3. n \in Nat
    BY <1>1, <1>2, <2>1
  <2> QED
    BY <1>1, <2>1, <2>2, <2>3
<1>4. Charged(m, t) = n
  <2>1. CASE n > 0
    <3>1. n * S > 0
      BY <1>1, <1>3, <2>1
    <3>2. t > b
      <4> HIDE DEF n, S, b
      <4>1. n * S \in Int
        BY <1>1, <1>3
      <4> QED
        BY <1>1, <1>3, <3>1, <4>1
    <3> QED
      BY <2>1, <3>2 DEF Charged, OwesInterest
  <2>2. CASE n = 0
    BY <2>2 DEF Charged, OwesInterest
  <2> QED
    BY <1>3, <2>1, <2>2
<1>5. PICK a \in Nat, c \in Nat, l \in Nat :
        /\ Accrue(m, t) = UpTo(m, a, c, l)
        /\ a * D + c = m.interest_accrued * D + m.interest_carry + x * n
        /\ l = b + n * S
  BY <1>4, AccrueResult
<1> HIDE DEF n, b, S, D, x
<1>6. l <= t /\ t - l < S
  <2>1. n * S \in Int
    BY <1>1, <1>3
  <2> QED
    BY <1>1, <1>3, <1>5, <2>1
<1>7. (a + m.interest_paid) * D + c =
        (m.interest_accrued + m.interest_paid) * D + m.interest_carry + x * n
  <2>1. x * n \in Int
    BY <1>1, <1>3 DEF x
  <2>2. /\ (a + m.interest_paid) * D = a * D + m.interest_paid * D
        /\ (m.interest_accrued + m.interest_paid) * D =
             m.interest_accrued * D + m.interest_paid * D
        /\ a * D \in Int /\ m.interest_paid * D \in Int /\ m.interest_accrued * D \in Int
    BY <1>1
  <2> DEFINE aD == a * D
             pD == m.interest_paid * D
             iD == m.interest_accrued * D
             xn == x * n
  <2>3. aD + c = iD + m.interest_carry + xn
    BY <1>5
  <2>4. aD \in Int /\ pD \in Int /\ iD \in Int /\ xn \in Int
    BY <2>1, <2>2
  <2>5. /\ (a + m.interest_paid) * D = aD + pD
        /\ (m.interest_accrued + m.interest_paid) * D = iD + pD
    BY <2>2
  <2> HIDE DEF aD, pD, iD, xn
  <2>6. aD + pD + c = iD + pD + m.interest_carry + xn
    BY <1>1, <2>3, <2>4
  <2> QED
    BY <2>5, <2>6 DEF xn
<1> QED
  BY <1>3, <1>5, <1>6, <1>7 DEF ChargedBy, n, b, S, D, x

\* Nothing is charged within a month.
LEMMA NoMonth ==
  ASSUME NEW m \in Mortgage, NEW t \in Nat,
         m.last_accrued_at <= t, t - m.last_accrued_at < SECONDS_PER_MONTH
  PROVE  Accrue(m, t) = m
<1> DEFINE y == t - m.last_accrued_at
<1>1. y \in Nat /\ y < SECONDS_PER_MONTH
  BY DEF Mortgage
<1> HIDE DEF y
<1>2. y \div SECONDS_PER_MONTH = 0
  <2>1. y = SECONDS_PER_MONTH * 0 + y /\ y \in 0..(SECONDS_PER_MONTH - 1)
    BY <1>1, DivisorPositive
  <2> QED
    BY <1>1, <2>1, DivisorPositive, DivisionUnique
<1>3. MonthsSince(m, t) = 0
  BY <1>2 DEF MonthsSince, y
<1> QED
  BY <1>3 DEF Accrue, OwesInterest

\* months_since is a difference of times, divided by a month.
LEMMA MonthsAt ==
  ASSUME NEW m \in Mortgage, NEW t \in Nat
  PROVE  MonthsSince(m, t) = (t - m.last_accrued_at) \div SECONDS_PER_MONTH
  BY DEF MonthsSince

\* Whole months move by one exactly when a month of the loan ends.
LEMMA MonthEnding ==
  ASSUME NEW m \in Mortgage, NEW t \in Nat, NEW f \in Nat, NEW k \in Nat,
         m.last_accrued_at = f + k * SECONDS_PER_MONTH
  PROVE  MonthsSince(m, t + 1) =
           MonthsSince(m, t) + (IF ((t + 1) - f) % SECONDS_PER_MONTH = 0 THEN 1 ELSE 0)
<1> DEFINE S == SECONDS_PER_MONTH
           kS == k * S
           y == t - (f + kS)
<1>1. S \in Nat \ {0} /\ kS \in Int
  BY DivisorPositive
<1>2. /\ MonthsSince(m, t) = (t - (f + kS)) \div S
      /\ MonthsSince(m, t + 1) = ((t + 1) - (f + kS)) \div S
  <2>1. m.last_accrued_at = f + kS
    OBVIOUS
  <2>2. /\ MonthsSince(m, t) = (t - m.last_accrued_at) \div S
        /\ MonthsSince(m, t + 1) = ((t + 1) - m.last_accrued_at) \div S
    BY MonthsAt
  <2> HIDE DEF kS, S
  <2> QED
    BY <1>1, <2>1, <2>2
<1> HIDE DEF S
<1>3. ((t + 1) - f) % S = ((t + 1) - (f + kS)) % S
  <2> DEFINE z == (t + 1) - f
  <2>1. z \in Int /\ k \in Int
    OBVIOUS
  <2> HIDE DEF z
  <2>2. (z - k * S) % S = z % S
    BY <1>1, <2>1, DivisionShift, Zenon
  <2> HIDE DEF kS
  <2>3. z - kS = (t + 1) - (f + kS)
    BY <1>1 DEF z
  <2> QED
    BY <2>2, <2>3 DEF z, kS
<1> HIDE DEF kS
<1>4. y \in Int /\ (t + 1) - (f + kS) = y + 1 /\ t - (f + kS) = y
  BY <1>1
<1> HIDE DEF y
<1>5. (y + 1) \div S = y \div S + (IF (y + 1) % S = 0 THEN 1 ELSE 0)
  BY <1>1, <1>4, DivisionStep, Zenon
<1> QED
  BY <1>2, <1>3, <1>4, <1>5 DEF S

\* The loan with the fields a payment writes.
WithPayment(m, a, o, r, i, n, d) ==
  [m EXCEPT !.interest_accrued = a, !.outstanding = o, !.total_repaid = r,
            !.interest_paid = i, !.payments_made = n, !.next_payment_due = d,
            !.status = "Repaying"]

\* The fields a payment writes keep their types.
LEMMA PaidIsMortgage ==
  ASSUME NEW m \in Mortgage, NEW a \in Nat, NEW o \in Nat, NEW r \in Nat, NEW i \in Nat,
         NEW n \in Nat, NEW d \in Nat
  PROVE  WithPayment(m, a, o, r, i, n, d) \in Mortgage
  BY DEF WithPayment, Mortgage, MortgageStatus

\* A payment that repay accepts clears all the interest, never takes more
\* than is owed, repays a slice of principal or all of it, and clears the loan
\* exactly when no principal is left.
PaidFrom(after, m) ==
  /\ after \in Mortgage
  /\ after.interest_accrued = 0
  /\ after.interest_paid = m.interest_paid + m.interest_accrued
  /\ after.total_repaid - after.interest_paid =
       m.total_repaid - m.interest_paid + (m.outstanding - after.outstanding)
  /\ after.outstanding <= m.outstanding
  /\ \/ after.outstanding = 0
     \/ m.outstanding - after.outstanding >= m.principal \div m.term_months
  /\ after.status = "Repaying"
  /\ after.payments_made = m.payments_made + 1
  /\ after.next_payment_due = m.next_payment_due + SECONDS_PER_MONTH
  /\ after.interest_carry = m.interest_carry
  /\ after.last_accrued_at = m.last_accrued_at
  /\ after.disbursed = m.disbursed /\ after.principal = m.principal
  /\ after.rate_bps = m.rate_bps
  /\ after.property_id = m.property_id /\ after.term_months = m.term_months
  /\ IsCleared(after) <=> after.outstanding = 0

\* What repay leaves of a loan after any payment it accepts.
LEMMA PaymentResult ==
  ASSUME NEW m \in Mortgage, NEW amount \in Nat, amount > 0, IsEnough(m, amount)
  PROVE  /\ PaidFrom(AfterPayment(m, Smaller(amount, Payoff(m))), m)
         /\ InterestPart(m, Smaller(amount, Payoff(m))) = m.interest_accrued
         /\ PrincipalPart(m, Smaller(amount, Payoff(m))) =
              m.outstanding - AfterPayment(m, Smaller(amount, Payoff(m))).outstanding
<1> DEFINE after == AfterPayment(m, Smaller(amount, Payoff(m)))
<1> DEFINE pay == Smaller(amount, Payoff(m))
<1>1. /\ m.interest_accrued \in Nat /\ m.outstanding \in Nat /\ m.interest_paid \in Nat
      /\ m.total_repaid \in Nat /\ m.payments_made \in Nat /\ m.next_payment_due \in Nat
      /\ m.principal \in Nat /\ m.term_months \in Nat \ {0}
  BY DEF Mortgage
<1>2. amount >= m.interest_accrued
  <2> DEFINE slice == m.principal \div m.term_months
  <2>1. slice \in Nat
    BY <1>1
  <2> HIDE DEF slice
  <2>2. InstalmentDue(m) = m.interest_accrued + Smaller(slice, m.outstanding)
    BY DEF InstalmentDue, slice
  <2> QED
    BY <1>1, <2>1, <2>2 DEF IsEnough, Payoff, Smaller
<1>3. /\ pay \in Nat /\ InterestPart(m, pay) = m.interest_accrued
      /\ PrincipalPart(m, pay) = pay - m.interest_accrued
      /\ PrincipalPart(m, pay) \in 0..m.outstanding
  BY <1>1, <1>2 DEF Smaller, Payoff, InterestPart, PrincipalPart
<1>9. \/ PrincipalPart(m, pay) = m.outstanding
      \/ PrincipalPart(m, pay) >= m.principal \div m.term_months
  <2> DEFINE slice == m.principal \div m.term_months
  <2>1. slice \in Nat
    BY <1>1
  <2> HIDE DEF slice
  <2>2. InstalmentDue(m) = m.interest_accrued + Smaller(slice, m.outstanding)
    BY DEF InstalmentDue, slice
  <2>3. \/ PrincipalPart(m, pay) = m.outstanding
        \/ PrincipalPart(m, pay) >= slice
    BY <1>1, <1>3, <2>1, <2>2 DEF IsEnough, Payoff, Smaller
  <2> QED
    BY <2>3 DEF slice
<1> HIDE DEF pay
<1>4. after = AfterPayment(m, pay)
  BY DEF pay
<1> HIDE DEF after
<1>5. SECONDS_PER_MONTH \in Nat
  BY DivisorPositive
<1>6. /\ m.outstanding - PrincipalPart(m, pay) \in Nat
      /\ m.interest_accrued - InterestPart(m, pay) = 0
      /\ m.total_repaid + pay \in Nat
      /\ m.interest_paid + InterestPart(m, pay) \in Nat
      /\ m.payments_made + 1 \in Nat
      /\ m.next_payment_due + SECONDS_PER_MONTH \in Nat
  BY <1>1, <1>3, <1>5
<1>7. after \in Mortgage
  <2> DEFINE a == m.interest_accrued - InterestPart(m, pay)
             o == m.outstanding - PrincipalPart(m, pay)
             r == m.total_repaid + pay
             i == m.interest_paid + InterestPart(m, pay)
             n == m.payments_made + 1
             d == m.next_payment_due + SECONDS_PER_MONTH
  <2>2. after = WithPayment(m, a, o, r, i, n, d)
    BY <1>4 DEF AfterPayment, WithPayment
  <2>3. a \in Nat /\ o \in Nat /\ r \in Nat /\ i \in Nat /\ n \in Nat /\ d \in Nat
    BY <1>6
  <2> HIDE DEF a, o, r, i, n, d
  <2> QED
    BY <2>2, <2>3, PaidIsMortgage
<1>8. /\ after.interest_accrued = m.interest_accrued - InterestPart(m, pay)
      /\ after.outstanding = m.outstanding - PrincipalPart(m, pay)
      /\ after.total_repaid = m.total_repaid + pay
      /\ after.interest_paid = m.interest_paid + InterestPart(m, pay)
      /\ after.payments_made = m.payments_made + 1
      /\ after.next_payment_due = m.next_payment_due + SECONDS_PER_MONTH
      /\ after.status = "Repaying"
      /\ after.interest_carry = m.interest_carry
      /\ after.last_accrued_at = m.last_accrued_at
      /\ after.disbursed = m.disbursed /\ after.principal = m.principal
      /\ after.rate_bps = m.rate_bps
      /\ after.property_id = m.property_id /\ after.term_months = m.term_months
  BY <1>4 DEF AfterPayment, Mortgage
<1> DEFINE slice == m.principal \div m.term_months
<1>10. slice \in Nat
  BY <1>1
<1> HIDE DEF slice
<1>11. \/ after.outstanding = 0
       \/ m.outstanding - after.outstanding >= slice
  BY <1>1, <1>3, <1>8, <1>9 DEF slice
<1>12. PaidFrom(after, m)
  <2>1. /\ after.interest_accrued = 0
        /\ after.interest_paid = m.interest_paid + m.interest_accrued
        /\ after.total_repaid - after.interest_paid =
             m.total_repaid - m.interest_paid + (m.outstanding - after.outstanding)
        /\ after.outstanding <= m.outstanding
    BY <1>1, <1>3, <1>6, <1>8
  <2>2. IsCleared(after) <=> after.outstanding = 0
    BY <2>1 DEF IsCleared
  <2>3. \/ after.outstanding = 0
        \/ m.outstanding - after.outstanding >= m.principal \div m.term_months
    BY <1>11 DEF slice
  <2> QED
    BY <1>7, <1>8, <2>1, <2>2, <2>3, Zenon DEF PaidFrom
<1>13. PrincipalPart(m, pay) = m.outstanding - after.outstanding
  BY <1>1, <1>3, <1>8
<1> QED
  BY <1>3, <1>12, <1>13 DEF after, pay

\* The loan with the fields the first draw writes.
Started(g, t, d) ==
  [g EXCEPT !.status = "Funded", !.last_accrued_at = t, !.next_payment_due = d]

\* The first draw writes the status and the two dates, and no amount.
LEMMA StartedFields ==
  ASSUME NEW g \in Mortgage, NEW t \in Nat, NEW d \in Nat
  PROVE  /\ Started(g, t, d) \in Mortgage
         /\ Started(g, t, d).disbursed = g.disbursed /\ Started(g, t, d).outstanding = g.outstanding
         /\ Started(g, t, d).interest_accrued = g.interest_accrued
         /\ Started(g, t, d).interest_carry = g.interest_carry
         /\ Started(g, t, d).interest_paid = g.interest_paid
         /\ Started(g, t, d).total_repaid = g.total_repaid
         /\ Started(g, t, d).payments_made = g.payments_made
         /\ Started(g, t, d).property_id = g.property_id
         /\ Started(g, t, d).term_months = g.term_months
         /\ Started(g, t, d).principal = g.principal /\ Started(g, t, d).rate_bps = g.rate_bps
         /\ Started(g, t, d).status = "Funded" /\ Started(g, t, d).last_accrued_at = t
         /\ Started(g, t, d).next_payment_due = d
  BY DEF Started, Mortgage, MortgageStatus

\* A draw adds its tranche to both balances, and the first one starts the
\* loan's clock.
DrawnFrom(after, m, tranche, t) ==
  /\ after \in Mortgage
  /\ after.disbursed = m.disbursed + tranche
  /\ after.outstanding = m.outstanding + tranche
  /\ after.interest_accrued = m.interest_accrued
  /\ after.interest_carry = m.interest_carry
  /\ after.interest_paid = m.interest_paid
  /\ after.total_repaid = m.total_repaid
  /\ after.payments_made = m.payments_made
  /\ after.principal = m.principal /\ after.rate_bps = m.rate_bps
  /\ after.property_id = m.property_id /\ after.term_months = m.term_months
  /\ IF IsFirstDraw(m)
     THEN /\ after.status = "Funded"
          /\ after.last_accrued_at = t
          /\ after.next_payment_due = t + SECONDS_PER_MONTH
     ELSE /\ after.status = m.status
          /\ after.last_accrued_at = m.last_accrued_at
          /\ after.next_payment_due = m.next_payment_due

\* What disburse leaves of a loan, at the first draw and at later ones.
LEMMA DrawResult ==
  ASSUME NEW m \in Mortgage, NEW tranche \in Nat, NEW t \in Nat
  PROVE  DrawnFrom(AfterDraw(m, tranche, t), m, tranche, t)
<1> DEFINE after == AfterDraw(m, tranche, t)
<1>1. t + SECONDS_PER_MONTH \in Nat
  BY DivisorPositive
<1>2. m.disbursed + tranche \in Nat /\ m.outstanding + tranche \in Nat
  BY DEF Mortgage
<1> DEFINE grown == [m EXCEPT !.disbursed = @ + tranche, !.outstanding = @ + tranche]
<1>3. /\ grown \in Mortgage
      /\ grown.disbursed = m.disbursed + tranche
      /\ grown.outstanding = m.outstanding + tranche
      /\ grown.interest_accrued = m.interest_accrued
      /\ grown.interest_carry = m.interest_carry
      /\ grown.interest_paid = m.interest_paid
      /\ grown.total_repaid = m.total_repaid
      /\ grown.payments_made = m.payments_made
      /\ grown.principal = m.principal /\ grown.rate_bps = m.rate_bps
      /\ grown.property_id = m.property_id /\ grown.term_months = m.term_months
      /\ grown.status = m.status
      /\ grown.last_accrued_at = m.last_accrued_at
      /\ grown.next_payment_due = m.next_payment_due
  BY <1>2 DEF Mortgage
<1>4. after = IF IsFirstDraw(m)
              THEN [grown EXCEPT !.status = "Funded", !.last_accrued_at = t,
                                 !.next_payment_due = t + SECONDS_PER_MONTH]
              ELSE grown
  BY DEF AfterDraw
<1> HIDE DEF grown, after
<1>5. CASE IsFirstDraw(m)
  <2> DEFINE d == t + SECONDS_PER_MONTH
  <2>1. after = Started(grown, t, d)
    BY <1>4, <1>5 DEF Started
  <2>2. d \in Nat
    BY <1>1
  <2>3. grown \in Mortgage
    BY <1>3
  <2> HIDE DEF d
  <2>4. /\ after \in Mortgage
        /\ after.disbursed = grown.disbursed /\ after.outstanding = grown.outstanding
        /\ after.interest_accrued = grown.interest_accrued
        /\ after.interest_carry = grown.interest_carry
        /\ after.interest_paid = grown.interest_paid
        /\ after.total_repaid = grown.total_repaid
        /\ after.payments_made = grown.payments_made
        /\ after.principal = grown.principal /\ after.rate_bps = grown.rate_bps
        /\ after.property_id = grown.property_id /\ after.term_months = grown.term_months
        /\ after.status = "Funded" /\ after.last_accrued_at = t
        /\ after.next_payment_due = d
    BY <2>1, <2>2, <2>3, StartedFields
  <2> QED
    BY <1>3, <1>5, <2>4 DEF d, DrawnFrom, after
<1>6. CASE ~IsFirstDraw(m)
  BY <1>3, <1>4, <1>6 DEF DrawnFrom, after
<1> QED
  BY <1>5, <1>6

-----------------------------------------------------------------------------
(* Tranches, statuses, and what accrual leaves alone.                      *)

\* Every tranche is an integer, whatever the stage.
LEMMA TrancheIsInt ==
  ASSUME NEW m \in Mortgage, NEW stage
  PROVE  TrancheFor(m, stage) \in Int
<1>1. m.principal \div MILESTONE_COUNT \in Int /\ m.principal \in Int /\ MILESTONE_COUNT \in Int
  BY MortgageLoanAssumption DEF Mortgage
<1> DEFINE each == m.principal \div MILESTONE_COUNT
<1> HIDE DEF each
<1>2. each * (MILESTONE_COUNT - 1) \in Int
  BY <1>1 DEF each
<1> QED
  BY <1>1, <1>2 DEF TrancheFor, each

LastStage == MILESTONE_COUNT - 1

\* What the tranches of a set of stages come to.
TranchesOf(principal, stages) ==
  (principal \div MILESTONE_COUNT) * Cardinality(stages \ {LastStage})
    + IF LastStage \in stages
      THEN principal - (principal \div MILESTONE_COUNT) * (MILESTONE_COUNT - 1) ELSE 0

\* A set of stages is finite, with at most all but one below the last.
LEMMA StagesAreFinite ==
  ASSUME NEW stages \in SUBSET (0..LastStage)
  PROVE  /\ IsFiniteSet(stages) /\ IsFiniteSet(stages \ {LastStage})
         /\ Cardinality(stages \ {LastStage}) \in 0..(MILESTONE_COUNT - 1)
<1>1. MILESTONE_COUNT \in Nat \ {0}
  BY MortgageLoanAssumption
<1>2. IsFiniteSet(0..(MILESTONE_COUNT - 1)) /\ IsFiniteSet(0..(MILESTONE_COUNT - 2))
      /\ Cardinality(0..(MILESTONE_COUNT - 2)) = MILESTONE_COUNT - 1
  BY <1>1, FS_Interval
<1>3. stages \ {LastStage} \subseteq 0..(MILESTONE_COUNT - 2)
  BY <1>1 DEF LastStage
<1>4. stages \subseteq 0..(MILESTONE_COUNT - 1)
  BY DEF LastStage
<1>5. IsFiniteSet(stages)
  BY <1>2, <1>4, FS_Subset
<1> DEFINE others == stages \ {LastStage}
<1> HIDE DEF others
<1>6. IsFiniteSet(others) /\ Cardinality(others) <= MILESTONE_COUNT - 1
  <2> DEFINE below == 0..(MILESTONE_COUNT - 2)
  <2>1. IsFiniteSet(below) /\ Cardinality(below) = MILESTONE_COUNT - 1 /\ others \subseteq below
    BY <1>2, <1>3 DEF others
  <2> HIDE DEF below
  <2>2. IsFiniteSet(others) /\ Cardinality(others) <= Cardinality(below)
    BY <2>1, FS_Subset
  <2> QED
    BY <2>1, <2>2
<1>7. Cardinality(others) \in Nat
  BY <1>6, FS_CardinalityType
<1>8. Cardinality(others) \in 0..(MILESTONE_COUNT - 1)
  <2> DEFINE c == Cardinality(others)
  <2> HIDE DEF c
  <2>1. c \in Nat /\ c <= MILESTONE_COUNT - 1
    BY <1>6, <1>7 DEF c
  <2>2. c \in 0..(MILESTONE_COUNT - 1)
    BY <1>1, <2>1
  <2> QED
    BY <2>2 DEF c
<1> QED
  BY <1>5, <1>6, <1>8 DEF others

\* Releasing one more stage adds its tranche.
LEMMA TranchesGrow ==
  ASSUME NEW m \in Mortgage, NEW stages \in SUBSET (0..LastStage),
         NEW stage \in (0..LastStage) \ stages
  PROVE  TranchesOf(m.principal, stages \cup {stage}) =
           TranchesOf(m.principal, stages) + TrancheFor(m, stage)
<1> DEFINE each == m.principal \div MILESTONE_COUNT
           rest == m.principal - each * (MILESTONE_COUNT - 1)
           others == stages \ {LastStage}
           n == Cardinality(others)
<1>1. each \in Int /\ rest \in Int
  <2>1. each \in Int /\ m.principal \in Int /\ MILESTONE_COUNT \in Int
    BY MortgageLoanAssumption DEF Mortgage
  <2> HIDE DEF each
  <2>2. each * (MILESTONE_COUNT - 1) \in Int
    BY <2>1
  <2> QED
    BY <2>1, <2>2
<1>2. IsFiniteSet(others) /\ n \in Nat
  BY StagesAreFinite
<1>3. TranchesOf(m.principal, stages) = each * n + IF LastStage \in stages THEN rest ELSE 0
  BY DEF TranchesOf
<1>4. TrancheFor(m, stage) = IF stage = LastStage THEN rest ELSE each
  BY DEF TrancheFor, LastStage
<1>5. TranchesOf(m.principal, stages \cup {stage}) =
        each * Cardinality((stages \cup {stage}) \ {LastStage})
          + IF LastStage \in stages \cup {stage} THEN rest ELSE 0
  BY DEF TranchesOf
<1> HIDE DEF each, rest
<1>6. CASE stage = LastStage
  <2>1. (stages \cup {stage}) \ {LastStage} = others
    BY <1>6
  <2> HIDE DEF others, n
  <2>2. TranchesOf(m.principal, stages \cup {stage}) = each * n + rest
    BY <1>5, <1>6, <2>1 DEF n
  <2>3. TranchesOf(m.principal, stages) = each * n + 0
    BY <1>3, <1>6
  <2>4. each * n \in Int
    BY <1>1, <1>2
  <2> QED
    BY <1>1, <1>4, <1>6, <2>2, <2>3, <2>4
<1>7. CASE stage # LastStage
  <2>1. (stages \cup {stage}) \ {LastStage} = others \cup {stage} /\ stage \notin others
    BY <1>7
  <2> HIDE DEF others
  <2>2. Cardinality(others \cup {stage}) = n + 1
    BY <1>2, <2>1, FS_AddElement
  <2> HIDE DEF n
  <2> DEFINE last == IF LastStage \in stages THEN rest ELSE 0
  <2>3. TranchesOf(m.principal, stages \cup {stage}) = each * (n + 1) + last
    BY <1>5, <1>7, <2>1, <2>2
  <2>4. each * (n + 1) = each * n + each /\ each * n \in Int /\ last \in Int
    BY <1>1, <1>2
  <2>5. TranchesOf(m.principal, stages) = each * n + last
    BY <1>3
  <2> HIDE DEF last
  <2> QED
    BY <1>1, <1>4, <1>7, <2>3, <2>4, <2>5
<1> QED
  BY <1>6, <1>7

\* The sum of the tranches of a set of stages, stage by stage, is the same for
\* all but the last, and the remainder for the last.
LEMMA TranchesTotal ==
  ASSUME NEW m \in Mortgage, NEW stages \in SUBSET (0..LastStage)
  PROVE  Total([s \in stages |-> TrancheFor(m, s)]) = TranchesOf(m.principal, stages)
<1> DEFINE N == MILESTONE_COUNT
           each == m.principal \div N
           rest == m.principal - each * (N - 1)
           f == [s \in stages |-> TrancheFor(m, s)]
           others == stages \ {LastStage}
           last == stages \cap {LastStage}
           A == others \X (1..each)
           B == last \X (1..rest)
<1>1. N \in Nat \ {0} /\ m.principal \in Nat /\ each \in Nat
  BY MortgageLoanAssumption DEF Mortgage
<1>2. rest \in Nat
  <2>1. /\ m.principal % N \in 0..(N - 1) /\ m.principal = N * each + (m.principal % N)
        /\ each \in Int
    <3> DEFINE principal == m.principal
    <3>1. principal \in Nat /\ N \in Nat \ {0}
      BY <1>1
    <3> HIDE DEF principal
    <3>2. /\ principal % N \in 0..(N - 1) /\ principal = N * (principal \div N) + (principal % N)
          /\ principal \div N \in Int
      BY <3>1, Division
    <3> QED
      BY <3>2 DEF principal
  <2> DEFINE left == m.principal % N
  <2> HIDE DEF each, N, left
  <2>2. left \in Nat /\ m.principal = N * each + left
    BY <1>1, <2>1 DEF left
  <2>3. N * each = each * (N - 1) + each /\ each * (N - 1) \in Int
    BY <1>1
  <2>4. m.principal - each * (N - 1) = each + left
    BY <1>1, <2>2, <2>3
  <2> QED
    BY <1>1, <2>2, <2>4
<1>3. /\ \A s \in others : f[s] = each
      /\ \A s \in last : f[s] = rest
  BY DEF TrancheFor, LastStage
<1> HIDE DEF each, rest
<1>4. Units(f) = A \cup B
  <2>1. \A u : u \in Units(f) <=> \E s \in stages : u \in {s} \X (1..f[s])
    BY DEF Units
  <2>2. ASSUME NEW u, u \in Units(f) PROVE u \in A \cup B
    <3>1. PICK s \in stages : u \in {s} \X (1..f[s])
      BY <2>1, <2>2
    <3>2. CASE s \in others
      BY <1>3, <3>1, <3>2
    <3>3. CASE s \in last
      BY <1>3, <3>1, <3>3
    <3> QED
      BY <3>2, <3>3
  <2>3. ASSUME NEW u, u \in A PROVE u \in Units(f)
    <3>1. PICK s \in others : u \in {s} \X (1..each)
      BY <2>3
    <3> QED
      BY <1>3, <2>1, <3>1
  <2>4. ASSUME NEW u, u \in B PROVE u \in Units(f)
    <3>1. PICK s \in last : u \in {s} \X (1..rest)
      BY <2>4
    <3> QED
      BY <1>3, <2>1, <3>1
  <2> QED
    BY <2>2, <2>3, <2>4
<1>5. IsFiniteSet(1..each) /\ Cardinality(1..each) = each
      /\ IsFiniteSet(1..rest) /\ Cardinality(1..rest) = rest
  <2>1. ASSUME NEW n \in Nat PROVE IsFiniteSet(1..n) /\ Cardinality(1..n) = n
    BY FS_Interval
  <2> QED
    BY <1>1, <1>2, <2>1
<1>6. /\ IsFiniteSet(others) /\ Cardinality(others) \in Nat
      /\ IsFiniteSet(last) /\ Cardinality(last) = IF LastStage \in stages THEN 1 ELSE 0
  <2>1. IsFiniteSet(others)
    BY StagesAreFinite
  <2>2. last = IF LastStage \in stages THEN {LastStage} ELSE {}
    OBVIOUS
  <2>3. Cardinality(others) \in Nat
    BY <2>1, FS_CardinalityType
  <2> HIDE DEF others, last
  <2>4. CASE LastStage \in stages
    BY <2>1, <2>2, <2>3, <2>4, FS_Singleton
  <2>5. CASE LastStage \notin stages
    BY <2>1, <2>2, <2>3, <2>5, FS_EmptySet
  <2> QED
    BY <2>4, <2>5
<1>7. A \cap B = {}
  OBVIOUS
<1> HIDE DEF f
<1>8. /\ IsFiniteSet(A) /\ Cardinality(A) = Cardinality(others) * each
      /\ IsFiniteSet(B) /\ Cardinality(B) = Cardinality(last) * rest
  <2> DEFINE T == 1..each
             R == 1..rest
  <2> HIDE DEF others, last, T, R
  <2>1. IsFiniteSet(T) /\ Cardinality(T) = each /\ IsFiniteSet(R) /\ Cardinality(R) = rest
    BY <1>5 DEF T, R
  <2>2. /\ IsFiniteSet(others \X T) /\ Cardinality(others \X T) = Cardinality(others) * Cardinality(T)
        /\ IsFiniteSet(last \X R) /\ Cardinality(last \X R) = Cardinality(last) * Cardinality(R)
    BY <1>6, <2>1, FS_Product
  <2> QED
    BY <2>1, <2>2 DEF T, R
<1> HIDE DEF A, B, others, last
<1>9. Cardinality(A \cup B) = Cardinality(A) + Cardinality(B)
  <2>1. Cardinality(A \cap B) = 0
    BY <1>7, FS_EmptySet
  <2>2. Cardinality(A \cup B) = Cardinality(A) + Cardinality(B) - Cardinality(A \cap B)
    BY <1>8, FS_Union
  <2>3. Cardinality(A) \in Nat /\ Cardinality(B) \in Nat
    BY <1>8, FS_CardinalityType
  <2> QED
    BY <2>1, <2>2, <2>3
<1>10. Total(f) = Cardinality(others) * each + Cardinality(last) * rest
  BY <1>4, <1>8, <1>9 DEF Total
<1>11. Cardinality(last) * rest = IF LastStage \in stages THEN rest ELSE 0
  BY <1>2, <1>6
<1>12. TranchesOf(m.principal, stages) =
         each * Cardinality(others) + IF LastStage \in stages THEN rest ELSE 0
  BY DEF TranchesOf, each, rest, others
<1>13. Cardinality(others) * each = each * Cardinality(others)
  BY <1>1, <1>6
<1> QED
  BY <1>10, <1>11, <1>12, <1>13 DEF f

\* The tranches of all the stages are the loan.
LEMMA TranchesOfAll ==
  ASSUME NEW principal \in Nat
  PROVE  TranchesOf(principal, 0..LastStage) = principal
<1> DEFINE each == principal \div MILESTONE_COUNT
           N == MILESTONE_COUNT
<1>1. N \in Nat \ {0} /\ each \in Nat
  BY MortgageLoanAssumption
<1>2. Cardinality((0..LastStage) \ {LastStage}) = N - 1
  <2>1. (0..LastStage) \ {LastStage} = 0..(N - 2)
    BY <1>1 DEF LastStage
  <2>2. Cardinality(0..(N - 2)) = N - 1
    BY <1>1, FS_Interval
  <2> QED
    BY <2>1, <2>2
<1>3. LastStage \in 0..LastStage
  BY <1>1 DEF LastStage
<1>4. TranchesOf(principal, 0..LastStage) = each * (N - 1) + (principal - each * (N - 1))
  BY <1>2, <1>3 DEF TranchesOf
<1> HIDE DEF each, N
<1>5. each * (N - 1) \in Int
  BY <1>1
<1> QED
  BY <1>4, <1>5

\* All the tranches together are no more than the loan.
LEMMA TranchesAreBounded ==
  ASSUME NEW principal \in Nat, NEW stages \in SUBSET (0..LastStage)
  PROVE  TranchesOf(principal, stages) <= principal
<1> DEFINE each == principal \div MILESTONE_COUNT
           N == MILESTONE_COUNT
           n == Cardinality(stages \ {LastStage})
<1>1. N \in Nat \ {0} /\ each \in Nat
  BY MortgageLoanAssumption
<1>2. n \in 0..(N - 1)
  BY StagesAreFinite
<1>3. each * N <= principal
  <2>1. each \in Int /\ (principal % N) \in 0..(N - 1) /\ principal = N * each + (principal % N)
    BY <1>1, Division
  <2> HIDE DEF each, N
  <2> QED
    BY <1>1, <2>1
<1>4. TranchesOf(principal, stages) =
        each * n + IF LastStage \in stages THEN principal - each * (N - 1) ELSE 0
  BY DEF TranchesOf
<1> HIDE DEF each, N, n
<1>5. each * n <= each * (N - 1) /\ each * n \in Int /\ each * (N - 1) \in Int
  BY <1>1, <1>2
<1>6. each * (N - 1) <= each * N /\ each * N \in Int
  BY <1>1
<1> QED
  BY <1>3, <1>4, <1>5, <1>6

\* A loan whose status alone changes.
LEMMA StatusOnly ==
  ASSUME NEW m \in Mortgage, NEW status \in MortgageStatus
  PROVE  /\ [m EXCEPT !.status = status] \in Mortgage
         /\ [m EXCEPT !.status = status].status = status
         /\ ChargedBy([m EXCEPT !.status = status]) = ChargedBy(m)
  BY DEF Mortgage, ChargedBy

\* Accruing changes nothing but the interest and its clock.
LEMMA AccrueKeeps ==
  ASSUME NEW m \in Mortgage, NEW t \in Nat
  PROVE  /\ Accrue(m, t) \in Mortgage
         /\ Accrue(m, t).principal = m.principal
         /\ Accrue(m, t).disbursed = m.disbursed
         /\ Accrue(m, t).outstanding = m.outstanding
         /\ Accrue(m, t).total_repaid = m.total_repaid
         /\ Accrue(m, t).interest_paid = m.interest_paid
         /\ Accrue(m, t).property_id = m.property_id
         /\ Accrue(m, t).term_months = m.term_months
         /\ Accrue(m, t).rate_bps = m.rate_bps
         /\ Accrue(m, t).status = m.status
         /\ Accrue(m, t).payments_made = m.payments_made
         /\ Accrue(m, t).next_payment_due = m.next_payment_due
<1>1. PICK a \in Nat, c \in Nat, l \in Nat :
        /\ Accrue(m, t) = UpTo(m, a, c, l)
        /\ a * ChargeDivisor + c =
             m.interest_accrued * ChargeDivisor + m.interest_carry
               + m.outstanding * m.rate_bps * Charged(m, t)
        /\ c = IF OwesInterest(m, t) THEN Charge(m, MonthsSince(m, t)) % ChargeDivisor
                                     ELSE m.interest_carry
        /\ l = m.last_accrued_at + Charged(m, t) * SECONDS_PER_MONTH
        /\ Charged(m, t) \in Nat
  BY AccrueResult
<1> DEFINE u == UpTo(m, a, c, l)
<1>2. /\ u \in Mortgage
      /\ u.principal = m.principal /\ u.disbursed = m.disbursed
      /\ u.outstanding = m.outstanding /\ u.total_repaid = m.total_repaid
      /\ u.interest_paid = m.interest_paid
      /\ u.property_id = m.property_id /\ u.term_months = m.term_months
      /\ u.rate_bps = m.rate_bps /\ u.status = m.status
      /\ u.payments_made = m.payments_made /\ u.next_payment_due = m.next_payment_due
  BY UpToFields
<1>3. Accrue(m, t) = u
  BY <1>1
<1> HIDE DEF u
<1> QED
  BY <1>2, <1>3

=============================================================================
