------------------------- MODULE LendingPoolProofs -------------------------
(***************************************************************************)
(* Proofs about the treasury, for every set of investors, scale, set of    *)
(* amounts and bound.                                                      *)
(*                                                                         *)
(* The inductive invariant is the conjunction of the invariants, whose     *)
(* parts need each other: total_shares stays natural because the investor  *)
(* who withdraws holds his part of the sum, total_capital because          *)
(* commitments are covered, and credited because settle never debits.      *)
(* The audit's invariants follow from it, from what one investor's         *)
(* rounding comes to, and from what sums of sums are (TotalsProofs).  The  *)
(* last section bounds the rounding without a history, for the modules     *)
(* that hold the pool as an instance.                                      *)
(***************************************************************************)
EXTENDS LendingPoolAudit, TotalsProofs

\* The inductive invariant of the pool.
PoolInv ==
  /\ PoolTypeOK
  /\ CommitmentsAreCovered
  /\ SharesAddUp
  /\ SharesAreBacked
  /\ SettleNeverDebits

-----------------------------------------------------------------------------
(* Arithmetic of the accumulator.                                          *)

\* Division by a positive number keeps naturals natural and keeps order.
LEMMA DivMonotone ==
  ASSUME NEW x \in Nat, NEW y \in Nat, x <= y, NEW d \in Nat \ {0}
  PROVE  x \div d \in Nat /\ x \div d <= y \div d
  OBVIOUS

\* What shares have earned is a natural number and never falls as the
\* accumulator grows.
LEMMA EntitledMonotone ==
  ASSUME NEW s \in Nat, NEW a \in Nat, NEW b \in Nat, a <= b
  PROVE  Entitled(s, a) \in Nat /\ Entitled(s, a) <= Entitled(s, b)
<1>1. s * a \in Nat /\ s * b \in Nat /\ s * a <= s * b
  OBVIOUS
<1>2. SCALE \in Nat \ {0}
  BY LendingPoolAssumption
<1> QED
  BY <1>1, <1>2, DivMonotone DEF Entitled

\* What shares are entitled to is a natural number.
LEMMA EntitledNat ==
  ASSUME NEW s \in Nat, NEW a \in Nat
  PROVE  Entitled(s, a) \in Nat
  BY EntitledMonotone

\* accrue_interest only moves the accumulator up, and leaves a natural carry.
LEMMA AccrueMonotone ==
  ASSUME PoolTypeOK, NEW interest \in Nat, AccrueInterest(interest)
  PROVE  acc' \in Nat /\ acc <= acc' /\ carry' \in Nat
<1> DEFINE scaled == interest * SCALE + carry
<1>1. acc \in Nat /\ carry \in Nat /\ total_shares \in Nat /\ SCALE \in Nat
  BY LendingPoolAssumption DEF PoolTypeOK
<1>2. CASE interest > 0 /\ total_shares > 0
  <2>1. acc' = acc + scaled \div total_shares /\ carry' = scaled % total_shares
    BY <1>2 DEF AccrueInterest
  <2>2. scaled \in Nat
    BY <1>1
  <2> HIDE DEF scaled
  <2>3. scaled \div total_shares \in Nat /\ scaled % total_shares \in Nat
    BY <2>2, <1>1, <1>2
  <2> QED
    BY <1>1, <2>1, <2>3
<1>3. CASE ~(interest > 0 /\ total_shares > 0)
  BY <1>1, <1>3 DEF AccrueInterest
<1> QED
  BY <1>2, <1>3

-----------------------------------------------------------------------------
(* The shares and their sum.                                               *)

\* The shares of well-typed positions can be summed.
LEMMA SharesAreSummable ==
  ASSUME positions \in [Investors -> Position]
  PROVE  Summable(Shares)
  BY LendingPoolAssumption DEF Summable, Shares, Position

\* Changing one investor's position changes the sum of the shares by as much:
\* what deposit and withdraw rely on when they adjust total_shares.
LEMMA SharesOfOneInvestor ==
  ASSUME NEW i \in Investors,
         positions \in [Investors -> Position],
         NEW q \in Position,
         positions' = [positions EXCEPT ![i] = q]
  PROVE  /\ Total(Shares)' = Total(Shares) + q.shares - positions[i].shares
         /\ positions[i].shares <= Total(Shares)
         /\ Total(Shares) \in Nat
<1> DEFINE f == Shares
           g == Shares'
<1>1. Summable(f)
  BY SharesAreSummable
<1>2. g = [j \in Investors |-> IF j = i THEN q.shares ELSE f[j]]
  BY DEF Shares
<1>3. Summable(g) /\ DOMAIN g = DOMAIN f /\ DOMAIN f = Investors
  BY <1>1, <1>2 DEF Summable, Shares, Position
<1>4. \A j \in DOMAIN f \ {i} : g[j] = f[j]
  BY <1>2 DEF Shares
<1>5. At(f, i) = positions[i].shares /\ At(g, i) = q.shares
  BY <1>2 DEF At, Shares
<1>6. Total(Shares)' = Total(g)
  BY DEF Total, Units
<1> HIDE DEF f, g
<1>7. /\ Total(g) = Total(f) - At(f, i) + At(g, i)
      /\ At(f, i) \in Nat /\ At(g, i) \in Nat /\ Total(f) \in Nat
      /\ At(f, i) <= Total(f)
  BY <1>1, <1>3, <1>4, TotalOfOne
<1> QED
  BY <1>5, <1>6, <1>7 DEF f

-----------------------------------------------------------------------------
(* The invariant.                                                          *)

\* The invariant holds of an empty pool.
LEMMA PoolInvInit == PoolInit => PoolInv
<1> SUFFICES ASSUME PoolInit PROVE PoolInv
  OBVIOUS
<1> USE DEF PoolInit
<1>1. PoolTypeOK
  BY DEF PoolTypeOK, Position, NoPosition
<1>2. CommitmentsAreCovered /\ SharesAreBacked
  BY DEF CommitmentsAreCovered, SharesAreBacked
<1>3. \A i \in DOMAIN Shares : Shares[i] = 0
  BY DEF Shares, NoPosition
<1>4. SharesAddUp
  BY <1>3, TotalOfNothing DEF SharesAddUp
<1>5. SettleNeverDebits
  <2>1. Entitled(0, 0) \in Nat
    BY EntitledMonotone
  <2> QED
    BY <2>1 DEF SettleNeverDebits, NoPosition
<1> QED
  BY <1>1, <1>2, <1>3, <1>4, <1>5 DEF PoolInv

\* The fields of a settled position.
LEMMA SettleResult ==
  ASSUME NEW p \in Position, NEW a
  PROVE  Settle(p, a) =
           [shares      |-> p.shares,
            reward_debt |-> Entitled(p.shares, a),
            credited    |-> p.credited + (Entitled(p.shares, a) - p.reward_debt)]
<1>1. PICK s \in Nat, d \in Nat, c \in Nat :
        p = [shares |-> s, reward_debt |-> d, credited |-> c]
  <2>1. p = [shares |-> p.shares, reward_debt |-> p.reward_debt, credited |-> p.credited]
    BY DEF Position
  <2> QED
    BY <2>1 DEF Position
<1> DEFINE e == Entitled(s, a)
           v == c + (e - d)
<1>2. Settle(p, a) = [[p EXCEPT !.credited = v] EXCEPT !.reward_debt = e]
  BY <1>1 DEF Settle
<1> HIDE DEF e, v
<1>3. [p EXCEPT !.credited = v] = [shares |-> s, reward_debt |-> d, credited |-> v]
  BY <1>1
<1>4. Settle(p, a) = [shares |-> s, reward_debt |-> e, credited |-> v]
  BY <1>2, <1>3
<1> QED
  BY <1>1, <1>4 DEF e, v

\* A position whose shares change by delta: its anchor is what the new shares
\* would have earned, and settling it credits what it could have claimed.
LEMMA ChangeSharesResult ==
  ASSUME PoolInv, NEW i \in Investors, NEW delta \in Int,
         positions[i].shares + delta \in Nat
  PROVE  LET q == ChangeShares(positions[i], delta)
         IN  /\ q \in Position
             /\ q.shares = positions[i].shares + delta
             /\ q.reward_debt = Entitled(q.shares, acc)
             /\ q.credited = ClaimableInterest(i)
<1> DEFINE p == positions[i]
           t == p.shares + delta
           c == p.credited + (Entitled(p.shares, acc) - p.reward_debt)
<1>1. p \in Position /\ acc \in Nat
  BY DEF PoolInv, PoolTypeOK
<1>2. p.reward_debt <= Entitled(p.shares, acc)
  BY DEF PoolInv, SettleNeverDebits
<1>3. Entitled(p.shares, acc) \in Nat /\ Entitled(t, acc) \in Nat
  <2>1. p.shares \in Nat /\ t \in Nat
    BY <1>1 DEF Position
  <2> QED
    BY <1>1, <2>1, EntitledNat
<1>4. c \in Nat
  BY <1>1, <1>2, <1>3 DEF Position
<1>5. Settle(p, acc) =
        [shares |-> p.shares, reward_debt |-> Entitled(p.shares, acc), credited |-> c]
  BY <1>1, SettleResult
<1>6. ChangeShares(p, delta) =
        [shares |-> t, reward_debt |-> Entitled(t, acc), credited |-> c]
  <2> DEFINE e == Entitled(p.shares, acc)
             r == [shares |-> t, reward_debt |-> e, credited |-> c]
  <2>1. ChangeShares(p, delta) = ResetDebt([Settle(p, acc) EXCEPT !.shares = @ + delta], acc)
    BY DEF ChangeShares
  <2>2. Settle(p, acc).shares = p.shares
    BY <1>5
  <2> HIDE DEF c, e
  <2>3. [Settle(p, acc) EXCEPT !.shares = t] = r
    BY <1>5 DEF e
  <2>4. [r EXCEPT !.reward_debt = Entitled(t, acc)] =
          [shares |-> t, reward_debt |-> Entitled(t, acc), credited |-> c]
    OBVIOUS
  <2> QED
    BY <2>1, <2>2, <2>3, <2>4 DEF ResetDebt
<1>7. ClaimableInterest(i) = c
  BY <1>5 DEF ClaimableInterest
<1> QED
  BY <1>3, <1>4, <1>6, <1>7 DEF Position

\* A deposit or a withdrawal: shares and capital move by the same delta.
LEMMA ChangeSharesStep ==
  ASSUME PoolInv, NEW i \in Investors, NEW delta \in Int,
         positions[i].shares + delta \in Nat,
         total_reserved <= total_capital + delta,
         usdc + delta \in Nat,
         positions' = [positions EXCEPT ![i] = ChangeShares(@, delta)],
         total_shares' = total_shares + delta,
         total_capital' = total_capital + delta,
         usdc' = usdc + delta,
         UNCHANGED <<total_reserved, total_lent, total_interest,
                     total_written_off, acc, carry>>
  PROVE  PoolInv'
<1> DEFINE q == ChangeShares(positions[i], delta)
<1>1. /\ q \in Position
      /\ q.shares = positions[i].shares + delta
      /\ q.reward_debt = Entitled(q.shares, acc)
  BY ChangeSharesResult
<1>2. positions' = [positions EXCEPT ![i] = q] /\ positions \in [Investors -> Position]
  BY DEF PoolInv, PoolTypeOK
<1> HIDE DEF q
<1>3. /\ Total(Shares)' = Total(Shares) + q.shares - positions[i].shares
      /\ positions[i].shares <= Total(Shares)
  BY <1>1, <1>2, SharesOfOneInvestor
<1>4. positions[i].shares \in Nat
  BY <1>2 DEF Position
<1>5. SharesAddUp' /\ total_shares' \in Nat
  <2>1. total_shares = Total(Shares) /\ total_shares \in Nat
    BY DEF PoolInv, SharesAddUp, PoolTypeOK
  <2>2. Total(Shares)' = total_shares'
    BY <1>1, <1>3, <1>4, <2>1
  <2>3. total_shares' \in Nat
    BY <1>3, <1>4, <2>1
  <2> QED
    BY <2>2, <2>3 DEF SharesAddUp
<1>6. PoolTypeOK'
  <2>1. positions' \in [Investors -> Position]
    BY <1>1, <1>2
  <2> QED
    BY <2>1, <1>5 DEF PoolInv, PoolTypeOK
<1>7. CommitmentsAreCovered' /\ SharesAreBacked'
  BY DEF PoolInv, PoolTypeOK, CommitmentsAreCovered, SharesAreBacked
<1>8. SettleNeverDebits'
  <2> SUFFICES ASSUME NEW j \in Investors
               PROVE  positions'[j].reward_debt <= Entitled(positions'[j].shares, acc)
    BY DEF SettleNeverDebits, Entitled
  <2>1. CASE j = i
    BY <1>1, <1>2, <2>1 DEF Position
  <2>2. CASE j # i
    BY <1>2, <2>2 DEF PoolInv, SettleNeverDebits
  <2> QED
    BY <2>1, <2>2
<1> QED
  BY <1>5, <1>6, <1>7, <1>8 DEF PoolInv

\* What a step that leaves the positions alone has to preserve.
LEMMA SamePositionsStep ==
  ASSUME PoolInv, UNCHANGED <<positions, total_shares>>,
         acc' \in Nat, acc <= acc',
         PoolTypeOK', CommitmentsAreCovered', SharesAreBacked'
  PROVE  PoolInv'
<1>1. SharesAddUp'
  BY DEF PoolInv, SharesAddUp, Shares
<1>2. SettleNeverDebits'
  <2> SUFFICES ASSUME NEW j \in Investors
               PROVE  positions[j].reward_debt <= Entitled(positions[j].shares, acc')
    BY DEF SettleNeverDebits, Entitled
  <2>1. positions[j] \in Position /\ acc \in Nat
    BY DEF PoolInv, PoolTypeOK
  <2>2. positions[j].reward_debt <= Entitled(positions[j].shares, acc)
    BY DEF PoolInv, SettleNeverDebits
  <2>3. /\ Entitled(positions[j].shares, acc) \in Nat
        /\ Entitled(positions[j].shares, acc') \in Nat
        /\ Entitled(positions[j].shares, acc) <= Entitled(positions[j].shares, acc')
    <3>1. positions[j].shares \in Nat
      BY <2>1 DEF Position
    <3> QED
      BY <2>1, <3>1, EntitledMonotone, EntitledNat
  <2> QED
    BY <2>1, <2>2, <2>3 DEF Position
<1> QED
  BY <1>1, <1>2 DEF PoolInv

\* Every operation of the pool keeps the invariant.
LEMMA PoolInvNext == PoolInv /\ [PoolNext]_poolVars => PoolInv'
<1> SUFFICES ASSUME PoolInv, [PoolNext]_poolVars PROVE PoolInv'
  OBVIOUS
<1> USE LendingPoolAssumption
<1>1. CASE DepositTx
  <2>1. PICK i \in Investors, amount \in Amounts : Deposit(i, amount)
    BY <1>1 DEF DepositTx
  <2>2. amount \in Int /\ amount > 0 /\ positions[i].shares \in Nat
    BY <2>1 DEF Deposit, PoolInv, PoolTypeOK, Position
  <2> QED
    <3>1. /\ positions[i].shares + amount \in Nat
          /\ total_reserved <= total_capital + amount
          /\ usdc + amount \in Nat
      BY <2>2 DEF PoolInv, PoolTypeOK, CommitmentsAreCovered
    <3> QED
      BY <2>1, <2>2, <3>1, ChangeSharesStep DEF Deposit
<1>2. CASE WithdrawTx
  <2>1. PICK i \in Investors, amount \in Amounts : Withdraw(i, amount)
    BY <1>2 DEF WithdrawTx
  <2>2. /\ -amount \in Int
        /\ positions[i].shares + (-amount) \in Nat
        /\ total_reserved <= total_capital + (-amount)
        /\ usdc + (-amount) \in Nat
        /\ total_shares' = total_shares + (-amount)
        /\ total_capital' = total_capital + (-amount)
        /\ usdc' = usdc + (-amount)
    BY <2>1 DEF Withdraw, Available, PoolInv, PoolTypeOK, Position
  <2> QED
    BY <2>1, <2>2, ChangeSharesStep DEF Withdraw
<1>3. CASE ClaimInterestTx
  <2>1. PICK i \in Investors : ClaimInterest(i)
    BY <1>3 DEF ClaimInterestTx
  <2> DEFINE q == [Settle(positions[i], acc) EXCEPT !.credited = 0]
  <2>2. /\ positions[i] \in Position /\ acc \in Nat
        /\ positions \in [Investors -> Position]
    BY DEF PoolInv, PoolTypeOK
  <2>3. Entitled(positions[i].shares, acc) \in Nat
    <3>1. positions[i].shares \in Nat
      BY <2>2 DEF Position
    <3> QED
      BY <2>2, <3>1, EntitledNat
  <2>4. q = [shares |-> positions[i].shares,
             reward_debt |-> Entitled(positions[i].shares, acc),
             credited |-> 0]
    BY <2>2, SettleResult
  <2>5. q \in Position /\ positions' = [positions EXCEPT ![i] = q]
    BY <2>1, <2>2, <2>3, <2>4 DEF ClaimInterest, Position
  <2>6. Settle(positions[i], acc).credited \in Int
    BY <2>2, <2>3, SettleResult DEF Position
  <2>7. usdc' \in Nat
    BY <2>1, <2>6 DEF ClaimInterest, PoolInv, PoolTypeOK
  <2>8. PoolTypeOK' /\ CommitmentsAreCovered' /\ SharesAreBacked'
    BY <2>1, <2>2, <2>5, <2>7
    DEF ClaimInterest, PoolInv, PoolTypeOK, CommitmentsAreCovered, SharesAreBacked
  <2> HIDE DEF q
  <2>9. SharesAddUp'
    <3>1. Total(Shares)' = Total(Shares) + q.shares - positions[i].shares
      BY <2>2, <2>5, SharesOfOneInvestor
    <3>2. q.shares = positions[i].shares /\ positions[i].shares \in Nat
      BY <2>2, <2>4 DEF Position
    <3>3. total_shares = Total(Shares) /\ total_shares \in Nat
      BY DEF PoolInv, SharesAddUp, PoolTypeOK
    <3>4. total_shares' = Total(Shares)'
      BY <2>1, <3>1, <3>2, <3>3 DEF ClaimInterest
    <3> QED
      BY <3>4 DEF SharesAddUp
  <2>10. SettleNeverDebits'
    <3> SUFFICES ASSUME NEW j \in Investors
                 PROVE  positions'[j].reward_debt <= Entitled(positions'[j].shares, acc)
      BY <2>1 DEF SettleNeverDebits, Entitled, ClaimInterest
    <3>1. CASE j = i
      BY <2>2, <2>3, <2>4, <2>5, <3>1
    <3>2. CASE j # i
      BY <2>2, <2>5, <3>2 DEF PoolInv, SettleNeverDebits
    <3> QED
      BY <3>1, <3>2
  <2> QED
    BY <2>8, <2>9, <2>10 DEF PoolInv
<1>4. CASE ReserveTx
  BY <1>4, SamePositionsStep
  DEF ReserveTx, Reserve, Available, PoolInv, PoolTypeOK, CommitmentsAreCovered, SharesAreBacked
<1>5. CASE UnreserveTx
  BY <1>5, SamePositionsStep
  DEF UnreserveTx, Unreserve, PoolInv, PoolTypeOK, CommitmentsAreCovered, SharesAreBacked
<1>6. CASE DisburseTx
  BY <1>6, SamePositionsStep
  DEF DisburseTx, Disburse, PoolInv, PoolTypeOK, CommitmentsAreCovered, SharesAreBacked
<1>7. CASE RepayTx
  <2>1. PICK principal \in Amounts \cup {0}, interest \in Amounts \cup {0} :
          /\ principal <= total_lent
          /\ Repay(principal, interest)
          /\ UNCHANGED <<positions, total_reserved, total_written_off, total_shares>>
    BY <1>7 DEF RepayTx
  <2>2. principal \in Nat /\ interest \in Nat /\ PoolTypeOK
    BY <2>1 DEF Repay, PoolInv
  <2>3. acc' \in Nat /\ acc <= acc' /\ carry' \in Nat
    BY <2>1, <2>2, AccrueMonotone DEF Repay
  <2>4. BankedAsCapital(interest) \in 0..interest
    BY <2>2 DEF BankedAsCapital
  <2>5. PoolTypeOK'
    BY <2>1, <2>2, <2>3, <2>4 DEF Repay, PoolTypeOK
  <2>6. CommitmentsAreCovered' /\ SharesAreBacked'
    BY <2>1, <2>2, <2>4
    DEF Repay, PoolInv, PoolTypeOK, CommitmentsAreCovered, SharesAreBacked
  <2> QED
    BY <2>1, <2>3, <2>5, <2>6, SamePositionsStep
<1>8. CASE WriteOffTx
  BY <1>8, SamePositionsStep
  DEF WriteOffTx, WriteOff, PoolInv, PoolTypeOK, CommitmentsAreCovered, SharesAreBacked
<1>9. CASE UNCHANGED poolVars
  <2>1. PoolTypeOK' /\ CommitmentsAreCovered' /\ SharesAreBacked'
    BY <1>9 DEF poolVars, PoolInv, PoolTypeOK, CommitmentsAreCovered, SharesAreBacked
  <2>2. UNCHANGED <<positions, total_shares>> /\ acc' \in Nat /\ acc <= acc'
    BY <1>9 DEF poolVars, PoolInv, PoolTypeOK
  <2> QED
    BY <2>1, <2>2, SamePositionsStep
<1> QED
  BY <1>1, <1>2, <1>3, <1>4, <1>5, <1>6, <1>7, <1>8, <1>9 DEF PoolNext

\* The invariant behind the theorems about lending_pool.
THEOREM PoolInvariant == PoolSpec => []PoolInv
  BY PoolInvInit, PoolInvNext, PTL DEF PoolSpec

\* Every total and every field of every position stays a natural number.
THEOREM PoolTypeCorrect == PoolSpec => []PoolTypeOK
  BY PoolInvariant, PTL DEF PoolInv

\* Committed money cannot be withdrawn (withdraw, reserve, disburse).
THEOREM CommittedCapitalStays == PoolSpec => []CommitmentsAreCovered
  BY PoolInvariant, PTL DEF PoolInv

\* total_shares, the divisor of accrue_interest, is the sum of the shares held
\* by any number of investors.
THEOREM SharesSum == PoolSpec => []SharesAddUp
  BY PoolInvariant, PTL DEF PoolInv

\* Capital in the pool, out with borrowers and written off accounts for every
\* share, up to the interest banked while nobody held shares.
THEOREM PrincipalIsConserved == PoolSpec => []SharesAreBacked
  BY PoolInvariant, PTL DEF PoolInv

\* settle never debits an investor.
THEOREM NoDebit == PoolSpec => []SettleNeverDebits
  BY PoolInvariant, PTL DEF PoolInv

-----------------------------------------------------------------------------
(* Moving capital never moves interest.                                    *)

\* The step condition of OnlyPaymentsEarnInterest, for one investor.
ClaimMovesOnlyByPayment(i) ==
  \/ ClaimableInterest(i)' = ClaimableInterest(i)
  \/ acc' > acc /\ ClaimableInterest(i)' > ClaimableInterest(i)
  \/ /\ acc' = acc
     /\ ClaimableInterest(i)' = 0
     /\ usdc - usdc' = ClaimableInterest(i)

\* What an investor can claim, from the fields of the position.
LEMMA ClaimableIs ==
  ASSUME PoolTypeOK, NEW i \in Investors
  PROVE  /\ ClaimableInterest(i) =
              positions[i].credited
                + (Entitled(positions[i].shares, acc) - positions[i].reward_debt)
         /\ ClaimableInterest(i) \in Int
<1>1. positions[i] \in Position /\ acc \in Nat
  BY DEF PoolTypeOK
<1>2. positions[i].shares \in Nat
  BY <1>1 DEF Position
<1>3. Entitled(positions[i].shares, acc) \in Nat
  BY <1>1, <1>2, EntitledNat
<1> QED
  BY <1>1, <1>3, SettleResult DEF ClaimableInterest, Position

\* A change of shares re-anchors the position where it was settled.
LEMMA ChangeSharesKeepsClaims ==
  ASSUME PoolInv, NEW i \in Investors, NEW delta \in Int,
         positions[i].shares + delta \in Nat,
         positions' = [positions EXCEPT ![i] = ChangeShares(@, delta)],
         acc' = acc,
         PoolInv',
         NEW j \in Investors
  PROVE  ClaimableInterest(j)' = ClaimableInterest(j)
<1>1. positions \in [Investors -> Position] /\ positions' \in [Investors -> Position]
  BY DEF PoolInv, PoolTypeOK
<1>2. /\ ClaimableInterest(j)' =
           positions'[j].credited
             + (Entitled(positions'[j].shares, acc) - positions'[j].reward_debt)
      /\ ClaimableInterest(j) \in Int
  <2>1. positions'[j] \in Position
    BY <1>1
  <2>2. ClaimableInterest(j)' = Settle(positions'[j], acc).credited
    BY DEF ClaimableInterest, Settle, Entitled
  <2> QED
    BY <2>1, <2>2, SettleResult, ClaimableIs DEF PoolInv
<1>3. CASE j = i
  <2> DEFINE q == ChangeShares(positions[i], delta)
  <2>1. /\ q.reward_debt = Entitled(q.shares, acc)
        /\ q.credited = ClaimableInterest(i)
        /\ q.shares \in Nat
    BY ChangeSharesResult
  <2>2. positions'[j] = q
    BY <1>1, <1>3
  <2>3. Entitled(q.shares, acc) \in Nat
    <3>1. acc \in Nat
      BY DEF PoolInv, PoolTypeOK
    <3> HIDE DEF q
    <3> QED
      BY <2>1, <3>1, EntitledNat
  <2> HIDE DEF q
  <2> QED
    BY <1>2, <1>3, <2>1, <2>2, <2>3
<1>4. CASE j # i
  <2>1. positions'[j] = positions[j]
    BY <1>1, <1>4
  <2> QED
    BY <1>2, <2>1, ClaimableIs DEF PoolInv
<1> QED
  BY <1>3, <1>4

\* A step that leaves the positions alone and does not lower the accumulator
\* moves an investor's interest only by a payment.
LEMMA SamePositionsClaim ==
  ASSUME PoolTypeOK, UNCHANGED positions, acc' \in Nat, acc <= acc', NEW i \in Investors
  PROVE  ClaimMovesOnlyByPayment(i)
<1>1. positions[i] \in Position /\ positions[i].shares \in Nat /\ acc \in Nat
  BY DEF PoolTypeOK, Position
<1> DEFINE e == Entitled(positions[i].shares, acc)
           f == Entitled(positions[i].shares, acc')
<1>2. e \in Nat /\ f \in Nat /\ e <= f
  BY <1>1, EntitledMonotone, EntitledNat
<1>3. /\ ClaimableInterest(i)  = positions[i].credited + (e - positions[i].reward_debt)
      /\ ClaimableInterest(i)' = positions[i].credited + (f - positions[i].reward_debt)
  BY <1>1, SettleResult DEF ClaimableInterest
<1> HIDE DEF e, f
<1>4. CASE acc' = acc
  BY <1>4 DEF ClaimMovesOnlyByPayment, ClaimableInterest
<1>5. CASE acc' # acc
  BY <1>1, <1>2, <1>3, <1>5 DEF ClaimMovesOnlyByPayment, Position
<1> QED
  BY <1>4, <1>5

\* A step of any operation moves an investor's interest only by a payment.
LEMMA ClaimStep ==
  ASSUME PoolInv, PoolNext, PoolInv', NEW i \in Investors
  PROVE  ClaimMovesOnlyByPayment(i)
<1> USE LendingPoolAssumption
<1>1. CASE DepositTx
  <2>1. PICK j \in Investors, amount \in Amounts : Deposit(j, amount)
    BY <1>1 DEF DepositTx
  <2>2. amount \in Int /\ positions[j].shares + amount \in Nat
    BY <2>1 DEF Deposit, PoolInv, PoolTypeOK, Position
  <2>3. ClaimableInterest(i)' = ClaimableInterest(i)
    BY <2>1, <2>2, ChangeSharesKeepsClaims DEF Deposit
  <2> QED
    BY <2>3 DEF ClaimMovesOnlyByPayment
<1>2. CASE WithdrawTx
  <2>1. PICK j \in Investors, amount \in Amounts : Withdraw(j, amount)
    BY <1>2 DEF WithdrawTx
  <2>2. -amount \in Int /\ positions[j].shares + (-amount) \in Nat
    BY <2>1 DEF Withdraw, PoolInv, PoolTypeOK, Position
  <2>3. ClaimableInterest(i)' = ClaimableInterest(i)
    BY <2>1, <2>2, ChangeSharesKeepsClaims DEF Withdraw
  <2> QED
    BY <2>3 DEF ClaimMovesOnlyByPayment
<1>3. CASE ClaimInterestTx
  <2>1. PICK j \in Investors : ClaimInterest(j)
    BY <1>3 DEF ClaimInterestTx
  <2>2. /\ positions \in [Investors -> Position]
        /\ positions[i] \in Position /\ positions[j] \in Position
        /\ acc \in Nat /\ usdc \in Nat
    BY DEF PoolInv, PoolTypeOK
  <2>3. acc' = acc
    BY <2>1 DEF ClaimInterest
  <2>4. CASE i # j
    <3>1. positions'[i] = positions[i]
      BY <2>1, <2>2, <2>4 DEF ClaimInterest
    <3> QED
      BY <2>3, <3>1 DEF ClaimMovesOnlyByPayment, ClaimableInterest
  <2>5. CASE i = j
    <3> DEFINE e == Entitled(positions[i].shares, acc)
    <3>1. e \in Nat
      <4>1. positions[i].shares \in Nat
        BY <2>2 DEF Position
      <4> QED
        BY <2>2, <4>1, EntitledNat
    <3>2. positions'[i] = [shares |-> positions[i].shares, reward_debt |-> e, credited |-> 0]
      <4>1. positions'[i] = [Settle(positions[i], acc) EXCEPT !.credited = 0]
        BY <2>1, <2>2, <2>5 DEF ClaimInterest
      <4> DEFINE old == positions[i]
                 v == old.credited + (e - old.reward_debt)
      <4>2. Settle(old, acc) = [shares |-> old.shares, reward_debt |-> e, credited |-> v]
        BY <2>2, SettleResult
      <4> HIDE DEF e, v
      <4> QED
        BY <4>1, <4>2
    <3>3. positions'[i] \in Position
      BY <2>2, <3>1, <3>2 DEF Position
    <3>4. ClaimableInterest(i)' = 0
      <4>1. Settle(positions'[i], acc) =
              [shares |-> positions[i].shares, reward_debt |-> e, credited |-> 0 + (e - e)]
        <5> HIDE DEF e
        <5> QED
          BY <3>2, <3>3, SettleResult DEF e
      <4> QED
        BY <2>3, <3>1, <4>1 DEF ClaimableInterest
    <3>5. usdc' = usdc - ClaimableInterest(i)
      BY <2>1, <2>5 DEF ClaimInterest, ClaimableInterest
    <3>6. ClaimableInterest(i) \in Int
      BY ClaimableIs DEF PoolInv
    <3> QED
      BY <2>2, <2>3, <3>4, <3>5, <3>6 DEF ClaimMovesOnlyByPayment
  <2> QED
    BY <2>4, <2>5
<1>4. CASE ReserveTx \/ UnreserveTx \/ DisburseTx \/ WriteOffTx
  <2>1. positions' = positions /\ acc' = acc /\ acc \in Nat /\ PoolTypeOK
    BY <1>4 DEF ReserveTx, UnreserveTx, DisburseTx, WriteOffTx, PoolInv, PoolTypeOK
  <2> QED
    BY <2>1, SamePositionsClaim
<1>5. CASE RepayTx
  <2>1. PICK principal \in Amounts \cup {0}, interest \in Amounts \cup {0} :
          /\ Repay(principal, interest)
          /\ UNCHANGED positions
    BY <1>5 DEF RepayTx
  <2>2. interest \in Nat /\ PoolTypeOK
    BY <2>1 DEF Repay, PoolInv
  <2>3. acc' \in Nat /\ acc <= acc'
    BY <2>1, <2>2, AccrueMonotone DEF Repay
  <2> QED
    BY <2>1, <2>2, <2>3, SamePositionsClaim
<1> QED
  BY <1>1, <1>2, <1>3, <1>4, <1>5 DEF PoolNext

\* Between payments an investor's claim changes only by being paid out, and a
\* payment never lowers it: deposit, withdraw, write_off and the reservations
\* are neutral (settle and reset_debt around every change of shares).
THEOREM InterestIsPathIndependent == PoolSpec => OnlyPaymentsEarnInterest
<1>1. ASSUME PoolInv, PoolInv', [PoolNext]_poolVars
      PROVE  [\A i \in Investors : ClaimMovesOnlyByPayment(i)]_poolVars
  BY <1>1, ClaimStep
<1>2. [\A i \in Investors : ClaimMovesOnlyByPayment(i)]_poolVars
        <=> [\A i \in Investors :
              \/ ClaimableInterest(i)' = ClaimableInterest(i)
              \/ acc' > acc /\ ClaimableInterest(i)' > ClaimableInterest(i)
              \/ /\ acc' = acc
                 /\ ClaimableInterest(i)' = 0
                 /\ usdc - usdc' = ClaimableInterest(i)]_poolVars
  BY DEF ClaimMovesOnlyByPayment
<1> QED
  BY <1>1, <1>2, PoolInvariant, PTL DEF PoolSpec, OnlyPaymentsEarnInterest

-----------------------------------------------------------------------------
(* The audit.                                                              *)

\* The history variables only watch: every behaviour of the audited pool is one
\* of the pool, so what is proved of LendingPool holds of LendingPoolAudit.
THEOREM AuditIsOfThePool == AuditSpec => PoolSpec
<1>1. AuditInit => PoolInit
  BY DEF AuditInit
<1>2. [AuditNext]_auditVars => [PoolNext]_poolVars
  <2> SUFFICES ASSUME [AuditNext]_auditVars PROVE [PoolNext]_poolVars
    OBVIOUS
  <2>1. CASE AuditedDeposit
    BY <2>1 DEF AuditedDeposit, PoolNext, DepositTx
  <2>2. CASE AuditedWithdraw
    BY <2>2 DEF AuditedWithdraw, PoolNext, WithdrawTx
  <2>3. CASE AuditedClaim
    BY <2>3 DEF AuditedClaim, PoolNext, ClaimInterestTx
  <2>4. CASE AuditedRepay
    BY <2>4 DEF AuditedRepay, PoolNext
  <2>5. CASE AuditedLending
    BY <2>5 DEF AuditedLending, PoolNext
  <2>6. CASE UNCHANGED auditVars
    BY <2>6 DEF auditVars
  <2> QED
    BY <2>1, <2>2, <2>3, <2>4, <2>5, <2>6 DEF AuditNext
<1> QED
  BY <1>1, <1>2, PTL DEF AuditSpec, PoolSpec

\* The histories are natural numbers.
AuditTypeOK ==
  /\ earned \in [Investors -> Nat]
  /\ paid \in [Investors -> Nat]
  /\ anchors \in [Investors -> Nat]
  /\ distributed \in Nat

\* What rounding has given investor i so far, in units of 1/SCALE, with what
\* the present shares earned counted exactly.
RoundingGain(i) ==
  SCALE * (paid[i] + positions[i].credited - positions[i].reward_debt)
    + positions[i].shares * acc - earned[i]

\* Only a change of shares rounds, and by less than one unit either way.
RoundingIsAnchored ==
  \A i \in Investors :
    /\ RoundingGain(i) <= anchors[i] * (SCALE - 1)
    /\ -(anchors[i] * (SCALE - 1)) <= RoundingGain(i)

\* The inductive invariant of the audit.
AuditInv ==
  /\ PoolInv
  /\ AuditTypeOK
  /\ InterestIsFullyDistributed
  /\ CashMatchesTheBooks
  /\ RoundingIsAnchored

\* What the division in settle cuts off.
LEMMA EntitledRemainder ==
  ASSUME NEW s \in Nat, NEW a \in Nat
  PROVE  /\ Entitled(s, a) \in Nat /\ s * a \in Nat
         /\ SCALE * Entitled(s, a) \in Nat
         /\ s * a - SCALE * Entitled(s, a) \in 0..(SCALE - 1)
<1> DEFINE x == s * a
<1>1. x \in Nat /\ SCALE \in Nat \ {0}
  BY LendingPoolAssumption
<1> HIDE DEF x
<1>2. /\ x \div SCALE \in Nat
      /\ x = SCALE * (x \div SCALE) + (x % SCALE)
      /\ x % SCALE \in 0..(SCALE - 1)
  BY <1>1
<1> DEFINE e == x \div SCALE
<1>3. SCALE * e \in Nat
  BY <1>1, <1>2
<1> HIDE DEF e
<1>4. x - SCALE * e \in 0..(SCALE - 1)
  BY <1>1, <1>2, <1>3 DEF e
<1> QED
  BY <1>1, <1>2, <1>3, <1>4 DEF Entitled, x, e

\* A product of a difference of three numbers.
LEMMA Distribute ==
  ASSUME NEW k \in Nat, NEW x \in Int, NEW y \in Int, NEW z \in Int
  PROVE  k * (x + y - z) = k * x + k * y - k * z
  OBVIOUS

\* The histories can be summed.
LEMMA HistoriesAreSummable ==
  ASSUME AuditTypeOK
  PROVE  /\ Summable(earned) /\ Summable(paid) /\ Summable(anchors)
         /\ DOMAIN earned = Investors /\ DOMAIN paid = Investors
         /\ DOMAIN anchors = Investors
  BY LendingPoolAssumption DEF AuditTypeOK, Summable

\* The invariant holds of an empty pool.
LEMMA AuditInvInit == AuditInit => AuditInv
<1> SUFFICES ASSUME AuditInit PROVE AuditInv
  OBVIOUS
<1>1. PoolInv
  BY PoolInvInit DEF AuditInit
<1>2. AuditTypeOK
  BY DEF AuditInit, AuditTypeOK
<1>3. Total(earned) = 0 /\ Total(paid) = 0
  BY TotalOfNothing DEF AuditInit
<1>4. SCALE \in Nat
  BY LendingPoolAssumption
<1>5. InterestIsFullyDistributed /\ CashMatchesTheBooks
  BY <1>3, <1>4 DEF AuditInit, PoolInit, InterestIsFullyDistributed, CashMatchesTheBooks
<1>6. RoundingIsAnchored
  BY <1>4 DEF AuditInit, PoolInit, NoPosition, RoundingIsAnchored, RoundingGain
<1> QED
  BY <1>1, <1>2, <1>5, <1>6 DEF AuditInv

\* A deposit or a withdrawal rounds once, for the investor who makes it.
LEMMA ChangeSharesAudited ==
  ASSUME AuditInv, NEW i \in Investors, NEW delta \in Int,
         positions[i].shares + delta \in Nat,
         positions' = [positions EXCEPT ![i] = ChangeShares(@, delta)],
         anchors' = [anchors EXCEPT ![i] = @ + 1],
         total_shares' = total_shares + delta,
         total_capital' = total_capital + delta,
         usdc' = usdc + delta,
         UNCHANGED <<total_lent, total_interest, total_written_off, acc, carry,
                     earned, paid, distributed>>,
         PoolInv'
  PROVE  AuditInv'
<1>1. AuditTypeOK'
  BY DEF AuditInv, AuditTypeOK
<1>2. InterestIsFullyDistributed'
  BY DEF AuditInv, InterestIsFullyDistributed
<1>3. CashMatchesTheBooks'
  <2>1. Total(paid) \in Nat
    BY HistoriesAreSummable, UnitsAreFinite DEF AuditInv
  <2> QED
    BY <2>1 DEF AuditInv, PoolInv, PoolTypeOK, AuditTypeOK, CashMatchesTheBooks
<1>4. RoundingIsAnchored'
  <2> SUFFICES ASSUME NEW j \in Investors
               PROVE  /\ RoundingGain(j)' <= anchors'[j] * (SCALE - 1)
                      /\ -(anchors'[j] * (SCALE - 1)) <= RoundingGain(j)'
    BY LendingPoolAssumption DEF RoundingIsAnchored
  <2>1. /\ positions \in [Investors -> Position] /\ acc \in Nat /\ SCALE \in Nat \ {0}
        /\ anchors \in [Investors -> Nat]
        /\ paid[j] \in Nat /\ earned[j] \in Nat
    BY LendingPoolAssumption DEF AuditInv, AuditTypeOK, PoolInv, PoolTypeOK
  <2>2. /\ RoundingGain(j) <= anchors[j] * (SCALE - 1)
        /\ -(anchors[j] * (SCALE - 1)) <= RoundingGain(j)
    BY DEF AuditInv, RoundingIsAnchored
  <2>3. CASE j # i
    <3>1. positions'[j] = positions[j] /\ anchors'[j] = anchors[j]
      BY <2>1, <2>3
    <3>2. RoundingGain(j)' = RoundingGain(j)
      BY <3>1 DEF RoundingGain
    <3> QED
      BY <2>2, <3>1, <3>2
  <2>4. CASE j = i
    <3> DEFINE p == positions[i]
               q == ChangeShares(positions[i], delta)
               e == Entitled(p.shares, acc)
               f == Entitled(q.shares, acc)
               x == paid[i] + p.credited - p.reward_debt
               n == anchors[i]
    <3>1. /\ q \in Position /\ q.shares = p.shares + delta
          /\ q.reward_debt = f
          /\ q.credited = p.credited + (e - p.reward_debt)
      BY ChangeSharesResult, ClaimableIs DEF AuditInv, PoolInv
    <3>2. positions'[i] = q /\ anchors'[i] = n + 1 /\ n \in Nat /\ p \in Position
      BY <2>1
    <3> HIDE DEF p, q, n
    <3>3. /\ e \in Nat /\ p.shares * acc \in Nat /\ SCALE * e \in Nat
          /\ p.shares * acc - SCALE * e \in 0..(SCALE - 1)
      BY <2>1, <3>2, EntitledRemainder DEF Position
    <3>4. /\ f \in Nat /\ q.shares * acc \in Nat /\ SCALE * f \in Nat
          /\ q.shares * acc - SCALE * f \in 0..(SCALE - 1)
      BY <2>1, <3>1, EntitledRemainder DEF Position
    <3>5. x \in Int /\ SCALE * x \in Int
      BY <2>1, <2>4, <3>2 DEF Position
    <3>6. RoundingGain(j) = SCALE * x + p.shares * acc - earned[j]
      BY <2>4 DEF RoundingGain, p
    <3>7. RoundingGain(j)' = SCALE * (x + e - f) + q.shares * acc - earned[j]
      <4> HIDE DEF e, f
      <4>1. /\ p.credited \in Nat /\ p.reward_debt \in Nat /\ e \in Nat /\ f \in Nat
            /\ paid[i] \in Nat
        BY <2>1, <2>4, <3>2, <3>3, <3>4 DEF Position
      <4>2. paid[i] + q.credited - q.reward_debt = x + e - f
        BY <3>1, <4>1
      <4>3. RoundingGain(j)' = SCALE * (paid[i] + q.credited - q.reward_debt)
                                 + q.shares * acc - earned[j]
        BY <2>4, <3>2 DEF RoundingGain
      <4> QED
        BY <4>2, <4>3
    <3> HIDE DEF x, e, f
    <3>8. SCALE * (x + e - f) = SCALE * x + SCALE * e - SCALE * f
      BY <2>1, <3>3, <3>4, <3>5, Distribute
    <3>9. /\ RoundingGain(j)' - RoundingGain(j) <= SCALE - 1
          /\ -(SCALE - 1) <= RoundingGain(j)' - RoundingGain(j)
          /\ RoundingGain(j) \in Int /\ RoundingGain(j)' \in Int
      BY <2>1, <3>3, <3>4, <3>5, <3>6, <3>7, <3>8
    <3>10. (n + 1) * (SCALE - 1) = n * (SCALE - 1) + (SCALE - 1) /\ n * (SCALE - 1) \in Int
      <4>1. n \in Nat /\ SCALE - 1 \in Nat
        BY <2>1, <3>2
      <4> QED
        BY <4>1
    <3>11. anchors[j] = n /\ anchors'[j] = n + 1
      BY <2>4, <3>2 DEF n
    <3> QED
      BY <2>1, <2>2, <3>9, <3>10, <3>11
  <2> QED
    BY <2>3, <2>4
<1> QED
  BY <1>1, <1>2, <1>3, <1>4 DEF AuditInv

\* What a payment adds to an exact account: each investor's shares earn their
\* part of what accrue_interest put into the accumulator.
LEMMA EarningsOfAPayment ==
  ASSUME AuditInv, acc' \in Nat, acc <= acc',
         earned' = [i \in Investors |-> earned[i] + positions[i].shares * (acc' - acc)]
  PROVE  /\ earned' \in [Investors -> Nat]
         /\ Total(earned)' = Total(earned) + (acc' - acc) * total_shares
<1> DEFINE rise == acc' - acc
           gain == [i \in Investors |-> rise * Shares[i]]
<1>1. rise \in Nat
  <2>1. acc \in Nat
    BY DEF AuditInv, PoolInv, PoolTypeOK
  <2>2. \A a, b \in Nat : a <= b => b - a \in Nat
    OBVIOUS
  <2> QED
    BY <2>1, <2>2, Zenon
<1>2. Summable(Shares) /\ DOMAIN Shares = Investors /\ total_shares = Total(Shares)
  BY SharesAreSummable DEF AuditInv, PoolInv, PoolTypeOK, SharesAddUp, Shares
<1>3. \A i \in Investors : Shares[i] \in Nat /\ Shares[i] = positions[i].shares
  BY <1>2 DEF Summable, Shares
<1>4. Summable(earned) /\ DOMAIN earned = Investors
  BY HistoriesAreSummable DEF AuditInv
<1>5. \A i \in Investors : gain[i] \in Nat
  BY <1>1, <1>3
<1>6. Summable(gain) /\ DOMAIN gain = Investors
  BY <1>5, LendingPoolAssumption DEF Summable
<1>7. Total(gain) = rise * Total(Shares)
  <2> HIDE DEF rise
  <2>1. \A i \in DOMAIN Shares : gain[i] = rise * Shares[i]
    BY <1>2
  <2> HIDE DEF gain
  <2> QED
    BY <1>1, <1>2, <1>6, <2>1, TotalOfMultiples
<1> HIDE DEF rise
<1>8. earned' = [i \in Investors |-> earned[i] + gain[i]]
  BY <1>1, <1>3 DEF rise
<1>9. \A i \in Investors : earned[i] \in Nat
  BY <1>4 DEF Summable
<1> HIDE DEF gain
<1>10. earned' \in [Investors -> Nat]
  BY <1>5, <1>8, <1>9
<1> DEFINE after == earned'
<1>11. Summable(after) /\ DOMAIN after = Investors
  BY <1>10, LendingPoolAssumption DEF Summable
<1>12. \A i \in DOMAIN earned : after[i] = earned[i] + gain[i]
  BY <1>4, <1>8
<1>13. Total(earned)' = Total(after)
  BY DEF Total, Units
<1> HIDE DEF after
<1>14. Total(after) = Total(earned) + Total(gain)
  BY <1>4, <1>6, <1>11, <1>12, TotalOfSums
<1> QED
  BY <1>2, <1>7, <1>10, <1>13, <1>14 DEF rise

\* A payment adds its interest to the accounts: what its division leaves over is
\* in the carry, and nothing is rounded for anybody.
LEMMA RepayAudited ==
  ASSUME AuditInv, AuditedRepay, PoolInv'
  PROVE  AuditInv'
<1>1. PICK principal \in Amounts \cup {0}, interest \in Amounts \cup {0} :
        /\ Repay(principal, interest)
        /\ UNCHANGED <<positions, total_reserved, total_written_off, total_shares>>
  BY DEF AuditedRepay, RepayTx
<1>2. /\ principal \in Nat /\ interest \in Nat /\ SCALE \in Nat \ {0}
      /\ total_shares \in Nat /\ acc \in Nat /\ carry \in Nat /\ distributed \in Nat
      /\ total_interest \in Nat
  BY <1>1, LendingPoolAssumption DEF Repay, AuditInv, AuditTypeOK, PoolInv, PoolTypeOK
<1>3. acc' \in Nat /\ acc <= acc' /\ carry' \in Nat
  BY <1>1, <1>2, AccrueMonotone DEF Repay, AuditInv, PoolInv
<1>4. /\ earned' \in [Investors -> Nat]
      /\ Total(earned)' = Total(earned) + (acc' - acc) * total_shares
  BY <1>3, EarningsOfAPayment DEF AuditedRepay
<1>5. distributed' = distributed + IF total_shares > 0 THEN interest ELSE 0
  BY <1>1, <1>2 DEF AuditedRepay, Repay
<1>6. AuditTypeOK'
  BY <1>2, <1>4, <1>5 DEF AuditedRepay, AuditInv, AuditTypeOK
<1>7. Total(earned) \in Nat /\ Total(paid) \in Nat
  BY HistoriesAreSummable, UnitsAreFinite DEF AuditInv
<1>8. InterestIsFullyDistributed'
  <2>1. Total(earned) + carry = SCALE * distributed
    BY DEF AuditInv, InterestIsFullyDistributed
  <2>2. CASE interest > 0 /\ total_shares > 0
    <3> DEFINE scaled == interest * SCALE + carry
               share == scaled \div total_shares
               rest == scaled % total_shares
    <3>1. acc' = acc + share /\ carry' = rest
      BY <1>1, <2>2 DEF Repay, AccrueInterest
    <3>2. scaled \in Nat /\ interest * SCALE \in Nat
      BY <1>2
    <3>3. share \in Nat /\ rest \in Nat /\ scaled = total_shares * share + rest
      <4> HIDE DEF scaled
      <4> QED
        BY <1>2, <2>2, <3>2
    <3> HIDE DEF share, rest
    <3>4. (acc' - acc) * total_shares = total_shares * share /\ total_shares * share \in Nat
      <4>1. acc' - acc = share
        BY <1>2, <3>1, <3>3
      <4> QED
        BY <1>2, <3>3, <4>1
    <3>5. SCALE * distributed' = SCALE * distributed + interest * SCALE
          /\ SCALE * distributed \in Nat
      BY <1>2, <1>5, <2>2
    <3>6. Total(earned)' + carry' = SCALE * distributed'
      BY <1>2, <1>4, <1>7, <2>1, <3>1, <3>2, <3>3, <3>4, <3>5
    <3> QED
      BY <3>6 DEF InterestIsFullyDistributed
  <2>3. CASE ~(interest > 0 /\ total_shares > 0)
    <3>1. acc' = acc /\ carry' = carry
      BY <1>1, <2>3 DEF Repay, AccrueInterest
    <3>2. distributed' = distributed
      BY <1>2, <1>5, <2>3
    <3>3. Total(earned)' = Total(earned)
      BY <1>2, <1>4, <1>7, <3>1
    <3> QED
      BY <2>1, <3>1, <3>2, <3>3 DEF InterestIsFullyDistributed
  <2> QED
    BY <2>2, <2>3
<1>9. CashMatchesTheBooks'
  <2>1. Total(paid)' = Total(paid)
    BY DEF AuditedRepay
  <2>2. /\ usdc' = usdc + (principal + interest)
        /\ total_capital' = total_capital + principal + BankedAsCapital(interest)
        /\ total_lent' = total_lent - principal
        /\ total_interest' = total_interest + interest
        /\ total_written_off' = total_written_off /\ total_shares' = total_shares
    BY <1>1 DEF Repay
  <2>3. BankedAsCapital(interest) = IF total_shares > 0 THEN 0 ELSE interest
    BY DEF BankedAsCapital
  <2> QED
    BY <1>2, <1>5, <1>7, <2>1, <2>2, <2>3
    DEF AuditInv, PoolInv, PoolTypeOK, CashMatchesTheBooks
<1>10. RoundingIsAnchored'
  <2> SUFFICES ASSUME NEW i \in Investors
               PROVE  /\ RoundingGain(i)' <= anchors'[i] * (SCALE - 1)
                      /\ -(anchors'[i] * (SCALE - 1)) <= RoundingGain(i)'
    BY DEF RoundingIsAnchored
  <2>1. /\ positions' = positions /\ anchors' = anchors /\ paid' = paid
        /\ earned'[i] = earned[i] + positions[i].shares * (acc' - acc)
    BY <1>1 DEF AuditedRepay
  <2>2. positions[i] \in Position /\ paid[i] \in Nat /\ earned[i] \in Nat
    BY DEF AuditInv, AuditTypeOK, PoolInv, PoolTypeOK
  <2> DEFINE s == positions[i].shares
             x == SCALE * (paid[i] + positions[i].credited - positions[i].reward_debt)
  <2>3. s \in Nat /\ x \in Int
    BY <1>2, <2>2 DEF Position
  <2>4. s * (acc' - acc) = s * acc' - s * acc /\ s * acc \in Nat /\ s * acc' \in Nat
    BY <1>2, <1>3, <2>3
  <2>5. RoundingGain(i) = x + s * acc - earned[i]
    BY DEF RoundingGain
  <2>6. RoundingGain(i)' = x + s * acc' - earned'[i]
    BY <2>1 DEF RoundingGain
  <2> HIDE DEF s, x
  <2>7. RoundingGain(i)' = RoundingGain(i)
    BY <2>1, <2>2, <2>3, <2>4, <2>5, <2>6 DEF s
  <2> QED
    BY <2>1, <2>7 DEF AuditInv, RoundingIsAnchored
<1> QED
  BY <1>6, <1>8, <1>9, <1>10 DEF AuditInv

\* A claim moves what was credited to what was paid.
LEMMA ClaimAudited ==
  ASSUME AuditInv, AuditedClaim, PoolInv'
  PROVE  AuditInv'
<1>1. PICK i \in Investors :
        /\ ClaimInterest(i)
        /\ paid' = [paid EXCEPT ![i] = @ + ClaimableInterest(i)]
        /\ UNCHANGED <<earned, anchors, distributed>>
  BY DEF AuditedClaim
<1> DEFINE p == positions[i]
           e == Entitled(p.shares, acc)
           owed == ClaimableInterest(i)
<1>2. /\ positions \in [Investors -> Position] /\ p \in Position /\ acc \in Nat
      /\ SCALE \in Nat \ {0} /\ usdc \in Nat
      /\ paid \in [Investors -> Nat]
  BY LendingPoolAssumption DEF AuditInv, AuditTypeOK, PoolInv, PoolTypeOK
<1>3. e \in Nat /\ p.shares \in Nat /\ p.credited \in Nat /\ p.reward_debt \in Nat
  <2>1. p.shares \in Nat /\ p.credited \in Nat /\ p.reward_debt \in Nat
    BY <1>2 DEF Position
  <2> QED
    BY <1>2, <2>1, EntitledNat
<1>4. owed = p.credited + (e - p.reward_debt) /\ owed \in Int /\ owed > 0 /\ usdc' = usdc - owed
  BY <1>1, ClaimableIs DEF AuditInv, PoolInv, ClaimInterest, ClaimableInterest
<1>5. positions'[i] = [shares |-> p.shares, reward_debt |-> e, credited |-> 0]
  <2>1. positions'[i] = [Settle(p, acc) EXCEPT !.credited = 0]
    BY <1>1, <1>2 DEF ClaimInterest
  <2> DEFINE v == p.credited + (e - p.reward_debt)
  <2>2. Settle(p, acc) = [shares |-> p.shares, reward_debt |-> e, credited |-> v]
    BY <1>2, SettleResult
  <2> HIDE DEF e, p, v
  <2> QED
    BY <2>1, <2>2
<1> HIDE DEF owed, e
<1>6. AuditTypeOK'
  <2>1. paid' \in [Investors -> Nat]
    BY <1>1, <1>2, <1>4 DEF owed
  <2> QED
    BY <1>1, <2>1 DEF AuditInv, AuditTypeOK
<1>7. InterestIsFullyDistributed'
  BY <1>1 DEF ClaimInterest, AuditInv, InterestIsFullyDistributed
<1>8. Total(paid)' = Total(paid) + owed /\ Total(paid) \in Nat
  <2> DEFINE after == paid'
  <2>1. Summable(paid) /\ DOMAIN paid = Investors
    BY HistoriesAreSummable DEF AuditInv
  <2>2. Summable(after) /\ DOMAIN after = Investors
    BY <1>6, LendingPoolAssumption DEF AuditTypeOK, Summable
  <2>3. /\ \A j \in DOMAIN paid \ {i} : after[j] = paid[j]
        /\ after[i] = paid[i] + owed
    BY <1>1, <1>2, <1>4 DEF owed
  <2>4. Total(paid)' = Total(after)
    BY DEF Total, Units
  <2> HIDE DEF after
  <2>5. /\ Total(after) = Total(paid) - At(paid, i) + At(after, i)
        /\ Total(paid) \in Nat
    BY <2>1, <2>2, <2>3, TotalOfOne
  <2>6. At(paid, i) = paid[i] /\ At(after, i) = paid[i] + owed /\ paid[i] \in Nat
    BY <1>2, <2>1, <2>2, <2>3 DEF At
  <2> QED
    BY <1>4, <2>4, <2>5, <2>6
<1>9. CashMatchesTheBooks'
  BY <1>1, <1>2, <1>4, <1>8
  DEF ClaimInterest, AuditInv, AuditTypeOK, PoolInv, PoolTypeOK, CashMatchesTheBooks
<1>10. RoundingIsAnchored'
  <2> SUFFICES ASSUME NEW j \in Investors PROVE RoundingGain(j)' = RoundingGain(j)
    BY <1>1 DEF AuditInv, RoundingIsAnchored
  <2>1. acc' = acc /\ earned' = earned
    BY <1>1 DEF ClaimInterest
  <2>2. CASE j # i
    <3>1. positions'[j] = positions[j] /\ paid'[j] = paid[j]
      BY <1>1, <1>2, <2>2 DEF ClaimInterest
    <3> QED
      BY <2>1, <3>1 DEF RoundingGain
  <2>3. CASE j = i
    <3>1. paid'[i] = paid[i] + owed /\ paid[i] \in Nat
      BY <1>1, <1>2 DEF owed
    <3>2. /\ positions'[i].shares = p.shares /\ positions'[i].reward_debt = e
          /\ positions'[i].credited = 0
      BY <1>5
    <3> HIDE DEF p
    <3>3. paid'[i] + 0 - e = paid[i] + p.credited - p.reward_debt
      BY <1>3, <1>4, <3>1
    <3>4. RoundingGain(j)' = SCALE * (paid'[i] + 0 - e) + p.shares * acc - earned[i]
      BY <2>1, <2>3, <3>2 DEF RoundingGain
    <3>5. RoundingGain(j) = SCALE * (paid[i] + p.credited - p.reward_debt)
                              + p.shares * acc - earned[i]
      BY <2>3 DEF RoundingGain, p
    <3> QED
      BY <3>3, <3>4, <3>5
  <2> QED
    BY <2>2, <2>3
<1> QED
  BY <1>6, <1>7, <1>9, <1>10 DEF AuditInv

\* A step that moves principal only: no position, no accumulator, no history.
LEMMA LendingAudited ==
  ASSUME AuditInv, PoolInv',
         UNCHANGED <<positions, total_interest, total_shares, acc, carry, historyVars>>,
         usdc' - usdc = total_capital' - total_capital,
         total_capital' + total_lent' + total_written_off'
           = total_capital + total_lent + total_written_off
  PROVE  AuditInv'
<1>1. AuditTypeOK' /\ InterestIsFullyDistributed'
  BY DEF AuditInv, AuditTypeOK, InterestIsFullyDistributed, historyVars
<1>2. CashMatchesTheBooks'
  <2>1. Total(paid) \in Nat /\ Total(paid)' = Total(paid) /\ distributed' = distributed
    BY HistoriesAreSummable, UnitsAreFinite DEF AuditInv, historyVars
  <2>2. /\ distributed \in Nat /\ total_shares \in Nat /\ total_interest \in Nat
        /\ usdc \in Nat /\ total_capital \in Nat /\ total_lent \in Nat
        /\ total_written_off \in Nat
    BY DEF AuditInv, AuditTypeOK, PoolInv, PoolTypeOK
  <2>3. /\ usdc' \in Nat /\ total_capital' \in Nat /\ total_lent' \in Nat
        /\ total_written_off' \in Nat
    BY DEF PoolInv, PoolTypeOK
  <2>4. total_interest' = total_interest /\ total_shares' = total_shares
    OBVIOUS
  <2>5. /\ usdc + Total(paid) = total_capital + distributed
        /\ total_capital + total_lent + total_written_off
             = total_shares + (total_interest - distributed)
    BY DEF AuditInv, CashMatchesTheBooks
  <2>6. usdc' + Total(paid) = total_capital' + distributed
    BY <2>1, <2>2, <2>3, <2>5
  <2> QED
    BY <2>1, <2>4, <2>5, <2>6 DEF CashMatchesTheBooks
<1>3. RoundingIsAnchored'
  BY DEF AuditInv, RoundingIsAnchored, RoundingGain, historyVars
<1> QED
  BY <1>1, <1>2, <1>3 DEF AuditInv

\* Every audited step keeps the invariant.
LEMMA AuditInvNext == AuditInv /\ [AuditNext]_auditVars /\ PoolInv' => AuditInv'
<1> SUFFICES ASSUME AuditInv, [AuditNext]_auditVars, PoolInv' PROVE AuditInv'
  OBVIOUS
<1> USE LendingPoolAssumption
<1>1. CASE AuditedDeposit
  <2>1. PICK i \in Investors, amount \in Amounts :
          /\ Deposit(i, amount)
          /\ anchors' = [anchors EXCEPT ![i] = @ + 1]
          /\ UNCHANGED <<earned, paid, distributed>>
    BY <1>1 DEF AuditedDeposit
  <2>2. amount \in Int /\ positions[i].shares + amount \in Nat
    BY <2>1 DEF Deposit, AuditInv, PoolInv, PoolTypeOK, Position
  <2> QED
    BY <2>1, <2>2, ChangeSharesAudited DEF Deposit
<1>2. CASE AuditedWithdraw
  <2>1. PICK i \in Investors, amount \in Amounts :
          /\ Withdraw(i, amount)
          /\ anchors' = [anchors EXCEPT ![i] = @ + 1]
          /\ UNCHANGED <<earned, paid, distributed>>
    BY <1>2 DEF AuditedWithdraw
  <2>2. /\ -amount \in Int
        /\ positions[i].shares + (-amount) \in Nat
        /\ total_shares' = total_shares + (-amount)
        /\ total_capital' = total_capital + (-amount)
        /\ usdc' = usdc + (-amount)
    BY <2>1 DEF Withdraw, AuditInv, PoolInv, PoolTypeOK, Position
  <2> QED
    BY <2>1, <2>2, ChangeSharesAudited DEF Withdraw
<1>3. CASE AuditedClaim
  BY <1>3, ClaimAudited
<1>4. CASE AuditedRepay
  BY <1>4, RepayAudited
<1>5. CASE AuditedLending
  <2> USE DEF AuditInv, PoolInv, PoolTypeOK
  <2>1. CASE ReserveTx
    BY <1>5, <2>1, LendingAudited DEF AuditedLending, ReserveTx
  <2>2. CASE UnreserveTx
    BY <1>5, <2>2, LendingAudited DEF AuditedLending, UnreserveTx
  <2>3. CASE DisburseTx
    BY <1>5, <2>3, LendingAudited DEF AuditedLending, DisburseTx, Disburse
  <2>4. CASE WriteOffTx
    BY <1>5, <2>4, LendingAudited DEF AuditedLending, WriteOffTx, WriteOff
  <2> QED
    BY <1>5, <2>1, <2>2, <2>3, <2>4 DEF AuditedLending
<1>6. CASE UNCHANGED auditVars
  BY <1>6, LendingAudited DEF auditVars, poolVars, AuditInv, PoolInv, PoolTypeOK
<1> QED
  BY <1>1, <1>2, <1>3, <1>4, <1>5, <1>6 DEF AuditNext

\* The invariant behind the theorems about the audit.
THEOREM AuditInvariant == AuditSpec => []AuditInv
  BY AuditInvInit, AuditInvNext, AuditIsOfThePool, PoolInvariant, PTL DEF AuditSpec

\* Nothing of a payment's interest disappears (accrue_interest and its carry),
\* for any number of investors who come, go and claim in any order.
THEOREM InterestAccounted == AuditSpec => []InterestIsFullyDistributed
  BY AuditInvariant, PTL DEF AuditInv

\* The pool's tokens are its capital and the interest it has yet to pay out.
THEOREM CashAccounted == AuditSpec => []CashMatchesTheBooks
  BY AuditInvariant, PTL DEF AuditInv

\* What investor i was paid and may claim, against what the shares earned: the
\* anchored rounding, less what the last division cuts off.
LEMMA DriftIs ==
  ASSUME AuditInv, NEW i \in Investors
  PROVE  /\ ClaimableInterest(i) \in Nat /\ paid[i] \in Nat /\ earned[i] \in Nat
         /\ anchors[i] \in Nat
         /\ RoundingGain(i) \in Int
         /\ RoundingGain(i) - (SCALE * (paid[i] + ClaimableInterest(i)) - earned[i])
              \in 0..(SCALE - 1)
<1> DEFINE p == positions[i]
           e == Entitled(p.shares, acc)
           x == paid[i] + p.credited - p.reward_debt
<1>1. /\ p \in Position /\ acc \in Nat /\ SCALE \in Nat \ {0}
      /\ paid[i] \in Nat /\ earned[i] \in Nat /\ anchors[i] \in Nat
  BY LendingPoolAssumption DEF AuditInv, AuditTypeOK, PoolInv, PoolTypeOK
<1>2. p.shares \in Nat /\ p.credited \in Nat /\ p.reward_debt \in Nat
  BY <1>1 DEF Position
<1>3. /\ e \in Nat /\ p.shares * acc \in Nat /\ SCALE * e \in Nat
      /\ p.shares * acc - SCALE * e \in 0..(SCALE - 1)
  BY <1>1, <1>2, EntitledRemainder
<1>4. ClaimableInterest(i) = p.credited + (e - p.reward_debt) /\ p.reward_debt <= e
  BY ClaimableIs DEF AuditInv, PoolInv, SettleNeverDebits
<1>5. RoundingGain(i) = SCALE * x + p.shares * acc - earned[i]
  BY DEF RoundingGain
<1> HIDE DEF p, e
<1>6. ClaimableInterest(i) \in Nat /\ paid[i] + ClaimableInterest(i) = x + e - 0
  BY <1>1, <1>2, <1>3, <1>4
<1>7. x \in Int /\ SCALE * x \in Int
  BY <1>1, <1>2
<1> HIDE DEF x
<1>8. SCALE * (x + e - 0) = SCALE * x + SCALE * e
  BY <1>1, <1>3, <1>7
<1> QED
  BY <1>1, <1>3, <1>5, <1>6, <1>7, <1>8

\* Rounding errs by less than one unit per change of an investor's shares, and
\* one, for whatever scale, payments and claims (settle and reset_debt).
THEOREM RoundingBounded == AuditSpec => []RoundingDriftIsBounded
<1>1. AuditInv => RoundingDriftIsBounded
  <2> SUFFICES ASSUME AuditInv, NEW i \in Investors
               PROVE  LET drift == SCALE * (paid[i] + ClaimableInterest(i)) - earned[i]
                          bound == (anchors[i] + 1) * (SCALE - 1)
                      IN  -bound <= drift /\ drift <= bound
    BY DEF RoundingDriftIsBounded
  <2> DEFINE drift == SCALE * (paid[i] + ClaimableInterest(i)) - earned[i]
             n == anchors[i] * (SCALE - 1)
  <2>1. /\ paid[i] \in Nat /\ ClaimableInterest(i) \in Nat /\ earned[i] \in Nat
        /\ anchors[i] \in Nat /\ RoundingGain(i) \in Int
        /\ RoundingGain(i) - drift \in 0..(SCALE - 1)
    BY DriftIs
  <2>2. SCALE \in Nat \ {0}
    BY LendingPoolAssumption
  <2>3. drift \in Int /\ n \in Nat /\ (anchors[i] + 1) * (SCALE - 1) = n + (SCALE - 1)
    BY <2>1, <2>2
  <2>4. RoundingGain(i) <= n /\ -n <= RoundingGain(i)
    BY DEF AuditInv, RoundingIsAnchored
  <2> HIDE DEF drift, n
  <2>5. drift <= n + (SCALE - 1) /\ -(n + (SCALE - 1)) <= drift
    BY <2>1, <2>2, <2>3, <2>4
  <2> QED
    BY <2>3, <2>5 DEF drift
<1> QED
  BY <1>1, AuditInvariant, PTL

\* The pool is never short by more than one unit per change of shares: the
\* investors' roundings add up to no more, and nothing else is missing.
THEOREM ShortfallBounded == AuditSpec => []ShortfallIsBounded
<1>1. AuditInv => ShortfallIsBounded
  <2> SUFFICES ASSUME AuditInv PROVE ShortfallIsBounded
    OBVIOUS
  <2> DEFINE claimable == [i \in Investors |-> ClaimableInterest(i)]
             due == [i \in Investors |-> paid[i] + claimable[i]]
             owed == [i \in Investors |-> SCALE * due[i]]
             slack == [i \in Investors |-> SCALE * anchors[i]]
             cover == [i \in Investors |-> earned[i] + slack[i]]
  <2>1. SCALE \in Nat \ {0} /\ IsFiniteSet(Investors)
    BY LendingPoolAssumption
  <2>2. \A i \in Investors :
          /\ claimable[i] \in Nat /\ due[i] \in Nat /\ owed[i] \in Nat
          /\ slack[i] \in Nat /\ cover[i] \in Nat
          /\ owed[i] <= cover[i]
    <3> SUFFICES ASSUME NEW i \in Investors
                 PROVE  /\ claimable[i] \in Nat /\ due[i] \in Nat /\ owed[i] \in Nat
                        /\ slack[i] \in Nat /\ cover[i] \in Nat
                        /\ owed[i] <= cover[i]
      OBVIOUS
    <3>1. /\ paid[i] \in Nat /\ ClaimableInterest(i) \in Nat /\ earned[i] \in Nat
          /\ anchors[i] \in Nat /\ RoundingGain(i) \in Int
          /\ RoundingGain(i) - (SCALE * (paid[i] + ClaimableInterest(i)) - earned[i])
               \in 0..(SCALE - 1)
      BY DriftIs
    <3>2. RoundingGain(i) <= anchors[i] * (SCALE - 1)
      BY DEF AuditInv, RoundingIsAnchored
    <3>3. /\ anchors[i] * (SCALE - 1) = SCALE * anchors[i] - anchors[i]
          /\ SCALE * anchors[i] \in Nat
          /\ SCALE * (paid[i] + ClaimableInterest(i)) \in Nat
      BY <2>1, <3>1
    <3>4. SCALE * (paid[i] + ClaimableInterest(i)) <= earned[i] + SCALE * anchors[i]
      BY <2>1, <3>1, <3>2, <3>3
    <3> QED
      BY <3>1, <3>3, <3>4
  <2>3. /\ Summable(earned) /\ Summable(paid) /\ Summable(anchors)
        /\ DOMAIN earned = Investors /\ DOMAIN paid = Investors
        /\ DOMAIN anchors = Investors
    BY HistoriesAreSummable DEF AuditInv
  <2>4. /\ Summable(claimable) /\ Summable(due) /\ Summable(owed)
        /\ Summable(slack) /\ Summable(cover)
        /\ DOMAIN claimable = Investors /\ DOMAIN due = Investors
        /\ DOMAIN owed = Investors /\ DOMAIN slack = Investors
        /\ DOMAIN cover = Investors
    BY <2>1, <2>2 DEF Summable
  <2>5. /\ \A i \in Investors : due[i] = paid[i] + claimable[i]
        /\ \A i \in Investors : owed[i] = SCALE * due[i]
        /\ \A i \in Investors : slack[i] = SCALE * anchors[i]
        /\ \A i \in Investors : cover[i] = earned[i] + slack[i]
    OBVIOUS
  <2>6. TotalClaimable = Total(claimable)
    BY DEF TotalClaimable
  <2> HIDE DEF claimable, due, owed, slack, cover
  <2>7. Total(due) = Total(paid) + Total(claimable)
    BY <2>3, <2>4, <2>5, TotalOfSums
  <2>8. Total(owed) = SCALE * Total(due)
    BY <2>1, <2>4, <2>5, TotalOfMultiples
  <2>9. Total(slack) = SCALE * Total(anchors)
    BY <2>1, <2>3, <2>4, <2>5, TotalOfMultiples
  <2>10. Total(cover) = Total(earned) + Total(slack)
    BY <2>3, <2>4, <2>5, TotalOfSums
  <2>11. Total(owed) <= Total(cover)
    BY <2>2, <2>4, TotalMonotone
  <2>12. /\ Total(due) \in Nat /\ Total(paid) \in Nat /\ Total(claimable) \in Nat
         /\ Total(anchors) \in Nat /\ Total(earned) \in Nat
    BY <2>3, <2>4, UnitsAreFinite
  <2>13. /\ Total(earned) + carry = SCALE * distributed
         /\ usdc + Total(paid) = total_capital + distributed
         /\ carry \in Nat /\ distributed \in Nat /\ usdc \in Nat /\ total_capital \in Nat
    BY DEF AuditInv, AuditTypeOK, PoolInv, PoolTypeOK, InterestIsFullyDistributed,
           CashMatchesTheBooks
  <2>14. SCALE * Total(due) <= SCALE * (distributed + Total(anchors))
    <3>1. SCALE * (distributed + Total(anchors)) = SCALE * distributed + SCALE * Total(anchors)
      BY <2>1, <2>12, <2>13
    <3>2. SCALE * distributed \in Nat /\ SCALE * Total(anchors) \in Nat /\ SCALE * Total(due) \in Nat
      BY <2>1, <2>12, <2>13
    <3> QED
      BY <2>8, <2>9, <2>10, <2>11, <2>12, <2>13, <3>1, <3>2
  <2>15. Total(due) <= distributed + Total(anchors)
    <3> DEFINE a == Total(due)
               b == distributed + Total(anchors)
    <3>1. a \in Nat /\ b \in Nat /\ SCALE * a <= SCALE * b
      BY <2>12, <2>13, <2>14
    <3> HIDE DEF a, b
    <3>2. CASE a > b
      <4>1. SCALE * a >= SCALE * (b + 1) /\ SCALE * (b + 1) = SCALE * b + SCALE
            /\ SCALE * b \in Nat
        BY <2>1, <3>1, <3>2
      <4> QED
        BY <2>1, <3>1, <4>1
    <3> QED
      BY <3>1, <3>2 DEF a, b
  <2> QED
    BY <2>6, <2>7, <2>12, <2>13, <2>15 DEF ShortfallIsBounded
<1> QED
  BY <1>1, AuditInvariant, PTL
-----------------------------------------------------------------------------
(* What rounding costs, step by step.                                      *)
(*                                                                         *)
(* The audit needs histories; a caller that makes several calls in one     *)
(* step has none.  What it can follow is the surplus: what the positions   *)
(* could draw if nothing were ever cut off, less the tokens there are for  *)
(* it.                                                                     *)

\* What investor i's position stands for, exactly and in units of 1/SCALE.
PotentialOf(i) ==
  SCALE * (positions[i].credited - positions[i].reward_debt) + positions[i].shares * acc

Potential == [i \in Investors |-> PotentialOf(i)]

\* What the positions and the remainder carried stand for, beyond the tokens
\* that are not capital: what rounding has given the investors so far.
Surplus == Total(Potential) + carry - SCALE * (usdc - total_capital)

\* A claim is within the potential of its position.
LEMMA PotentialCoversClaim ==
  ASSUME PoolInv, NEW i \in Investors
  PROVE  /\ PotentialOf(i) \in Nat /\ ClaimableInterest(i) \in Nat
         /\ SCALE * ClaimableInterest(i) \in Nat
         /\ SCALE * ClaimableInterest(i) <= PotentialOf(i)
<1> DEFINE p == positions[i]
           e == Entitled(p.shares, acc)
           x == p.credited - p.reward_debt
<1>1. p \in Position /\ acc \in Nat /\ SCALE \in Nat \ {0}
  BY LendingPoolAssumption DEF PoolInv, PoolTypeOK
<1>2. p.shares \in Nat /\ p.credited \in Nat /\ p.reward_debt \in Nat
  BY <1>1 DEF Position
<1>3. /\ e \in Nat /\ p.shares * acc \in Nat /\ SCALE * e \in Nat
      /\ p.shares * acc - SCALE * e \in 0..(SCALE - 1)
  BY <1>1, <1>2, EntitledRemainder
<1>4. ClaimableInterest(i) = p.credited + (e - p.reward_debt) /\ p.reward_debt <= e
  BY ClaimableIs DEF PoolInv, SettleNeverDebits
<1>5. PotentialOf(i) = SCALE * x + p.shares * acc
  BY DEF PotentialOf
<1> HIDE DEF p, e
<1>6. x \in Int /\ ClaimableInterest(i) \in Nat /\ ClaimableInterest(i) = x + e - 0
  BY <1>2, <1>3, <1>4
<1> HIDE DEF x
<1>7. SCALE * ClaimableInterest(i) = SCALE * x + SCALE * e - SCALE * 0
  BY <1>1, <1>3, <1>6, Distribute
<1>8. SCALE * ClaimableInterest(i) \in Nat /\ SCALE * x \in Int
  BY <1>1, <1>6
<1> QED
  BY <1>1, <1>3, <1>5, <1>6, <1>7, <1>8

\* The potentials can be summed.
LEMMA PotentialIsSummable ==
  ASSUME PoolInv
  PROVE  /\ Summable(Potential) /\ DOMAIN Potential = Investors
         /\ \A i \in Investors : Potential[i] = PotentialOf(i)
         /\ Total(Potential) \in Nat
<1>1. \A i \in Investors : PotentialOf(i) \in Nat
  BY PotentialCoversClaim
<1>2. /\ Summable(Potential) /\ DOMAIN Potential = Investors
      /\ \A i \in Investors : Potential[i] = PotentialOf(i)
  BY <1>1, LendingPoolAssumption DEF Potential, Summable
<1> QED
  BY <1>2, UnitsAreFinite

\* One investor's position changes: so does its part of the sum.
LEMMA PotentialOfOneInvestor ==
  ASSUME PoolInv, PoolInv', NEW i \in Investors, acc' = acc,
         \A j \in Investors \ {i} : positions'[j] = positions[j]
  PROVE  Total(Potential)' = Total(Potential) - PotentialOf(i) + PotentialOf(i)'
<1> DEFINE f == Potential
           g == Potential'
<1>1. /\ Summable(f) /\ DOMAIN f = Investors
      /\ \A j \in Investors : f[j] = PotentialOf(j)
  BY PotentialIsSummable
<1>2. \A j \in Investors : PotentialOf(j)' \in Nat
  <2> SUFFICES ASSUME NEW j \in Investors PROVE PotentialOf(j)' \in Nat
    OBVIOUS
  <2>1. positions'[j] \in Position /\ acc' \in Nat /\ SCALE \in Nat \ {0}
    BY LendingPoolAssumption DEF PoolInv, PoolTypeOK
  <2> DEFINE q == positions'[j]
             e == Entitled(q.shares, acc')
             x == SCALE * (q.credited - q.reward_debt)
  <2>2. q.shares \in Nat /\ q.credited \in Nat /\ q.reward_debt \in Nat
    BY <2>1 DEF Position
  <2>3. /\ e \in Nat /\ q.shares * acc' \in Nat /\ SCALE * e \in Nat
        /\ q.shares * acc' - SCALE * e \in 0..(SCALE - 1)
    BY <2>1, <2>2, EntitledRemainder
  <2>4. q.reward_debt <= e
    BY DEF PoolInv, SettleNeverDebits, Entitled
  <2>5. PotentialOf(j)' = x + q.shares * acc'
    BY DEF PotentialOf
  <2> HIDE DEF e, q
  <2>6. x = SCALE * (q.credited - q.reward_debt) /\ q.credited - q.reward_debt + e \in Nat
    BY <2>2, <2>3, <2>4
  <2> DEFINE y == q.credited - q.reward_debt
  <2>7. y \in Int
    BY <2>2
  <2> HIDE DEF y, x
  <2>8. x \in Int /\ SCALE * (y + e) = x + SCALE * e /\ SCALE * (y + e) \in Nat
    BY <2>1, <2>3, <2>6, <2>7 DEF y
  <2> QED
    BY <2>1, <2>3, <2>5, <2>8
<1>3. /\ Summable(g) /\ DOMAIN g = Investors
      /\ \A j \in Investors : g[j] = PotentialOf(j)'
  BY <1>2, LendingPoolAssumption DEF Potential, Summable
<1>4. \A j \in Investors \ {i} : PotentialOf(j)' = PotentialOf(j)
  BY DEF PotentialOf
<1>5. Total(Potential)' = Total(g)
  BY DEF Total, Units
<1> HIDE DEF f, g
<1>6. Total(g) = Total(f) - At(f, i) + At(g, i)
  BY <1>1, <1>3, <1>4, TotalOfOne
<1>7. At(f, i) = PotentialOf(i) /\ At(g, i) = PotentialOf(i)'
  BY <1>1, <1>3 DEF At
<1> QED
  BY <1>5, <1>6, <1>7 DEF f

\* A deposit or a withdrawal rounds by less than one unit, either way.
LEMMA ShareChangeRounds ==
  ASSUME PoolInv, PoolInv', NEW i \in Investors, NEW delta \in Int,
         positions[i].shares + delta \in Nat,
         positions' = [positions EXCEPT ![i] = ChangeShares(@, delta)],
         total_capital' = total_capital + delta,
         usdc' = usdc + delta,
         UNCHANGED <<acc, carry>>
  PROVE  /\ Surplus' - Surplus <= SCALE - 1 /\ -(SCALE - 1) <= Surplus' - Surplus
         /\ Surplus \in Int /\ Surplus' \in Int
<1> DEFINE p == positions[i]
           q == ChangeShares(positions[i], delta)
           e == Entitled(p.shares, acc)
           f == Entitled(q.shares, acc)
           x == p.credited - p.reward_debt
<1>1. /\ positions \in [Investors -> Position] /\ acc \in Nat /\ SCALE \in Nat \ {0}
      /\ usdc \in Nat /\ total_capital \in Nat /\ carry \in Nat /\ p \in Position
  BY LendingPoolAssumption DEF PoolInv, PoolTypeOK
<1>2. /\ q \in Position /\ q.reward_debt = f
      /\ q.credited = p.credited + (e - p.reward_debt)
  BY ChangeSharesResult, ClaimableIs DEF PoolInv
<1>3. positions'[i] = q /\ \A j \in Investors \ {i} : positions'[j] = positions[j]
  BY <1>1
<1>4. Total(Potential)' = Total(Potential) - PotentialOf(i) + PotentialOf(i)'
  BY <1>3, PotentialOfOneInvestor
<1>5. Total(Potential) \in Nat /\ PotentialOf(i) \in Nat
  BY PotentialIsSummable, PotentialCoversClaim
<1> HIDE DEF p, q
<1>6. /\ e \in Nat /\ p.shares * acc \in Nat /\ SCALE * e \in Nat
      /\ p.shares * acc - SCALE * e \in 0..(SCALE - 1)
  BY <1>1, EntitledRemainder DEF Position
<1>7. /\ f \in Nat /\ q.shares * acc \in Nat /\ SCALE * f \in Nat
      /\ q.shares * acc - SCALE * f \in 0..(SCALE - 1)
  BY <1>1, <1>2, EntitledRemainder DEF Position
<1>8. PotentialOf(i) = SCALE * x + p.shares * acc
  BY DEF PotentialOf, p
<1>9. PotentialOf(i)' = SCALE * (x + e - f) + q.shares * acc
  <2> HIDE DEF e, f
  <2>1. p.credited \in Nat /\ p.reward_debt \in Nat
    BY <1>1 DEF Position
  <2>2. q.credited - q.reward_debt = x + e - f
    BY <1>2, <1>6, <1>7, <2>1
  <2>3. PotentialOf(i)' = SCALE * (q.credited - q.reward_debt) + q.shares * acc
    BY <1>3 DEF PotentialOf
  <2> QED
    BY <2>2, <2>3
<1>10. x \in Int
  BY <1>1 DEF Position
<1> HIDE DEF x, e, f
<1>11. SCALE * (x + e - f) = SCALE * x + SCALE * e - SCALE * f /\ SCALE * x \in Int
  BY <1>1, <1>6, <1>7, <1>10, Distribute
<1>12. /\ PotentialOf(i)' - PotentialOf(i) <= SCALE - 1
       /\ -(SCALE - 1) <= PotentialOf(i)' - PotentialOf(i)
       /\ PotentialOf(i)' \in Int
  BY <1>1, <1>6, <1>7, <1>8, <1>9, <1>11
<1> DEFINE free == SCALE * (usdc - total_capital)
<1>13. usdc' - total_capital' = usdc - total_capital /\ free \in Int
  BY <1>1
<1>14. /\ Surplus = Total(Potential) + carry - free
       /\ Surplus' = Total(Potential)' + carry - free
  BY <1>13 DEF Surplus
<1> HIDE DEF free
<1> QED
  BY <1>1, <1>4, <1>5, <1>12, <1>13, <1>14

\* A claim rounds nothing: it takes from the position what the pool pays.
LEMMA ClaimRoundsNothing ==
  ASSUME PoolInv, PoolInv', NEW i \in Investors, ClaimInterest(i)
  PROVE  Surplus' = Surplus
<1> DEFINE p == positions[i]
           e == Entitled(p.shares, acc)
           owed == ClaimableInterest(i)
           x == p.credited - p.reward_debt
<1>1. /\ positions \in [Investors -> Position] /\ p \in Position /\ acc \in Nat
      /\ SCALE \in Nat \ {0} /\ usdc \in Nat /\ total_capital \in Nat /\ carry \in Nat
  BY LendingPoolAssumption DEF PoolInv, PoolTypeOK
<1>2. p.shares \in Nat /\ p.credited \in Nat /\ p.reward_debt \in Nat
  BY <1>1 DEF Position
<1>3. e \in Nat /\ p.shares * acc \in Nat
  BY <1>1, <1>2, EntitledRemainder
<1>4. owed = p.credited + (e - p.reward_debt) /\ owed \in Int /\ usdc' = usdc - owed
      /\ total_capital' = total_capital /\ acc' = acc /\ carry' = carry
  BY ClaimableIs DEF PoolInv, ClaimInterest, ClaimableInterest
<1>5. positions'[i] = [shares |-> p.shares, reward_debt |-> e, credited |-> 0]
  <2>1. positions'[i] = [Settle(p, acc) EXCEPT !.credited = 0]
    BY <1>1 DEF ClaimInterest
  <2> DEFINE v == p.credited + (e - p.reward_debt)
  <2>2. Settle(p, acc) = [shares |-> p.shares, reward_debt |-> e, credited |-> v]
    BY <1>1, SettleResult
  <2> HIDE DEF e, p, v
  <2> QED
    BY <2>1, <2>2
<1>6. \A j \in Investors \ {i} : positions'[j] = positions[j]
  BY <1>1 DEF ClaimInterest
<1>7. Total(Potential)' = Total(Potential) - PotentialOf(i) + PotentialOf(i)'
  BY <1>4, <1>6, PotentialOfOneInvestor
<1>8. Total(Potential) \in Nat
  BY PotentialIsSummable
<1>9. PotentialOf(i) = SCALE * x + p.shares * acc
  BY DEF PotentialOf
<1>10. PotentialOf(i)' = SCALE * (0 - e) + p.shares * acc
  <2> HIDE DEF e, p
  <2> QED
    BY <1>4, <1>5 DEF PotentialOf
<1>11. /\ SCALE * x = SCALE * owed - SCALE * e
       /\ SCALE * (0 - e) = -(SCALE * e) /\ SCALE * e \in Nat /\ SCALE * owed \in Int
       /\ SCALE * (usdc' - total_capital') = SCALE * (usdc - total_capital) - SCALE * owed
       /\ SCALE * (usdc - total_capital) \in Int
  <2> DEFINE free == usdc - total_capital
  <2>1. x = owed + 0 - e /\ usdc' - total_capital' = free + 0 - owed /\ free \in Int
    BY <1>1, <1>2, <1>3, <1>4
  <2> HIDE DEF x, owed, e, free
  <2>2. SCALE * x = SCALE * owed + SCALE * 0 - SCALE * e
    BY <1>1, <1>3, <1>4, <2>1, Distribute
  <2>3. SCALE * (usdc' - total_capital') = SCALE * free + SCALE * 0 - SCALE * owed
    BY <1>1, <1>4, <2>1, Distribute
  <2>4. SCALE * (0 - e) = -(SCALE * e) /\ SCALE * e \in Nat /\ SCALE * owed \in Int
        /\ SCALE * free \in Int
    BY <1>1, <1>3, <1>4, <2>1
  <2> QED
    BY <1>1, <2>2, <2>3, <2>4 DEF free
<1> DEFINE y == SCALE * x
           w == SCALE * (0 - e)
           free == SCALE * (usdc - total_capital)
<1>12. /\ Surplus = Total(Potential) + carry - free
       /\ Surplus' = Total(Potential)' + carry - SCALE * (usdc' - total_capital')
  BY <1>4 DEF Surplus
<1> HIDE DEF p, e, owed, x, y, w, free
<1> QED
  BY <1>1, <1>3, <1>7, <1>8, <1>9, <1>10, <1>11, <1>12 DEF y, w, free

\* A step that moves principal only moves capital and tokens alike.
LEMMA PrincipalRoundsNothing ==
  ASSUME UNCHANGED <<positions, acc, carry>>,
         usdc' - total_capital' = usdc - total_capital
  PROVE  Surplus' = Surplus
<1>1. Potential' = Potential
  BY DEF Potential, PotentialOf
<1>2. Total(Potential)' = Total(Potential)
  BY <1>1 DEF Total, Units
<1> QED
  BY <1>2 DEF Surplus

\* A payment rounds nothing: what its division leaves over is carried.
LEMMA PaymentRoundsNothing ==
  ASSUME PoolInv, UNCHANGED <<positions, total_shares>>, NEW interest \in Nat,
         AccrueInterest(interest), NEW owned,
         owned = IF total_shares > 0 THEN interest ELSE 0,
         usdc' - total_capital' = usdc - total_capital + owned
  PROVE  Surplus' = Surplus
<1>1. /\ SCALE \in Nat \ {0} /\ total_shares \in Nat /\ acc \in Nat /\ carry \in Nat
      /\ usdc \in Nat /\ total_capital \in Nat
  BY LendingPoolAssumption DEF PoolInv, PoolTypeOK
<1>2. CASE interest > 0 /\ total_shares > 0
  <2> DEFINE scaled == interest * SCALE + carry
             share == scaled \div total_shares
             rest == scaled % total_shares
  <2>1. acc' = acc + share /\ carry' = rest
    BY <1>2 DEF AccrueInterest
  <2>2. scaled \in Nat /\ interest * SCALE \in Nat
    BY <1>1
  <2>3. share \in Nat /\ rest \in Nat /\ scaled = total_shares * share + rest
    <3> HIDE DEF scaled
    <3> QED
      BY <1>1, <1>2, <2>2
  <2> HIDE DEF share, rest
  <2>4. acc' \in Nat /\ acc' = acc + share
    BY <1>1, <2>1, <2>3
  <2> DEFINE gain == [i \in Investors |-> share * Shares[i]]
             f == Potential
             g == Potential'
  <2>5. Summable(Shares) /\ DOMAIN Shares = Investors /\ total_shares = Total(Shares)
    BY SharesAreSummable DEF PoolInv, PoolTypeOK, SharesAddUp, Shares
  <2>6. \A i \in Investors : Shares[i] \in Nat /\ Shares[i] = positions[i].shares
    BY <2>5 DEF Summable, Shares
  <2>7. \A i \in Investors : gain[i] \in Nat
    BY <2>3, <2>6
  <2>8. Summable(gain) /\ DOMAIN gain = Investors
    BY <2>7, LendingPoolAssumption DEF Summable
  <2>9. Total(gain) = share * total_shares
    <3>1. \A i \in DOMAIN Shares : gain[i] = share * Shares[i]
      BY <2>5
    <3> HIDE DEF gain
    <3> QED
      BY <2>3, <2>5, <2>8, <3>1, TotalOfMultiples
  <2>10. /\ Summable(f) /\ DOMAIN f = Investors /\ Total(f) \in Nat
         /\ \A i \in Investors : f[i] = PotentialOf(i) /\ f[i] \in Nat
    BY PotentialIsSummable DEF Summable
  <2>11. \A i \in Investors : g[i] = f[i] + gain[i]
    <3> SUFFICES ASSUME NEW i \in Investors PROVE g[i] = f[i] + gain[i]
      OBVIOUS
    <3> DEFINE s == positions[i].shares
               x == SCALE * (positions[i].credited - positions[i].reward_debt)
    <3>1. positions[i] \in Position
      BY DEF PoolInv, PoolTypeOK
    <3>2. s \in Nat /\ x \in Int
      BY <1>1, <3>1 DEF Position
    <3>3. f[i] = x + s * acc /\ g[i] = x + s * acc'
      BY DEF Potential, PotentialOf
    <3>4. gain[i] = share * s
      BY <2>6
    <3> HIDE DEF s, x, f, g, gain
    <3>5. s * acc' = s * acc + share * s /\ s * acc \in Nat /\ share * s \in Nat
      BY <1>1, <2>3, <2>4, <3>2
    <3> QED
      BY <3>2, <3>3, <3>4, <3>5
  <2>12. Summable(g) /\ DOMAIN g = Investors
    <3>1. DOMAIN g = Investors
      BY DEF Potential
    <3> HIDE DEF f, g, gain
    <3>2. \A i \in Investors : g[i] \in Nat
      BY <2>7, <2>10, <2>11
    <3> QED
      BY <3>1, <3>2, LendingPoolAssumption DEF Summable
  <2>13. Total(Potential)' = Total(g)
    BY DEF Total, Units
  <2> HIDE DEF f, g, gain
  <2>14. Total(g) = Total(f) + Total(gain)
    BY <2>8, <2>10, <2>11, <2>12, TotalOfSums
  <2> DEFINE free == usdc - total_capital
  <2>15. usdc' - total_capital' = free + interest /\ free \in Int
    <3>1. owned = interest
      BY <1>2
    <3> QED
      BY <1>1, <3>1
  <2> HIDE DEF free
  <2>16. SCALE * (free + interest) = SCALE * free + interest * SCALE /\ SCALE * free \in Int
    BY <1>1, <2>15
  <2>17. share * total_shares = total_shares * share /\ total_shares * share \in Nat
    BY <1>1, <2>3
  <2>18. Surplus = Total(f) + carry - SCALE * free
    BY DEF Surplus, f, free
  <2>19. Surplus' = Total(g) + rest - SCALE * (free + interest)
    BY <2>1, <2>13, <2>15 DEF Surplus
  <2> QED
    BY <1>1, <2>2, <2>3, <2>9, <2>10, <2>14, <2>16, <2>17, <2>18, <2>19
<1>3. CASE ~(interest > 0 /\ total_shares > 0)
  <2>1. UNCHANGED <<acc, carry>>
    BY <1>3 DEF AccrueInterest
  <2>2. usdc' - total_capital' = usdc - total_capital
    <3>1. owned = 0
      BY <1>1, <1>3
    <3> QED
      BY <1>1, <3>1
  <2> QED
    BY <2>1, <2>2, PrincipalRoundsNothing
<1> QED
  BY <1>2, <1>3

\* So the pool's repay rounds nothing, whether it banks the interest or not.
LEMMA RepayRoundsNothing ==
  ASSUME PoolInv, NEW principal \in Nat, NEW interest \in Nat, Repay(principal, interest),
         UNCHANGED <<positions, total_shares>>
  PROVE  Surplus' = Surplus
<1> DEFINE owned == IF total_shares > 0 THEN interest ELSE 0
           banked == BankedAsCapital(interest)
<1>1. usdc \in Nat /\ total_capital \in Nat /\ total_shares \in Nat
  BY DEF PoolInv, PoolTypeOK
<1>2. /\ usdc' = usdc + (principal + interest)
      /\ total_capital' = total_capital + principal + banked
      /\ AccrueInterest(interest)
  BY DEF Repay
<1>3. owned \in Nat /\ banked \in Nat /\ owned + banked = interest
  BY DEF BankedAsCapital
<1> HIDE DEF owned, banked
<1>4. usdc' - total_capital' = usdc - total_capital + owned
  BY <1>1, <1>2, <1>3
<1> QED
  BY <1>2, <1>4, PaymentRoundsNothing DEF owned

\* The surplus is a whole number.
LEMMA SurplusIsInt == PoolInv => Surplus \in Int
<1> SUFFICES ASSUME PoolInv PROVE Surplus \in Int
  OBVIOUS
<1>1. /\ SCALE \in Nat \ {0} /\ usdc \in Nat /\ total_capital \in Nat /\ carry \in Nat
  BY LendingPoolAssumption DEF PoolInv, PoolTypeOK
<1>2. SCALE * (usdc - total_capital) \in Int
  BY <1>1
<1> QED
  BY <1>1, <1>2, PotentialIsSummable DEF Surplus

\* A pool just deployed has none.
LEMMA SurplusInit == PoolInit => Surplus = 0
<1> SUFFICES ASSUME PoolInit PROVE Surplus = 0
  OBVIOUS
<1>1. SCALE \in Nat \ {0}
  BY LendingPoolAssumption
<1>2. \A i \in DOMAIN Potential : Potential[i] = 0
  BY <1>1 DEF PoolInit, NoPosition, Potential, PotentialOf
<1>3. Total(Potential) = 0
  BY <1>2, TotalOfNothing
<1> QED
  BY <1>1, <1>3 DEF PoolInit, Surplus

\* A step rounds nothing, or changes the shares and rounds by less than a unit.
RoundsOnShareChange ==
  \/ Surplus' = Surplus
  \/ /\ total_shares' # total_shares
     /\ Surplus' - Surplus <= SCALE - 1
     /\ -(SCALE - 1) <= Surplus' - Surplus

\* Every operation of the pool is such a step.
LEMMA RoundingStep ==
  ASSUME PoolInv, PoolInv', PoolNext
  PROVE  RoundsOnShareChange
<1>1. /\ Amounts \subseteq Int /\ usdc \in Nat /\ total_capital \in Nat /\ total_shares \in Nat
      /\ usdc' \in Nat /\ total_capital' \in Nat
      /\ \A i \in Investors : positions[i].shares \in Nat
  BY LendingPoolAssumption DEF PoolInv, PoolTypeOK, Position
<1>2. CASE DepositTx
  <2>1. PICK i \in Investors, amount \in Amounts : Deposit(i, amount)
    BY <1>2 DEF DepositTx
  <2>2. amount \in Int /\ amount > 0 /\ positions[i].shares + amount \in Nat
    BY <1>1, <2>1 DEF Deposit
  <2>3. total_shares' = total_shares + amount
    BY <2>1 DEF Deposit
  <2>4. Surplus' - Surplus <= SCALE - 1 /\ -(SCALE - 1) <= Surplus' - Surplus
    BY <2>1, <2>2, ShareChangeRounds DEF Deposit
  <2> QED
    BY <1>1, <2>2, <2>3, <2>4 DEF RoundsOnShareChange
<1>3. CASE WithdrawTx
  <2>1. PICK i \in Investors, amount \in Amounts : Withdraw(i, amount)
    BY <1>3 DEF WithdrawTx
  <2>2. amount > 0 /\ -amount \in Int /\ positions[i].shares + (-amount) \in Nat
    BY <1>1, <2>1 DEF Withdraw
  <2>3. /\ total_shares' = total_shares - amount
        /\ total_capital' = total_capital + (-amount) /\ usdc' = usdc + (-amount)
    BY <1>1, <2>1 DEF Withdraw
  <2>4. Surplus' - Surplus <= SCALE - 1 /\ -(SCALE - 1) <= Surplus' - Surplus
    BY <2>1, <2>2, <2>3, ShareChangeRounds DEF Withdraw
  <2> QED
    BY <1>1, <2>2, <2>3, <2>4 DEF RoundsOnShareChange
<1>4. CASE ClaimInterestTx
  BY <1>4, ClaimRoundsNothing DEF ClaimInterestTx, RoundsOnShareChange
<1>5. CASE ReserveTx \/ UnreserveTx \/ WriteOffTx
  BY <1>5, PrincipalRoundsNothing DEF ReserveTx, UnreserveTx, WriteOffTx, RoundsOnShareChange
<1>6. CASE DisburseTx
  <2>1. PICK amount \in Amounts : /\ usdc' = usdc - amount
                                  /\ total_capital' = total_capital - amount
                                  /\ UNCHANGED <<positions, acc, carry>>
    BY <1>6 DEF DisburseTx, Disburse
  <2>2. usdc' - total_capital' = usdc - total_capital
    BY <1>1, <2>1
  <2> QED
    BY <2>1, <2>2, PrincipalRoundsNothing DEF RoundsOnShareChange
<1>7. CASE RepayTx
  <2>1. PICK principal \in Amounts \cup {0}, interest \in Amounts \cup {0} :
          /\ Repay(principal, interest)
          /\ UNCHANGED <<positions, total_shares>>
    BY <1>7 DEF RepayTx
  <2>2. principal \in Nat /\ interest \in Nat
    BY <1>1, <2>1 DEF Repay
  <2> QED
    BY <2>1, <2>2, RepayRoundsNothing DEF RoundsOnShareChange
<1> QED
  BY <1>2, <1>3, <1>4, <1>5, <1>6, <1>7 DEF PoolNext

\* What the pool lacks is within the surplus.
LEMMA SurplusCoversShortfall ==
  ASSUME PoolInv, NEW n \in Nat, Surplus <= n * (SCALE - 1)
  PROVE  TotalClaimable \in Nat /\ total_capital + TotalClaimable <= usdc + n
<1> DEFINE claimable == [i \in Investors |-> ClaimableInterest(i)]
           owed == [i \in Investors |-> SCALE * claimable[i]]
<1>1. /\ SCALE \in Nat \ {0} /\ usdc \in Nat /\ total_capital \in Nat /\ carry \in Nat
  BY LendingPoolAssumption DEF PoolInv, PoolTypeOK
<1>2. \A i \in Investors : /\ claimable[i] \in Nat /\ owed[i] \in Nat
                           /\ owed[i] <= PotentialOf(i)
  BY PotentialCoversClaim
<1>3. /\ Summable(claimable) /\ DOMAIN claimable = Investors
      /\ Summable(owed) /\ DOMAIN owed = Investors
      /\ \A i \in Investors : owed[i] = SCALE * claimable[i]
  BY <1>2, LendingPoolAssumption DEF Summable
<1>4. /\ Summable(Potential) /\ DOMAIN Potential = Investors /\ Total(Potential) \in Nat
      /\ \A i \in Investors : Potential[i] = PotentialOf(i)
  BY PotentialIsSummable
<1>5. TotalClaimable = Total(claimable)
  BY DEF TotalClaimable
<1> HIDE DEF claimable, owed
<1>6. Total(owed) = SCALE * Total(claimable) /\ Total(claimable) \in Nat
  BY <1>1, <1>3, TotalOfMultiples, UnitsAreFinite
<1>7. Total(owed) <= Total(Potential)
  BY <1>2, <1>3, <1>4, TotalMonotone
<1> DEFINE c == Total(claimable)
           free == usdc - total_capital
<1>8. /\ c \in Nat /\ free \in Int /\ SCALE * c \in Nat /\ SCALE * free \in Int
      /\ n * (SCALE - 1) = SCALE * n - n /\ SCALE * n \in Nat
  BY <1>1, <1>6
<1>9. SCALE * c - SCALE * free <= SCALE * n
  <2>1. Surplus = Total(Potential) + carry - SCALE * free
    BY DEF Surplus
  <2> HIDE DEF c, free
  <2> QED
    BY <1>1, <1>4, <1>6, <1>7, <1>8, <2>1 DEF c
<1> HIDE DEF c, free
<1>10. c <= free + n
  <2> DEFINE b == free + n
  <2>1. b \in Int /\ SCALE * b = SCALE * free + SCALE * n
    BY <1>1, <1>8
  <2> HIDE DEF b
  <2>2. SCALE * c <= SCALE * b
    BY <1>8, <1>9, <2>1
  <2>3. CASE c > b
    <3>1. SCALE * c >= SCALE * (b + 1) /\ SCALE * (b + 1) = SCALE * b + SCALE
      BY <1>1, <1>8, <2>1, <2>3
    <3> QED
      BY <1>1, <1>8, <2>1, <2>2, <3>1
  <2> QED
    BY <1>8, <2>1, <2>3 DEF b
<1> QED
  BY <1>1, <1>5, <1>6, <1>8, <1>10 DEF c, free

=============================================================================
