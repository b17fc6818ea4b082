---------------------------- MODULE LendingPool ----------------------------
(***************************************************************************)
(* The treasury: contracts/lending_pool/src/lib.rs.                        *)
(*                                                                         *)
(* Investors deposit the settlement asset and receive shares one for one;  *)
(* the wired MortgagePool reserves capital, draws it down and returns it.  *)
(* Interest is spread over the shares by a running accumulator, so nobody  *)
(* iterates over investors.  An entry point that panics rolls back, so a   *)
(* call that would panic is an action that is not enabled.                 *)
(*                                                                         *)
(* The operators named after the MortgagePool's calls constrain only the   *)
(* variables the call writes: a MortgagePool handler makes several of them *)
(* in one transaction, and conjoins them.  A call that is a transaction of *)
(* its own adds its frame in Next.                                         *)
(***************************************************************************)
EXTENDS Totals

CONSTANTS
  Investors,     \* the addresses that may hold a Position
  SCALE,         \* fixed-point scale of acc (10^12 in the code)
  Amounts,       \* the amounts callers pass
  MaxShares,     \* bound on total_shares, for model checking
  MaxInterest    \* bound on total_interest, for model checking

ASSUME LendingPoolAssumption ==
  /\ IsFiniteSet(Investors)
  /\ SCALE \in Nat \ {0}
  /\ Amounts \subseteq Int
  /\ MaxShares \in Nat
  /\ MaxInterest \in Nat

VARIABLES
  positions,          \* Position(Address): shares, reward_debt, credited
  total_capital,
  total_reserved,
  total_lent,
  total_interest,
  total_written_off,
  total_shares,
  acc,                \* interest per share ever received, times SCALE
  carry,              \* scaled remainder of the last accrual
  usdc                \* what the settlement token records for this contract

poolVars == <<positions, total_capital, total_reserved, total_lent,
              total_interest, total_written_off, total_shares, acc, carry, usdc>>

Position == [shares : Nat, reward_debt : Nat, credited : Nat]

NoPosition == [shares |-> 0, reward_debt |-> 0, credited |-> 0]

PoolInit ==
  /\ positions = [i \in Investors |-> NoPosition]
  /\ total_capital = 0
  /\ total_reserved = 0
  /\ total_lent = 0
  /\ total_interest = 0
  /\ total_written_off = 0
  /\ total_shares = 0
  /\ acc = 0
  /\ carry = 0
  /\ usdc = 0

-----------------------------------------------------------------------------
(* Internals.  Shares, acc and amounts are never negative, so the i128     *)
(* division, which truncates, is \div.                                     *)
(*                                                                         *)
(* Here and below, an operator named Op_Mistake is Op as a plausible slip  *)
(* would have written it; no specification uses it, and a run with it in   *)
(* the place of Op violates the property README.md lists beside it.        *)

Available_IgnoresReserved == total_capital

Available == total_capital - total_reserved

Entitled(shares, a) == (shares * a) \div SCALE

Settle(p, a) ==
  [p EXCEPT !.credited = @ + (Entitled(p.shares, a) - p.reward_debt),
            !.reward_debt = Entitled(p.shares, a)]

ResetDebt_Forgotten(p, a) == p

ResetDebt(p, a) == [p EXCEPT !.reward_debt = Entitled(p.shares, a)]

ChangeShares_WithoutSettle(p, delta) == ResetDebt([p EXCEPT !.shares = @ + delta], acc)

ChangeShares_Overwrites(p, delta) ==
  ResetDebt([Settle(p, acc) EXCEPT !.shares = delta], acc)

\* settle, change the shares, re-anchor: the only way shares change
ChangeShares(p, delta) ==
  ResetDebt([Settle(p, acc) EXCEPT !.shares = @ + delta], acc)

ClaimableInterest(i) == Settle(positions[i], acc).credited

-----------------------------------------------------------------------------
(* Investor operations.                                                    *)

Deposit(i, amount) ==
  /\ amount > 0
  /\ usdc' = usdc + amount
  /\ positions' = [positions EXCEPT ![i] = ChangeShares(@, amount)]
  /\ total_shares' = total_shares + amount
  /\ total_capital' = total_capital + amount
  /\ UNCHANGED <<total_reserved, total_lent, total_interest, total_written_off, acc, carry>>

Withdraw(i, amount) ==
  /\ amount > 0
  /\ positions[i].shares >= amount
  /\ amount <= Available
  /\ amount <= usdc                    \* else the token transfer panics
  /\ positions' = [positions EXCEPT ![i] = ChangeShares(@, -amount)]
  /\ total_shares' = total_shares - amount
  /\ total_capital' = total_capital - amount
  /\ usdc' = usdc - amount
  /\ UNCHANGED <<total_reserved, total_lent, total_interest, total_written_off, acc, carry>>

ClaimInterest(i) ==
  LET settled == Settle(positions[i], acc)
      owed    == settled.credited
  IN  /\ owed > 0
      /\ owed <= usdc                  \* else the token transfer panics
      /\ positions' = [positions EXCEPT ![i] = [settled EXCEPT !.credited = 0]]
      /\ usdc' = usdc - owed
      /\ UNCHANGED <<total_capital, total_reserved, total_lent, total_interest,
                     total_written_off, total_shares, acc, carry>>

-----------------------------------------------------------------------------
(* MortgagePool operations: each lists the variables it writes.            *)

\* writes total_reserved
Reserve(amount) ==
  /\ amount > 0
  /\ amount <= Available
  /\ total_reserved' = total_reserved + amount

Unreserve_Unchecked(amount) ==
  amount > 0 /\ total_reserved' = total_reserved - amount

\* writes total_reserved
Unreserve(amount) ==
  /\ amount > 0
  /\ amount <= total_reserved
  /\ total_reserved' = total_reserved - amount

\* writes total_reserved, total_capital, total_lent, usdc
Disburse(amount) ==
  /\ amount > 0
  /\ amount <= total_reserved
  /\ amount <= usdc                    \* else the token transfer panics
  /\ total_reserved' = total_reserved - amount
  /\ total_capital' = total_capital - amount
  /\ total_lent' = total_lent + amount
  /\ usdc' = usdc - amount

AccrueInterest_DropsCarry(interest) ==
  IF interest > 0 /\ total_shares > 0
  THEN acc' = acc + (interest * SCALE) \div total_shares /\ carry' = 0
  ELSE UNCHANGED <<acc, carry>>

\* writes acc and carry
AccrueInterest(interest) ==
  LET scaled == interest * SCALE + carry
  IN  IF interest > 0 /\ total_shares > 0
      THEN /\ acc' = acc + scaled \div total_shares
           /\ carry' = scaled % total_shares
      ELSE UNCHANGED <<acc, carry>>

BankedAsCapital_Always(interest) == interest

\* what accrue_interest returns: interest that has no share to own it
BankedAsCapital(interest) == IF total_shares > 0 THEN 0 ELSE interest

\* writes usdc, total_capital, total_lent, total_interest, acc, carry
Repay(principal, interest) ==
  /\ principal >= 0
  /\ interest >= 0
  /\ principal + interest > 0
  /\ usdc' = usdc + (principal + interest)
  /\ total_capital' = total_capital + principal + BankedAsCapital(interest)
  /\ total_lent' = total_lent - principal
  /\ total_interest' = total_interest + interest
  /\ AccrueInterest(interest)

WriteOff_KeepsLent(principal) ==
  /\ principal > 0
  /\ total_written_off' = total_written_off + principal
  /\ UNCHANGED total_lent

\* writes total_lent, total_written_off
WriteOff(principal) ==
  /\ principal > 0
  /\ total_lent' = total_lent - principal
  /\ total_written_off' = total_written_off + principal

-----------------------------------------------------------------------------
(* The pool on its own, driven by any investors and any MortgagePool that  *)
(* returns or writes off no more principal than is out with borrowers: the *)
(* contract does not check that, the MortgagePool guarantees it (invariant *)
(* LentIsOutstanding of StellarHomes).                                     *)

DepositTx == \E i \in Investors, amount \in Amounts :
  /\ total_shares + amount <= MaxShares
  /\ Deposit(i, amount)

WithdrawTx == \E i \in Investors, amount \in Amounts : Withdraw(i, amount)

ClaimInterestTx == \E i \in Investors : ClaimInterest(i)

ReserveTx == \E amount \in Amounts :
  /\ Reserve(amount)
  /\ UNCHANGED <<positions, total_capital, total_lent, total_interest,
                 total_written_off, total_shares, acc, carry, usdc>>

UnreserveTx == \E amount \in Amounts :
  /\ Unreserve(amount)
  /\ UNCHANGED <<positions, total_capital, total_lent, total_interest,
                 total_written_off, total_shares, acc, carry, usdc>>

DisburseTx == \E amount \in Amounts :
  /\ Disburse(amount)
  /\ UNCHANGED <<positions, total_interest, total_written_off, total_shares, acc, carry>>

RepayTx == \E principal, interest \in Amounts \cup {0} :
  /\ principal <= total_lent
  /\ total_interest + interest <= MaxInterest
  /\ Repay(principal, interest)
  /\ UNCHANGED <<positions, total_reserved, total_written_off, total_shares>>

WriteOffTx == \E principal \in Amounts :
  /\ principal <= total_lent
  /\ WriteOff(principal)
  /\ UNCHANGED <<positions, total_capital, total_reserved, total_interest,
                 total_shares, acc, carry, usdc>>

PoolNext ==
  \/ DepositTx
  \/ WithdrawTx
  \/ ClaimInterestTx
  \/ ReserveTx
  \/ UnreserveTx
  \/ DisburseTx
  \/ RepayTx
  \/ WriteOffTx

PoolSpec == PoolInit /\ [][PoolNext]_poolVars

-----------------------------------------------------------------------------
(* Properties.                                                             *)

\* Every stored total and every field of a position is a natural number.
PoolTypeOK ==
  /\ positions \in [Investors -> Position]
  /\ total_capital \in Nat
  /\ total_reserved \in Nat
  /\ total_lent \in Nat
  /\ total_interest \in Nat
  /\ total_written_off \in Nat
  /\ total_shares \in Nat
  /\ acc \in Nat
  /\ carry \in Nat
  /\ usdc \in Nat

\* Committed money cannot be withdrawn: whatever investors take out and
\* whatever is drawn, written off or released, the capital on the books always
\* covers every outstanding commitment, so the roofing tranche is there.
CommitmentsAreCovered == total_reserved <= total_capital

Shares == [i \in Investors |-> positions[i].shares]

\* The number of shares outstanding, over which accrue_interest divides each
\* payment, is the sum of the investors' shares: an investor's claim is
\* pro-rata only while the two agree.
SharesAddUp == total_shares = Total(Shares)

\* Every share is backed by capital in the pool, by principal out with a
\* borrower, or by a recorded write-off: principal is neither created nor lost
\* by any sequence of draws, repayments, withdrawals and defaults.
SharesAreBacked ==
  /\ total_shares <= total_capital + total_lent + total_written_off
  /\ total_capital + total_lent + total_written_off <= total_shares + total_interest

\* A position's anchor is never beyond what its shares have earned, so settle
\* never debits an investor: the order of deposits, withdrawals, claims and
\* payments between two settlements does not matter.
SettleNeverDebits ==
  \A i \in Investors : positions[i].reward_debt <= Entitled(positions[i].shares, acc)

\* Moving capital never moves interest: unless a payment arrives, what an
\* investor can claim changes only by being claimed, and then by exactly what
\* the pool pays.  A deposit buys no interest already earned, a withdrawal
\* forfeits none, churning mints none, and a default takes none.
OnlyPaymentsEarnInterest ==
  [][\A i \in Investors :
       \/ ClaimableInterest(i)' = ClaimableInterest(i)
       \/ acc' > acc /\ ClaimableInterest(i)' > ClaimableInterest(i)
       \/ /\ acc' = acc
          /\ ClaimableInterest(i)' = 0
          /\ usdc - usdc' = ClaimableInterest(i)]_poolVars

\* What the pool would pay if every investor claimed at once.
TotalClaimable == Total([i \in Investors |-> ClaimableInterest(i)])

\* "so truncation never compounds and the pool can always cover what it owes"
\* (accrue_interest): the tokens held cover the capital on the books and all
\* the interest investors could claim.
PoolCoversWhatItOwes == usdc >= total_capital + TotalClaimable

=============================================================================
