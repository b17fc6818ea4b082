------------------------- MODULE LendingPoolAudit --------------------------
(***************************************************************************)
(* The treasury's interest, audited: the pool of LendingPool with history  *)
(* variables that follow, in exact units of 1/SCALE, what each investor's  *)
(* shares earned.  The pool's steps are LendingPool's and read none of     *)
(* them.                                                                   *)
(***************************************************************************)
EXTENDS LendingPool

CONSTANT MaxAnchors   \* bound on the changes of one investor's shares

ASSUME LendingPoolAuditAssumption == MaxAnchors \in Nat

VARIABLES
  earned,        \* exact interest each investor's shares earned, times SCALE
  paid,          \* interest each investor was paid
  anchors,       \* how often each investor's shares changed
  distributed    \* interest received while there were shares to own it

historyVars == <<earned, paid, anchors, distributed>>
auditVars == <<poolVars, historyVars>>

AuditInit ==
  /\ PoolInit
  /\ earned  = [i \in Investors |-> 0]
  /\ paid    = [i \in Investors |-> 0]
  /\ anchors = [i \in Investors |-> 0]
  /\ distributed = 0

AuditedDeposit == \E i \in Investors, amount \in Amounts :
  /\ total_shares + amount <= MaxShares
  /\ anchors[i] < MaxAnchors
  /\ Deposit(i, amount)
  /\ anchors' = [anchors EXCEPT ![i] = @ + 1]
  /\ UNCHANGED <<earned, paid, distributed>>

AuditedWithdraw == \E i \in Investors, amount \in Amounts :
  /\ anchors[i] < MaxAnchors
  /\ Withdraw(i, amount)
  /\ anchors' = [anchors EXCEPT ![i] = @ + 1]
  /\ UNCHANGED <<earned, paid, distributed>>

AuditedClaim == \E i \in Investors :
  /\ ClaimInterest(i)
  /\ paid' = [paid EXCEPT ![i] = @ + ClaimableInterest(i)]
  /\ UNCHANGED <<earned, anchors, distributed>>

AuditedRepay ==
  /\ RepayTx
  /\ earned' = [i \in Investors |-> earned[i] + positions[i].shares * (acc' - acc)]
  /\ distributed' = distributed + IF total_shares > 0 THEN total_interest' - total_interest
                                                      ELSE 0
  /\ UNCHANGED <<paid, anchors>>

AuditedLending ==
  /\ ReserveTx \/ UnreserveTx \/ DisburseTx \/ WriteOffTx
  /\ UNCHANGED historyVars

AuditNext ==
  \/ AuditedDeposit
  \/ AuditedWithdraw
  \/ AuditedClaim
  \/ AuditedRepay
  \/ AuditedLending

AuditSpec == AuditInit /\ [][AuditNext]_auditVars

-----------------------------------------------------------------------------
(* Properties.                                                             *)

\* Nothing of a payment disappears: what the investors' shares earned, plus
\* the carried remainder, is exactly the interest distributed, whoever joined,
\* left or claimed between the payments.
InterestIsFullyDistributed ==
  Total(earned) + carry = SCALE * distributed

\* What an investor has been paid and could claim differs from what the shares
\* earned by less than one unit for each time the shares changed, and one: the
\* error of settle and reset_debt does not grow with time, payments or claims.
RoundingDriftIsBounded ==
  \A i \in Investors :
    LET drift == SCALE * (paid[i] + ClaimableInterest(i)) - earned[i]
        bound == (anchors[i] + 1) * (SCALE - 1)
    IN  -bound <= drift /\ drift <= bound

\* The pool never lacks more than one unit for every time some investor's
\* shares changed: that much, and no more, is wrong with "the pool can always
\* cover what it owes" (see PoolCoversWhatItOwes), however much interest passes
\* through it.
ShortfallIsBounded == total_capital + TotalClaimable <= usdc + Total(anchors)

\* The tokens the pool holds are the capital on its books and the interest
\* distributed and not paid out: no operation books money it does not move.
CashMatchesTheBooks ==
  /\ usdc + Total(paid) = total_capital + distributed
  /\ total_capital + total_lent + total_written_off
       = total_shares + (total_interest - distributed)

=============================================================================
