--------------------------- MODULE StellarHomes ----------------------------
(***************************************************************************)
(* The three contracts together: investors, trustees, oracles, borrowers,  *)
(* underwriters and the passage of time, in any order.  The ledger runs    *)
(* one transaction at a time, so a transaction is a step.                  *)
(*                                                                         *)
(* The system starts deployed and wired, with the first roles granted.     *)
(***************************************************************************)
EXTENDS MortgagePool, Totals

CONSTANTS
  Facilities,   \* [principal, term_months, rate_bps] borrowers apply for
  Payments,     \* the amounts borrowers pay
  MaxLoans,     \* bound on next_id - 1
  MaxTime       \* bound on now

ASSUME StellarHomesAssumption ==
  /\ Facilities \subseteq [principal : Int, term_months : Nat, rate_bps : Nat]
  /\ Payments \subseteq Int
  /\ MaxLoans \in Nat
  /\ MaxTime \in Nat \ {0}

poolVars == <<positions, total_capital, total_reserved, total_lent, total_interest,
              total_written_off, total_shares, acc, carry, usdc>>
registryVars == <<trustees, oracles, properties, milestones>>
vars == <<mortgageVars, poolVars, registryVars>>

Init ==
  /\ Pool!PoolInit
  /\ Registry!RegistryInit
  /\ MortgageInit

-----------------------------------------------------------------------------
(* Transactions of the pool and of the registry alone.                     *)

DepositTx  == Pool!DepositTx       /\ UNCHANGED <<mortgageVars, registryVars>>
WithdrawTx == Pool!WithdrawTx      /\ UNCHANGED <<mortgageVars, registryVars>>
ClaimTx    == Pool!ClaimInterestTx /\ UNCHANGED <<mortgageVars, registryVars>>

SubmitTx   == Registry!SubmitPropertyTx /\ UNCHANGED <<mortgageVars, poolVars>>
EvidenceTx == Registry!EvidenceTx       /\ UNCHANGED <<mortgageVars, poolVars>>
OracleTx   == Registry!OracleTx         /\ UNCHANGED <<mortgageVars, poolVars>>
RolesTx    == Registry!AdminTx          /\ UNCHANGED <<mortgageVars, poolVars>>

-----------------------------------------------------------------------------
(* Transactions of the MortgagePool.                                       *)

ApplyTx ==
  /\ next_id <= MaxLoans
  /\ \E p \in Registry!PropertyIds, f \in Facilities :
       Apply(p, f.principal, f.term_months, f.rate_bps)
  /\ UNCHANGED <<adminVars, now, poolVars, registryVars>>

ApproveTx ==
  /\ \E underwriter \in underwriters, id \in MortgageIds : Approve(underwriter, id)
  /\ UNCHANGED <<adminVars, now, registryVars, positions, total_capital, total_lent,
                 total_interest, total_written_off, total_shares, acc, carry, usdc>>

DeclineTx ==
  /\ \E underwriter \in underwriters, id \in MortgageIds : Decline(underwriter, id)
  /\ UNCHANGED <<adminVars, now, poolVars, registryVars>>

DisburseLoan(id) ==
  /\ \E stage \in Registry!Stages : Disburse(id, stage)
  /\ UNCHANGED <<adminVars, now, trustees, oracles, positions, total_interest,
                 total_written_off, total_shares, acc, carry>>

DisburseTx == \E id \in MortgageIds : DisburseLoan(id)

RepayLoan(id) ==
  /\ \E amount \in Payments : Repay(id, amount)
  /\ UNCHANGED <<adminVars, now, trustees, oracles, milestones, positions,
                 total_written_off, total_shares>>

RepayTx == \E id \in MortgageIds : RepayLoan(id)

MarkDefaultLoan(id) ==
  /\ MarkDefault(id)
  /\ UNCHANGED <<adminVars, now, trustees, oracles, milestones, positions, total_capital,
                 total_interest, total_shares, acc, carry, usdc>>

MarkDefaultTx == \E id \in MortgageIds : MarkDefaultLoan(id)

GovernanceTx ==
  /\ \/ \E address \in UnderwriterChanges, authorized \in BOOLEAN :
          SetUnderwriter(address, authorized)
     \/ \E secs \in GraceChoices : ScheduleGrace(secs)
     \/ ExecuteAction
     \/ CancelAction
  /\ UNCHANGED <<loanVars, now, poolVars, registryVars>>

Tick ==
  /\ now < MaxTime
  /\ now' = now + 1
  /\ UNCHANGED <<loanVars, adminVars, poolVars, registryVars>>

Next ==
  \/ DepositTx
  \/ WithdrawTx
  \/ ClaimTx
  \/ SubmitTx
  \/ EvidenceTx
  \/ OracleTx
  \/ RolesTx
  \/ ApplyTx
  \/ ApproveTx
  \/ DeclineTx
  \/ DisburseTx
  \/ RepayTx
  \/ MarkDefaultTx
  \/ GovernanceTx
  \/ Tick

Spec == Init /\ [][Next]_vars

-----------------------------------------------------------------------------
(* What the loans add up to.                                               *)

LoansWith(statuses) == {id \in MortgageIds : mortgages[id].status \in statuses}

Live   == LoansWith({"Funded", "Repaying"})
Opened == LoansWith({"Funded", "Repaying", "PaidOff", "Defaulted"})

StagesReleased(p) == {stage \in Registry!Stages : milestones[p][stage].released}

-----------------------------------------------------------------------------
(* Properties.                                                             *)

\* Every record of the MortgagePool has its type.
MortgageTypeOK ==
  /\ MortgageIds \subseteq 1..(next_id - 1)
  /\ \A id \in MortgageIds : mortgages[id] \in Mortgage
  /\ DOMAIN property_mortgage \subseteq Registry!PropertyIds
  /\ \A p \in DOMAIN property_mortgage : property_mortgage[p] \in MortgageIds
  /\ underwriters \subseteq FirstUnderwriters \cup UnderwriterChanges
  /\ grace_secs \in Nat
  /\ scheduled \in [secs : Nat \ {0}, eta : Nat] \cup {NoAction}

\* The pool's record of principal out with borrowers is the sum of what the
\* live loans owe, and its losses are what the defaulted ones owed: neither
\* contract checks this, each takes the other's numbers, so no draw, payment
\* or default may be booked on one side only.
LentIsOutstanding ==
  /\ total_lent = Total([id \in Live |-> mortgages[id].outstanding])
  /\ total_written_off =
       Total([id \in LoansWith({"Defaulted"}) |-> mortgages[id].outstanding])
  /\ total_interest = Total([id \in MortgageIds |-> mortgages[id].interest_paid])

\* The pool's commitments are exactly the undrawn facilities of the loans that
\* may still need them: closing or defaulting a loan strands no capital, and no
\* loan draws on what was set aside for another.
ReservedIsUndrawn ==
  total_reserved =
    Total([id \in LoansWith({"Approved", "Funded", "Repaying"}) |-> Undrawn(mortgages[id])])

\* A loan has drawn exactly the tranches of the stages released on its
\* property: one tranche for one signed-off stage, never twice, never beyond
\* the facility, and never on the stages of somebody else's loan.
DrawnByStage ==
  /\ \A id \in MortgageIds :
       LET m == mortgages[id]
       IN  m.disbursed =
             IF id \in Opened
             THEN Total([s \in StagesReleased(m.property_id) |-> TrancheFor(m, s)])
             ELSE 0
  /\ \A p \in Registry!PropertyIds :
       (\A id \in Opened : mortgages[id].property_id # p) => StagesReleased(p) = {}

\* One loan at a time against a house: a property is marked financed exactly
\* while one application or loan on it is open, and the registry's status is
\* what became of that loan.
OneLoanPerProperty ==
  \A p \in Registry!PropertyIds :
    LET on(statuses) == {id \in LoansWith(statuses) : mortgages[id].property_id = p}
        open == on({"Applied", "Approved", "Funded", "Repaying"})
        became(loanStatuses, propertyStatus) ==
          (on(loanStatuses) # {}) <=> (properties[p].status = propertyStatus)
    IN  /\ open = {property_mortgage[q] : q \in DOMAIN property_mortgage \cap {p}}
        /\ \A id, other \in on(MortgageStatus) : id = other
        /\ became({"Funded", "Repaying"}, "Mortgaged")
        /\ became({"PaidOff"}, "Repaid")
        /\ became({"Defaulted"}, "Defaulted")

\* Interest always has somebody to belong to: as long as a borrower owes the
\* pool, or a loss is on its books, shares are outstanding, so no payment ever
\* takes the branch of accrue_interest that banks interest as capital.
InterestHasOwners ==
  /\ total_lent + total_written_off > 0 => total_shares > 0
  /\ total_shares = total_capital + total_lent + total_written_off

\* A payment made is a slice repaid: after k payments a loan owes at most what
\* it drew less k slices, so a borrower who pays what is asked is never behind
\* the schedule the instalments were computed from.
PaymentsAmortise ==
  \A id \in MortgageIds :
    LET m     == mortgages[id]
        slice == m.principal \div m.term_months
    IN  m.outstanding = 0 \/ m.outstanding <= m.disbursed - m.payments_made * slice

\* Capital is committed only against the valuation of the day: whenever the
\* pool sets money aside, it is the principal of one loan within the ceiling of
\* what its property is worth now, however long ago the application was made
\* and however the valuation moved since.
CommitmentsAreWithinLtv ==
  [][total_reserved' > total_reserved =>
       \E id \in MortgageIds :
         LET m == mortgages[id]
         IN  /\ total_reserved' = total_reserved + m.principal
             /\ properties[m.property_id].status = "Verified"
             /\ m.principal * BPS_DENOMINATOR
                  <= properties[m.property_id].usdc_value * MAX_LTV_BPS]_vars

\* A loan that is_defaultable reports can in fact be written off, and one that
\* owes money can in fact be settled: no guard of the pool or of the registry
\* stands in the way of closing a loan.
LoansCanBeClosed ==
  \A id \in Live :
    /\ IsDefaultable(id) => ENABLED MarkDefault(id)
    /\ ENABLED Repay(id, Payoff(Accrue(mortgages[id], now)))

\* The tokens the pool holds reach for the capital on its books.  Interest is
\* rounded in the investors' favour now and then, which can take a unit of the
\* capital's tokens for each deposit or withdrawal (StellarHomesProofs,
\* ShortfallIsBoundedAmongLoans).
TokensCoverCapital == total_capital <= usdc

\* A stage signed off on a loan that has not begun to be repaid can be drawn
\* right away, whatever investors have withdrawn in the meantime, while the
\* tokens cover the capital.
SignedStagesCanBeDrawn ==
  TokensCoverCapital =>
    \A id \in LoansWith({"Approved", "Funded"}) :
      LET m == mortgages[id]
      IN  \A stage \in Registry!Stages :
            Registry!IsReleasable(m.property_id, stage) /\ TrancheFor(m, stage) > 0
              => ENABLED Disburse(id, stage)

\* No instalment stays open: once a loan has been drawn, every due date is
\* either met, so that the next one replaces it, or the loan is written off,
\* although that is nobody's duty and the records it needs may be archived.
\* Due dates too close to MaxTime are left out: the clock stops there.
EveryInstalmentIsSettled ==
  \A id \in 1..MaxLoans :
    \A due \in {d \in 1..MaxTime : \A g \in GraceChoices \cup {FirstGrace} : d + g < MaxTime} :
      (id \in Live /\ mortgages[id].next_payment_due = due)
        ~> ~(id \in Live /\ mortgages[id].next_payment_due = due)

\* A signed-off stage of a loan is paid for, unless the borrower has begun to
\* repay it or it was closed first: nobody's cooperation is needed but one call
\* while the tokens cover the capital.
SignedStagesArePaid ==
  \A id \in 1..MaxLoans : \A stage \in Registry!Stages :
    LET waiting == /\ HasStatus(id, {"Approved", "Funded"})
                   /\ Registry!IsReleasable(mortgages[id].property_id, stage)
                   /\ TrancheFor(mortgages[id], stage) > 0
                   /\ TokensCoverCapital
    IN  waiting ~> ~waiting

=============================================================================
