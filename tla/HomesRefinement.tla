-------------------------- MODULE HomesRefinement --------------------------
(***************************************************************************)
(* What StellarHomes implements, seen from the outside:                    *)
(*                                                                         *)
(*  - LoanLedger, by every loan on its own: whatever the investors, the    *)
(*    other loans, the registry and the admin do around it, a loan is      *)
(*    drawn, paid, defaulted and charged as that module says;              *)
(*  - Escrow, by the pool's totals and all the loans together;             *)
(*  - Governance, by the MortgagePool's grace period and its timelock.     *)
(***************************************************************************)
EXTENDS StellarHomes

\* Nothing scheduled is no record of an action, in either form.
ASSUME HomesRefinementAssumption ==
  /\ NoAction \notin [secs : Nat, eta : Nat]
  /\ NoAction \notin [action : [kind : {"SetGraceSecs"}, secs : Nat], eta : Nat]

Unsigned == {"Applied"}

\* The loan id, if it is on facility f and has been approved.
IsLoanOf(id, f) ==
  /\ id \in MortgageIds
  /\ mortgages[id].status \notin Unsigned
  /\ mortgages[id].principal = f.principal
  /\ mortgages[id].term_months = f.term_months
  /\ mortgages[id].rate_bps = f.rate_bps

\* LoanLedger follows one loan from its approval on; before, and for a facility
\* the loan is not on, it sees one that nobody draws.
LoanOf(id, f) ==
  IF IsLoanOf(id, f)
  THEN [mortgages[id] EXCEPT !.property_id = 1]
  ELSE [Application(1, f.principal, f.term_months, f.rate_bps) EXCEPT !.status = "Approved"]

DrawnBy(id, f) ==
  IF IsLoanOf(id, f) THEN StagesReleased(mortgages[id].property_id) ELSE {}

\* The due date tells when the loan was first drawn: it moves by a month with
\* every payment and by nothing else.
FirstDraw(m) ==
  IF m.disbursed > 0 THEN m.next_payment_due - (m.payments_made + 1) * SECONDS_PER_MONTH
                     ELSE 0

\* What the borrower has been charged, with the interest not yet written.
ChargedTo(m) ==
  LET current == IF m.status \in {"Funded", "Repaying"} THEN Accrue(m, now) ELSE m
  IN  (current.interest_accrued + current.interest_paid) * ChargeDivisor
        + current.interest_carry

LedgerOf(id, f) ==
  INSTANCE LoanLedger WITH
    loan       <- LoanOf(id, f),
    drawn      <- DrawnBy(id, f),
    first_draw <- FirstDraw(LoanOf(id, f)),
    charged    <- ChargedTo(LoanOf(id, f)),
    Facilities <- {f},
    Graces     <- GraceChoices \cup {FirstGrace},
    Horizon    <- 0

\* What the loan id holds of the pool's principal.
FacilityOf(id) ==
  LET m == mortgages[id]
      open == HasStatus(id, {"Approved", "Funded", "Repaying"})
  IN  [undrawn |-> IF open THEN Undrawn(m) ELSE 0,
       out     |-> IF open THEN m.outstanding ELSE 0,
       lost    |-> IF HasStatus(id, {"Defaulted"}) THEN m.outstanding ELSE 0]

TheEscrow ==
  INSTANCE Escrow WITH
    Loans    <- 1..MaxLoans,
    free     <- total_capital - total_reserved,
    facility <- [id \in 1..MaxLoans |-> FacilityOf(id)]

\* The MortgagePool's administration while one admin holds the role.
TheGovernance ==
  INSTANCE Governance WITH
    Addresses     <- {"admin"},
    Signers       <- {"admin"},
    FirstAdmin    <- "admin",
    Upgrades      <- {},
    FirstCode     <- "v1",
    NoAddress     <- "none",
    admin         <- "admin",
    pending_admin <- "none",
    mortgage_pool <- "none",
    code          <- "v1",
    uploaded      <- {},
    scheduled     <- IF scheduled = NoAction THEN NoAction
                     ELSE [action |-> [kind |-> "SetGraceSecs", secs |-> scheduled.secs],
                           eta    |-> scheduled.eta]

-----------------------------------------------------------------------------
(* Properties.                                                             *)

\* Every loan, among everything else that goes on, is a loan of LoanLedger: it
\* starts as a facility nobody has drawn, each transaction is one of that
\* module's steps or leaves it alone, and its interest is the ideal ledger's.
\* What is proved of LoanLedger therefore holds of every loan.
\* (The conjunction of the loans' LedgerSpecs, in the form TLC checks.)
LoansFollowTheLedger ==
  /\ \A id \in 1..MaxLoans, f \in Facilities : LedgerOf(id, f)!LedgerInit
  /\ [][\A id \in 1..MaxLoans, f \in Facilities :
          \/ LedgerOf(id, f)!LedgerNext
          \/ UNCHANGED LedgerOf(id, f)!ledgerVars]_vars

\* Principal moves as the escrow says: deposits, withdrawals, commitments,
\* draws, payments and losses of different investors and loans, in any order,
\* never touch what is set aside for another loan, and no interest becomes
\* capital.
PrincipalIsInEscrow == TheEscrow!EscrowSpec

\* The grace period the loans are judged by is administered as Governance says:
\* it changes only to what waited out the timelock, while loans are drawn, paid
\* and defaulted under it.
GraceIsGoverned == TheGovernance!GovernanceSpec

=============================================================================
