----------------------- MODULE HomesRefinementProofs -----------------------
(***************************************************************************)
(* What StellarHomes implements, for any number of loans and investors,    *)
(* and what implements it.                                                 *)
(*                                                                         *)
(* Escrow: every transaction that moves principal is one of the escrow's   *)
(* steps, on the facility of the one loan it is about, and every other     *)
(* transaction leaves what the escrow sees as it was.                      *)
(* Governance: with one admin and no upgrades its timelock is that         *)
(* module's.                                                               *)
(* LoanLedger, loan by loan: this one needs to know, beside HomesInv, that *)
(* the due date of a loan and the time its interest is written up to are   *)
(* whole months after its first draw (ClockInv).                           *)
(* StorageLifetime implements StellarHomes: archival stops transactions,   *)
(* it changes none.                                                        *)
(***************************************************************************)
EXTENDS HomesRefinement, StorageLifetime, StellarHomesProofs

-----------------------------------------------------------------------------
(* Escrow.                                                                 *)

Held == [id \in 1..MaxLoans |-> FacilityOf(id)]

\* The ids in storage are names the escrow knows.
LEMMA IdsAreLoans ==
  ASSUME HomesInv
  PROVE  MortgageIds \subseteq 1..MaxLoans
  BY StellarHomesAssumption DEF HomesInv, HomesTypeOK, MortgageTypeOK

\* The record of what an open loan holds.
LEMMA Holdings ==
  ASSUME NEW id \in MortgageIds
  PROVE  /\ mortgages[id].status \in Drawing =>
              FacilityOf(id) = [undrawn |-> Undrawn(mortgages[id]),
                                out |-> mortgages[id].outstanding, lost |-> 0]
         /\ mortgages[id].status \in {"Applied", "PaidOff"} =>
              FacilityOf(id) = [undrawn |-> 0, out |-> 0, lost |-> 0]
         /\ mortgages[id].status = "Defaulted" =>
              FacilityOf(id) = [undrawn |-> 0, out |-> 0, lost |-> mortgages[id].outstanding]
  BY DEF FacilityOf, HasStatus, Drawing

\* The same, after a step that keeps the ids.
LEMMA HoldingsAfter ==
  ASSUME NEW id \in MortgageIds, MortgageIds' = MortgageIds
  PROVE  /\ mortgages'[id].status \in Drawing =>
              FacilityOf(id)' = [undrawn |-> Undrawn(mortgages'[id]),
                                 out |-> mortgages'[id].outstanding, lost |-> 0]
         /\ mortgages'[id].status \in {"Applied", "PaidOff"} =>
              FacilityOf(id)' = [undrawn |-> 0, out |-> 0, lost |-> 0]
         /\ mortgages'[id].status = "Defaulted" =>
              FacilityOf(id)' = [undrawn |-> 0, out |-> 0, lost |-> mortgages'[id].outstanding]
  BY DEF FacilityOf, HasStatus, Drawing, Undrawn

\* A step about one loan changes no other facility.
LEMMA OneFacilityMoves ==
  ASSUME HomesInv, NEW id \in MortgageIds, MovedFor(id)
  PROVE  Held' = [Held EXCEPT ![id] = FacilityOf(id)']
<1>1. ASSUME NEW j \in 1..MaxLoans, j # id PROVE FacilityOf(j)' = FacilityOf(j)
  BY <1>1 DEF MovedFor, FacilityOf, HasStatus, Undrawn
<1>2. id \in 1..MaxLoans
  BY IdsAreLoans
<1> QED
  BY <1>1, <1>2 DEF Held

\* Where the loans stay as they are, so do the facilities.
LEMMA FacilitiesStay ==
  ASSUME mortgages' = mortgages
  PROVE  Held' = Held
  BY DEF Held, FacilityOf, HasStatus, MortgageIds, Undrawn

\* A draw is DrawDown.
LEMMA DrawIsDrawDown ==
  ASSUME HomesInv, NEW id \in MortgageIds, MovedFor(id), Drawn(mortgages[id], mortgages'[id])
  PROVE  TheEscrow!DrawDown(id)
<1> DEFINE old == mortgages[id]
           new == mortgages'[id]
<1>1. PICK tranche \in 1..Undrawn(old) :
        Undrawn(new) = Undrawn(old) - tranche /\ new.outstanding = old.outstanding + tranche
  BY DEF Drawn
<1>2. old.status \in Drawing /\ new.status \in Drawing
  BY DEF Drawn, Drawing
<1>3. FacilityOf(id) = [undrawn |-> Undrawn(old), out |-> old.outstanding, lost |-> 0]
  BY <1>2, Holdings
<1>4. FacilityOf(id)' = [undrawn |-> Undrawn(new), out |-> new.outstanding, lost |-> 0]
  BY <1>2, HoldingsAfter DEF MovedFor
<1>5. FacilityOf(id)' = [FacilityOf(id) EXCEPT !.undrawn = @ - tranche, !.out = @ + tranche]
  <2>1. PICK a, b : a = Undrawn(old) /\ b = old.outstanding
    OBVIOUS
  <2>2. FacilityOf(id) = [undrawn |-> a, out |-> b, lost |-> 0]
    BY <1>3, <2>1
  <2>3. FacilityOf(id)' = [undrawn |-> a - tranche, out |-> b + tranche, lost |-> 0]
    BY <1>1, <1>4, <2>1
  <2> DEFINE r == FacilityOf(id)
  <2>4. r = [undrawn |-> a, out |-> b, lost |-> 0]
    BY <2>2
  <2> HIDE DEF r, old, new
  <2>5. [r EXCEPT !.undrawn = @ - tranche, !.out = @ + tranche] =
          [undrawn |-> a - tranche, out |-> b + tranche, lost |-> 0]
    <3>1. [r EXCEPT !.undrawn = r.undrawn - tranche] =
            [undrawn |-> a - tranche, out |-> b, lost |-> 0]
      BY <2>4
    <3>2. [[undrawn |-> a - tranche, out |-> b, lost |-> 0] EXCEPT !.out = r.out + tranche] =
            [undrawn |-> a - tranche, out |-> b + tranche, lost |-> 0]
      BY <2>4
    <3> QED
      BY <3>1, <3>2, Zenon
  <2> QED
    BY <2>3, <2>5 DEF r
<1>6. id \in 1..MaxLoans
  BY IdsAreLoans
<1>7. Held' = [Held EXCEPT ![id].undrawn = @ - tranche, ![id].out = @ + tranche]
  BY <1>5, <1>6, OneFacilityMoves DEF Held
<1>8. tranche \in 1..Held[id].undrawn
  BY <1>3, <1>6 DEF Held
<1>9. Free' = Free
  BY DEF Drawn
<1> QED
  BY <1>7, <1>8, <1>9 DEF TheEscrow!DrawDown, Held, Free

\* A payment is PayBack, the last one Close.
LEMMA PaymentIsPayBackOrClose ==
  ASSUME HomesInv, NEW id \in MortgageIds, MovedFor(id), Paid(mortgages[id], mortgages'[id])
  PROVE  TheEscrow!PayBack(id) \/ TheEscrow!Close(id)
<1> DEFINE old == mortgages[id]
           new == mortgages'[id]
<1>1. old.status \in Drawing /\ old.outstanding > 0
  BY DEF Paid, Drawing, Running
<1>2. FacilityOf(id) = [undrawn |-> Undrawn(old), out |-> old.outstanding, lost |-> 0]
  BY <1>1, Holdings
<1>3. id \in 1..MaxLoans /\ MortgageIds' = MortgageIds
  BY IdsAreLoans DEF MovedFor
<1>4. Held[id] = [undrawn |-> Undrawn(old), out |-> old.outstanding, lost |-> 0]
  BY <1>2, <1>3 DEF Held
<1>5. CASE new.status = "Repaying"
  <2>1. PICK amount \in 0..(old.outstanding - 1) :
          /\ Undrawn(new) = Undrawn(old) /\ new.outstanding = old.outstanding - amount
          /\ Free' = Free + amount
    BY <1>5 DEF Paid
  <2>2. FacilityOf(id)' = [undrawn |-> Undrawn(new), out |-> new.outstanding, lost |-> 0]
    BY <1>3, <1>5, HoldingsAfter DEF Drawing
  <2>3. FacilityOf(id)' = [FacilityOf(id) EXCEPT !.out = @ - amount]
    BY <1>2, <2>1, <2>2
  <2>4. Held' = [Held EXCEPT ![id].out = @ - amount]
    BY <1>3, <2>3, OneFacilityMoves DEF Held
  <2>5. TheEscrow!PayBack(id)
    <3>1. amount \in 0..(Held[id].out - 1)
      BY <1>4, <2>1
    <3> QED
      BY <2>1, <2>4, <3>1 DEF TheEscrow!PayBack, Held, Free
  <2> QED
    BY <2>5
<1>6. CASE new.status = "PaidOff"
  <2>1. Free' = Free + old.outstanding + Undrawn(old)
    BY <1>6 DEF Paid
  <2>2. FacilityOf(id)' = TheEscrow!NoFacility
    BY <1>3, <1>6, HoldingsAfter DEF TheEscrow!NoFacility
  <2>3. Held' = [Held EXCEPT ![id] = TheEscrow!NoFacility]
    BY <2>2, OneFacilityMoves
  <2>4. TheEscrow!Close(id)
    BY <1>1, <1>4, <2>1, <2>3 DEF TheEscrow!Close, Held, Free
  <2> QED
    BY <2>4
<1> QED
  BY <1>5, <1>6 DEF Paid

\* A default is Lose.
LEMMA DefaultIsLose ==
  ASSUME HomesInv, NEW id \in MortgageIds, MovedFor(id), Forfeited(mortgages[id], mortgages'[id])
  PROVE  TheEscrow!Lose(id)
<1> DEFINE old == mortgages[id]
           new == mortgages'[id]
<1>1. /\ old.status \in Drawing /\ old.outstanding > 0
      /\ new.status = "Defaulted" /\ new.outstanding = old.outstanding
      /\ Free' = Free + Undrawn(old)
  BY DEF Forfeited, Drawing, Running
<1>2. FacilityOf(id) = [undrawn |-> Undrawn(old), out |-> old.outstanding, lost |-> 0]
  BY <1>1, Holdings
<1>3. id \in 1..MaxLoans /\ MortgageIds' = MortgageIds
  BY IdsAreLoans DEF MovedFor
<1>4. Held[id] = [undrawn |-> Undrawn(old), out |-> old.outstanding, lost |-> 0]
  BY <1>2, <1>3 DEF Held
<1>5. FacilityOf(id)' = [undrawn |-> 0, out |-> 0, lost |-> new.outstanding]
  BY <1>1, <1>3, HoldingsAfter
<1>6. FacilityOf(id)' = [TheEscrow!NoFacility EXCEPT !.lost = Held[id].out]
  BY <1>1, <1>4, <1>5 DEF TheEscrow!NoFacility
<1>7. Held' = [Held EXCEPT ![id] = [TheEscrow!NoFacility EXCEPT !.lost = Held[id].out]]
  BY <1>6, OneFacilityMoves
<1> QED
  BY <1>1, <1>4, <1>7 DEF TheEscrow!Lose, Held, Free

\* An approval is Commit.
LEMMA ApprovalIsCommit ==
  ASSUME HomesInv, NEW underwriter, NEW id \in MortgageIds, Approve(underwriter, id),
         UNCHANGED total_capital
  PROVE  TheEscrow!Commit(id)
<1> DEFINE old == mortgages[id]
           new == [old EXCEPT !.status = "Approved"]
<1>1. /\ old.status = "Applied" /\ total_reserved' = total_reserved + old.principal
      /\ old.principal > 0 /\ old.principal <= total_capital - total_reserved
      /\ mortgages' = Put(mortgages, id, new)
  BY DEF Approve, HasStatus, Pool!Reserve, Pool!Available, Save
<1>2. old \in Mortgage /\ old.disbursed = 0 /\ old.outstanding = 0
  BY <1>1, LoanTypes DEF HomesInv, LoanOK, Signing
<1>3. new.status = "Approved" /\ Undrawn(new) = old.principal /\ new.outstanding = 0
  BY <1>2 DEF Mortgage, Undrawn
<1>4. mortgages'[id] = new /\ MovedFor(id)
  <2> DEFINE table == Put(mortgages, id, new)
  <2>1. /\ DOMAIN table = DOMAIN mortgages \cup {id} /\ table[id] = new
        /\ \A j \in DOMAIN mortgages \ {id} : table[j] = mortgages[j]
    BY DEF Put
  <2>2. mortgages' = table
    BY <1>1
  <2> HIDE DEF table, new
  <2> QED
    BY <2>1, <2>2 DEF MovedFor, MortgageIds
<1> HIDE DEF new
<1>5. FacilityOf(id) = TheEscrow!NoFacility
  BY <1>1, Holdings DEF TheEscrow!NoFacility
<1>6. MortgageIds' = MortgageIds
  BY <1>4 DEF MovedFor
<1>7. FacilityOf(id)' = [undrawn |-> old.principal, out |-> 0, lost |-> 0]
  <2>1. FacilityOf(id)' = [undrawn |-> Undrawn(mortgages'[id]),
                           out |-> mortgages'[id].outstanding, lost |-> 0]
    BY <1>3, <1>4, <1>6, HoldingsAfter DEF Drawing
  <2> QED
    BY <1>3, <1>4, <2>1
<1>8. id \in 1..MaxLoans
  BY IdsAreLoans
<1>9. Free \in Nat /\ old.principal \in Nat /\ Free' = Free - old.principal
  BY <1>1, <1>2 DEF HomesInv, BooksInv, Free, Mortgage
<1>10. Free' \in 0..(Free - 1) /\ old.principal = Free - Free'
  BY <1>1, <1>9 DEF Free
<1>11. FacilityOf(id)' = [FacilityOf(id) EXCEPT !.undrawn = Free - Free']
  BY <1>5, <1>7, <1>10 DEF TheEscrow!NoFacility
<1>12. Held' = [Held EXCEPT ![id].undrawn = Free - Free']
  BY <1>4, <1>8, <1>11, OneFacilityMoves DEF Held
<1>13. Held[id] = TheEscrow!NoFacility
  BY <1>5, <1>8 DEF Held
<1> QED
  BY <1>10, <1>12, <1>13 DEF TheEscrow!Commit, Held, Free

\* An application and a refusal hold nothing before or after.
LEMMA ApplicationsHoldNothing ==
  ASSUME HomesInv, HomesInv', ApplyTx \/ DeclineTx
  PROVE  Held' = Held /\ Free' = Free
<1>1. Free' = Free
  BY DEF ApplyTx, DeclineTx, poolVars, Free
<1>2. CASE ApplyTx
  <2>1. PICK p \in Registry!PropertyIds, f \in Facilities :
          Apply(p, f.principal, f.term_months, f.rate_bps)
    BY <1>2 DEF ApplyTx
  <2> DEFINE m == Application(p, f.principal, f.term_months, f.rate_bps)
             table == Put(mortgages, next_id, m)
  <2>2. mortgages' = table /\ m.status = "Applied" /\ next_id \notin MortgageIds
    BY <2>1 DEF Apply, Save, Application, HomesInv, HomesTypeOK, MortgageTypeOK
  <2>3. /\ DOMAIN table = DOMAIN mortgages \cup {next_id} /\ table[next_id] = m
        /\ \A j \in DOMAIN mortgages \ {next_id} : table[j] = mortgages[j]
    BY DEF Put
  <2> HIDE DEF table, m
  <2>4. /\ MortgageIds' = MortgageIds \cup {next_id} /\ mortgages'[next_id].status = "Applied"
        /\ \A j \in MortgageIds : mortgages'[j] = mortgages[j]
    BY <2>2, <2>3 DEF MortgageIds
  <2>5. \A j \in 1..MaxLoans : FacilityOf(j)' = FacilityOf(j)
    BY <2>2, <2>4 DEF FacilityOf, HasStatus, Undrawn
  <2> QED
    BY <1>1, <2>5 DEF Held
<1>3. CASE DeclineTx
  <2>1. PICK underwriter \in underwriters, id \in MortgageIds : Decline(underwriter, id)
    BY <1>3 DEF DeclineTx
  <2> DEFINE table == Remove(mortgages, id)
  <2>2. mortgages' = table /\ mortgages[id].status = "Applied"
    BY <2>1 DEF Decline, HasStatus
  <2>3. /\ DOMAIN table = DOMAIN mortgages \ {id}
        /\ \A j \in DOMAIN mortgages \ {id} : table[j] = mortgages[j]
    BY DEF Remove
  <2> HIDE DEF table
  <2>4. /\ MortgageIds' = MortgageIds \ {id}
        /\ \A j \in MortgageIds' : mortgages'[j] = mortgages[j]
    BY <2>2, <2>3 DEF MortgageIds
  <2>5. \A j \in 1..MaxLoans : FacilityOf(j)' = FacilityOf(j)
    BY <2>2, <2>4 DEF FacilityOf, HasStatus, Undrawn
  <2> QED
    BY <1>1, <2>5 DEF Held
<1> QED
  BY <1>2, <1>3

\* What investors bring and take is Fund and TakeOut.
LEMMA InvestorsFundAndTakeOut ==
  ASSUME HomesInv, DepositTx \/ WithdrawTx \/ ClaimTx
  PROVE  [TheEscrow!EscrowNext]_(TheEscrow!escrowVars)
<1>1. /\ total_capital \in Nat /\ total_reserved \in Nat /\ total_reserved <= total_capital
  BY DEF HomesInv, BooksInv
<1>2. Held' = Held
  BY FacilitiesStay DEF DepositTx, WithdrawTx, ClaimTx, mortgageVars, loanVars
<1>3. CASE DepositTx
  <2>1. PICK i \in Investors, amount \in Amounts : Pool!Deposit(i, amount)
    BY <1>3 DEF DepositTx, Pool!DepositTx
  <2>2. Free' > Free
    BY <1>1, <2>1, MortgagePoolAssumption DEF Pool!Deposit, Free
  <2> QED
    BY <1>2, <2>2 DEF TheEscrow!EscrowNext, TheEscrow!Fund, Held, Free
<1>4. CASE WithdrawTx
  <2>1. PICK i \in Investors, amount \in Amounts : Pool!Withdraw(i, amount)
    BY <1>4 DEF WithdrawTx, Pool!WithdrawTx
  <2>2. Free' \in 0..(Free - 1)
    BY <1>1, <2>1, MortgagePoolAssumption DEF Pool!Withdraw, Pool!Available, Free
  <2> QED
    BY <1>2, <2>2 DEF TheEscrow!EscrowNext, TheEscrow!TakeOut, Held, Free
<1>5. CASE ClaimTx
  <2>1. Free' = Free
    BY <1>5 DEF ClaimTx, Pool!ClaimInterestTx, Pool!ClaimInterest, Free
  <2> QED
    BY <1>2, <2>1 DEF TheEscrow!escrowVars, Held, Free
<1> QED
  BY <1>3, <1>4, <1>5

\* Every transaction is a step of the escrow, or none.
LEMMA EscrowStep ==
  ASSUME HomesInv, HomesInv', [Next]_vars
  PROVE  [TheEscrow!EscrowNext]_(TheEscrow!escrowVars)
<1>1. ASSUME NEW id \in MortgageIds,
             \/ TheEscrow!Commit(id) \/ TheEscrow!DrawDown(id) \/ TheEscrow!PayBack(id)
             \/ TheEscrow!Close(id) \/ TheEscrow!Lose(id)
      PROVE  TheEscrow!EscrowNext
  <2>1. id \in 1..MaxLoans
    BY IdsAreLoans
  <2> QED
    BY <1>1, <2>1 DEF TheEscrow!EscrowNext
<1>2. ASSUME Held' = Held, Free' = Free PROVE UNCHANGED TheEscrow!escrowVars
  BY <1>2 DEF TheEscrow!escrowVars, Held, Free
<1>3. CASE ApproveTx
  <2>1. PICK underwriter \in underwriters, id \in MortgageIds : Approve(underwriter, id)
    BY <1>3 DEF ApproveTx
  <2>2. UNCHANGED total_capital
    BY <1>3 DEF ApproveTx
  <2> QED
    BY <1>1, <2>1, <2>2, ApprovalIsCommit
<1>4. CASE DisburseTx
  <2>1. PICK id \in MortgageIds : DisburseLoan(id)
    BY <1>4 DEF DisburseTx
  <2>2. MovedFor(id) /\ Drawn(mortgages[id], mortgages'[id])
    BY <2>1, DisburseInv
  <2> QED
    BY <1>1, <2>2, DrawIsDrawDown
<1>5. CASE RepayTx
  <2>1. PICK id \in MortgageIds : RepayLoan(id)
    BY <1>5 DEF RepayTx
  <2>2. PICK amount \in Payments : Repay(id, amount)
    BY <2>1 DEF RepayLoan
  <2>3. MovedFor(id) /\ Paid(mortgages[id], mortgages'[id])
    BY <2>1, <2>2, RepayInv DEF RepayLoan
  <2> QED
    BY <1>1, <2>3, PaymentIsPayBackOrClose
<1>6. CASE MarkDefaultTx
  <2>1. PICK id \in MortgageIds : MarkDefaultLoan(id)
    BY <1>6 DEF MarkDefaultTx
  <2>2. MovedFor(id) /\ Forfeited(mortgages[id], mortgages'[id])
    BY <2>1, MarkDefaultInv
  <2> QED
    BY <1>1, <2>2, DefaultIsLose
<1>7. CASE ApplyTx \/ DeclineTx
  BY <1>2, <1>7, ApplicationsHoldNothing
<1>8. CASE DepositTx \/ WithdrawTx \/ ClaimTx
  BY <1>8, InvestorsFundAndTakeOut
<1>9. CASE \/ SubmitTx \/ EvidenceTx \/ OracleTx \/ RolesTx
           \/ GovernanceTx \/ Tick \/ UNCHANGED vars
  <2>1. mortgages' = mortgages /\ Free' = Free
    BY <1>9 DEF SubmitTx, EvidenceTx, OracleTx, RolesTx, GovernanceTx, Tick, vars,
                mortgageVars, loanVars, poolVars, Free
  <2> QED
    BY <1>2, <2>1, FacilitiesStay
<1> QED
  BY <1>3, <1>4, <1>5, <1>6, <1>7, <1>8, <1>9 DEF Next

\* "Committed money cannot be withdrawn": the three contracts together keep
\* every loan's principal as the escrow does.
THEOREM HomesImplementEscrow == Spec => PrincipalIsInEscrow
<1>1. Init => TheEscrow!EscrowInit
  <2> SUFFICES ASSUME Init PROVE TheEscrow!EscrowInit
    OBVIOUS
  <2>1. total_capital = 0 /\ total_reserved = 0 /\ mortgages = <<>>
    BY DEF Init, MortgageInit, Pool!PoolInit
  <2>2. \A id \in 1..MaxLoans : FacilityOf(id) = [undrawn |-> 0, out |-> 0, lost |-> 0]
    BY <2>1 DEF FacilityOf, HasStatus, MortgageIds
  <2> QED
    BY <2>1, <2>2 DEF TheEscrow!EscrowInit, TheEscrow!NoFacility
<1>2. HomesInv /\ HomesInv' /\ [Next]_vars => [TheEscrow!EscrowNext]_(TheEscrow!escrowVars)
  BY EscrowStep
<1> QED
  BY <1>1, <1>2, HomesInvariant, PTL
     DEF Spec, PrincipalIsInEscrow, TheEscrow!EscrowSpec

-----------------------------------------------------------------------------
(* Governance.                                                             *)

\* A scheduled grace period, as Governance records it.
Queued == IF scheduled = NoAction THEN NoAction
          ELSE [action |-> [kind |-> "SetGraceSecs", secs |-> scheduled.secs],
                eta    |-> scheduled.eta]

\* Every transaction is a step of Governance, or none.
LEMMA GovernanceStep ==
  ASSUME HomesInv, [Next]_vars
  PROVE  [TheGovernance!GovernanceNext]_(TheGovernance!governanceVars)
<1>1. scheduled \in [secs : Nat \ {0}, eta : Nat] \cup {NoAction}
  BY DEF HomesInv, HomesTypeOK, MortgageTypeOK
<1>2. "admin" \in {"admin"}
  OBVIOUS
<1>3. CASE GovernanceTx
  <2>1. now' = now
    BY <1>3 DEF GovernanceTx
  <2>2. ASSUME NEW address, NEW authorized, SetUnderwriter(address, authorized)
        PROVE  UNCHANGED TheGovernance!governanceVars
    BY <2>1, <2>2 DEF SetUnderwriter, TheGovernance!governanceVars, TheGovernance!handover,
                      TheGovernance!effects, TheGovernance!host
  <2>3. ASSUME NEW secs \in GraceChoices, ScheduleGrace(secs)
        PROVE  TheGovernance!GovernanceNext
    <3>0. secs \in Nat /\ now + TIMELOCK_SECS \in Nat
      BY MortgagePoolAssumption DEF HomesInv, HomesTypeOK
    <3> DEFINE action == [kind |-> "SetGraceSecs", secs |-> secs]
    <3>1. action \in TheGovernance!Actions
      BY DEF TheGovernance!Actions
    <3>2. /\ scheduled = NoAction /\ secs # 0 /\ now + TIMELOCK_SECS <= MAX_U64
          /\ scheduled' = [secs |-> secs, eta |-> now + TIMELOCK_SECS] /\ grace_secs' = grace_secs
      BY <2>3 DEF ScheduleGrace
    <3>3. scheduled' # NoAction
      BY <3>0, <3>2, HomesRefinementAssumption
    <3>4. Queued = NoAction /\ Queued' = [action |-> action, eta |-> now + TIMELOCK_SECS]
      BY <3>2, <3>3 DEF Queued
    <3>5. TheGovernance!ScheduleAction("admin", action)
      BY <2>1, <3>2, <3>4
         DEF TheGovernance!ScheduleAction, TheGovernance!RequireAdmin, TheGovernance!handover,
             TheGovernance!effects, TheGovernance!host, Queued
    <3> QED
      BY <1>2, <3>1, <3>5 DEF TheGovernance!GovernanceNext
  <2>4. ASSUME scheduled # NoAction
        PROVE  /\ Queued # NoAction /\ Queued.eta = scheduled.eta
               /\ Queued.action.kind = "SetGraceSecs" /\ Queued.action.secs = scheduled.secs
               /\ scheduled.secs # 0
    BY <1>1, <2>4, HomesRefinementAssumption DEF Queued
  <2>5. ASSUME ExecuteAction PROVE TheGovernance!GovernanceNext
    <3>1. /\ scheduled # NoAction /\ now >= scheduled.eta /\ scheduled' = NoAction
          /\ grace_secs' = scheduled.secs
      BY <2>5 DEF ExecuteAction
    <3>2. Queued' = NoAction
      BY <3>1 DEF Queued
    <3>3. TheGovernance!ExecuteAction("admin")
      BY <2>1, <2>4, <3>1, <3>2
         DEF TheGovernance!ExecuteAction, TheGovernance!RequireAdmin, TheGovernance!handover,
             TheGovernance!host, Queued
    <3> QED
      BY <1>2, <3>3 DEF TheGovernance!GovernanceNext, TheGovernance!OtherCalls
  <2>6. ASSUME CancelAction PROVE TheGovernance!GovernanceNext
    <3>1. scheduled # NoAction /\ scheduled' = NoAction /\ grace_secs' = grace_secs
      BY <2>6 DEF CancelAction
    <3>2. Queued' = NoAction
      BY <3>1 DEF Queued
    <3>3. TheGovernance!CancelAction("admin")
      BY <2>1, <2>4, <3>1, <3>2
         DEF TheGovernance!CancelAction, TheGovernance!RequireAdmin, TheGovernance!handover,
             TheGovernance!effects, TheGovernance!host, Queued
    <3> QED
      BY <1>2, <3>3 DEF TheGovernance!GovernanceNext, TheGovernance!OtherCalls
  <2> QED
    BY <1>3, <2>2, <2>3, <2>5, <2>6 DEF GovernanceTx
<1>4. CASE Tick
  <2>1. now < MaxTime /\ now' = now + 1 /\ scheduled' = scheduled /\ grace_secs' = grace_secs
    BY <1>4 DEF Tick, adminVars
  <2>2. TheGovernance!Tick
    BY <2>1 DEF TheGovernance!Tick, TheGovernance!handover, TheGovernance!effects
  <2> QED
    BY <2>2 DEF TheGovernance!GovernanceNext
<1>5. CASE UNCHANGED <<adminVars, now>>
  BY <1>5 DEF adminVars, TheGovernance!governanceVars, TheGovernance!handover,
              TheGovernance!effects, TheGovernance!host
<1>6. CASE \/ DepositTx \/ WithdrawTx \/ ClaimTx
           \/ SubmitTx \/ EvidenceTx \/ OracleTx \/ RolesTx
           \/ ApplyTx \/ ApproveTx \/ DeclineTx \/ DisburseTx \/ RepayTx \/ MarkDefaultTx
           \/ UNCHANGED vars
  <2>1. UNCHANGED <<adminVars, now>>
    BY <1>6 DEF DepositTx, WithdrawTx, ClaimTx, SubmitTx, EvidenceTx, OracleTx, RolesTx,
                ApplyTx, ApproveTx, DeclineTx, DisburseTx, DisburseLoan, RepayTx, RepayLoan,
                MarkDefaultTx, MarkDefaultLoan, vars, mortgageVars
  <2> QED
    BY <1>5, <2>1
<1> QED
  BY <1>3, <1>4, <1>6 DEF Next

\* The grace period loans are judged by obeys the timelock.
THEOREM HomesImplementGovernance == Spec => GraceIsGoverned
<1>1. Init => TheGovernance!GovernanceInit
  BY DEF Init, MortgageInit, TheGovernance!GovernanceInit
<1>2. HomesInv /\ [Next]_vars => [TheGovernance!GovernanceNext]_(TheGovernance!governanceVars)
  BY GovernanceStep
<1> QED
  BY <1>1, <1>2, HomesInvariant, PTL
     DEF Spec, GraceIsGoverned, TheGovernance!GovernanceSpec


-----------------------------------------------------------------------------
(* A loan as its ledger sees it: on property 1.                            *)

Seen(m) == [m EXCEPT !.property_id = 1]

\* Nothing but the property is hidden.
LEMMA SeenFields ==
  ASSUME NEW m \in Mortgage
  PROVE  /\ Seen(m) \in Mortgage
         /\ Seen(m).property_id = 1
         /\ Seen(m).principal = m.principal /\ Seen(m).term_months = m.term_months
         /\ Seen(m).rate_bps = m.rate_bps /\ Seen(m).status = m.status
         /\ Seen(m).disbursed = m.disbursed /\ Seen(m).outstanding = m.outstanding
         /\ Seen(m).interest_accrued = m.interest_accrued
         /\ Seen(m).interest_carry = m.interest_carry
         /\ Seen(m).total_repaid = m.total_repaid /\ Seen(m).interest_paid = m.interest_paid
         /\ Seen(m).payments_made = m.payments_made
         /\ Seen(m).last_accrued_at = m.last_accrued_at
         /\ Seen(m).next_payment_due = m.next_payment_due
  BY DEF Seen, Mortgage

\* What is read of a loan does not depend on its property.
LEMMA SeenReads ==
  ASSUME NEW m \in Mortgage
  PROVE  /\ \A stage : TrancheFor(Seen(m), stage) = TrancheFor(m, stage)
         /\ \A t, grace : IsInDefault(Seen(m), t, grace) = IsInDefault(m, t, grace)
         /\ \A amount : IsEnough(Seen(m), amount) = IsEnough(m, amount)
         /\ Payoff(Seen(m)) = Payoff(m)
         /\ IsCleared(Seen(m)) = IsCleared(m)
         /\ IsFirstDraw(Seen(m)) = IsFirstDraw(m)
         /\ FirstDraw(Seen(m)) = FirstDraw(m)
         /\ ChargedBy(Seen(m)) = ChargedBy(m)
<1>1. /\ Seen(m).principal = m.principal /\ Seen(m).term_months = m.term_months
      /\ Seen(m).disbursed = m.disbursed /\ Seen(m).outstanding = m.outstanding
      /\ Seen(m).interest_accrued = m.interest_accrued
      /\ Seen(m).interest_carry = m.interest_carry
      /\ Seen(m).interest_paid = m.interest_paid
      /\ Seen(m).payments_made = m.payments_made
      /\ Seen(m).next_payment_due = m.next_payment_due
  BY SeenFields
<1> QED
  BY <1>1, Zenon DEF TrancheFor, IsInDefault, IsEnough, InstalmentDue, Payoff, IsCleared, IsFirstDraw,
              FirstDraw, ChargedBy

\* Nor does what is written.
LEMMA SeenAccrue ==
  ASSUME NEW m \in Mortgage, NEW t
  PROVE  Accrue(Seen(m), t) = Seen(Accrue(m, t))
<1>1. /\ Seen(m).outstanding = m.outstanding /\ Seen(m).rate_bps = m.rate_bps
      /\ Seen(m).interest_accrued = m.interest_accrued
      /\ Seen(m).interest_carry = m.interest_carry
      /\ Seen(m).last_accrued_at = m.last_accrued_at
  BY SeenFields
<1>2. /\ OwesInterest(Seen(m), t) = OwesInterest(m, t)
      /\ MonthsSince(Seen(m), t) = MonthsSince(m, t)
      /\ \A n : Charge(Seen(m), n) = Charge(m, n)
  BY <1>1, Zenon DEF OwesInterest, MonthsSince, Charge
<1> DEFINE months == MonthsSince(m, t)
           charge == Charge(m, months)
           a == m.interest_accrued + charge \div ChargeDivisor
           c == charge % ChargeDivisor
           l == m.last_accrued_at + months * SECONDS_PER_MONTH
<1>3. /\ Accrue(m, t) = IF OwesInterest(m, t) THEN UpTo(m, a, c, l) ELSE m
      /\ Accrue(Seen(m), t) = IF OwesInterest(m, t) THEN UpTo(Seen(m), a, c, l) ELSE Seen(m)
  BY <1>1, <1>2 DEF Accrue, UpTo
<1> HIDE DEF a, c, l
<1>4. UpTo(Seen(m), a, c, l) = Seen(UpTo(m, a, c, l))
  BY DEF UpTo, Seen, Mortgage
<1> QED
  BY <1>3, <1>4

\* A change of status.
LEMMA SeenStatus ==
  ASSUME NEW m \in Mortgage, NEW status
  PROVE  [Seen(m) EXCEPT !.status = status] = Seen([m EXCEPT !.status = status])
  BY DEF Seen, Mortgage

\* A payment.
LEMMA SeenAfterPayment ==
  ASSUME NEW m \in Mortgage, NEW amount
  PROVE  AfterPayment(Seen(m), amount) = Seen(AfterPayment(m, amount))
<1> DEFINE a == m.interest_accrued - InterestPart(m, amount)
           o == m.outstanding - PrincipalPart(m, amount)
           r == m.total_repaid + amount
           i == m.interest_paid + InterestPart(m, amount)
           n == m.payments_made + 1
           d == m.next_payment_due + SECONDS_PER_MONTH
<1>1. /\ Seen(m).outstanding = m.outstanding /\ Seen(m).interest_accrued = m.interest_accrued
      /\ Seen(m).total_repaid = m.total_repaid /\ Seen(m).interest_paid = m.interest_paid
      /\ Seen(m).payments_made = m.payments_made
      /\ Seen(m).next_payment_due = m.next_payment_due
  BY SeenFields
<1>2. /\ InterestPart(Seen(m), amount) = InterestPart(m, amount)
      /\ PrincipalPart(Seen(m), amount) = PrincipalPart(m, amount)
  BY <1>1, Zenon DEF InterestPart, PrincipalPart
<1>3. /\ AfterPayment(m, amount) = WithPayment(m, a, o, r, i, n, d)
      /\ AfterPayment(Seen(m), amount) = WithPayment(Seen(m), a, o, r, i, n, d)
  BY <1>1, <1>2 DEF AfterPayment, WithPayment
<1> HIDE DEF a, o, r, i, n, d
<1>4. WithPayment(Seen(m), a, o, r, i, n, d) = Seen(WithPayment(m, a, o, r, i, n, d))
  BY DEF WithPayment, Seen, Mortgage
<1> QED
  BY <1>3, <1>4

\* A draw.
LEMMA SeenAfterDraw ==
  ASSUME NEW m \in Mortgage, NEW tranche, NEW t
  PROVE  AfterDraw(Seen(m), tranche, t) = Seen(AfterDraw(m, tranche, t))
<1> DEFINE grown(r) == [r EXCEPT !.disbursed = m.disbursed + tranche,
                                 !.outstanding = m.outstanding + tranche]
           started(r) == [grown(r) EXCEPT !.status = "Funded", !.last_accrued_at = t,
                                          !.next_payment_due = t + SECONDS_PER_MONTH]
<1>1. /\ Seen(m).disbursed = m.disbursed /\ Seen(m).outstanding = m.outstanding
  BY SeenFields
<1>2. IsFirstDraw(Seen(m)) = IsFirstDraw(m)
  BY <1>1 DEF IsFirstDraw
<1>3. /\ AfterDraw(m, tranche, t) = IF IsFirstDraw(m) THEN started(m) ELSE grown(m)
      /\ AfterDraw(Seen(m), tranche, t) =
           IF IsFirstDraw(m) THEN started(Seen(m)) ELSE grown(Seen(m))
  BY <1>1, <1>2 DEF AfterDraw
<1>4. grown(Seen(m)) = Seen(grown(m)) /\ started(Seen(m)) = Seen(started(m))
  BY DEF Seen, Mortgage
<1> HIDE DEF grown, started
<1> QED
  BY <1>3, <1>4

-----------------------------------------------------------------------------
(* The clock of a loan.                                                    *)

\* A loan in being was first drawn at a time its due date tells, and its
\* interest is written up to a whole number of months after that.
OnSchedule(m, t) ==
  /\ FirstDraw(m) \in 1..t
  /\ \E k \in Nat : m.last_accrued_at = FirstDraw(m) + k * SECONDS_PER_MONTH
  /\ m.last_accrued_at <= t

\* What it says of the loan's own clock.
LEMMA ClockRuns ==
  ASSUME NEW m \in Mortgage, NEW t \in Nat, OnSchedule(m, t)
  PROVE  m.last_accrued_at > 0 /\ FirstDraw(m) \in Nat /\ FirstDraw(m) >= 1
<1>1. PICK k \in Nat : m.last_accrued_at = FirstDraw(m) + k * SECONDS_PER_MONTH
  BY DEF OnSchedule
<1> DEFINE kS == k * SECONDS_PER_MONTH
           f == FirstDraw(m)
<1>2. kS \in Nat
  BY DivisorPositive
<1>3. f \in 1..t /\ m.last_accrued_at = f + kS
  BY <1>1 DEF OnSchedule
<1> HIDE DEF kS, f
<1>4. m.last_accrued_at > 0 /\ f \in Nat /\ f >= 1
  BY <1>2, <1>3
<1> QED
  BY <1>4 DEF f

\* Bringing it up to date leaves less than a month uncharged, so doing it
\* again at once changes nothing.
LEMMA Current ==
  ASSUME NEW m \in Mortgage, NEW t \in Nat, m.outstanding > 0, OnSchedule(m, t),
         NEW up, up = Accrue(m, t)
  PROVE  /\ up \in Mortgage
         /\ FirstDraw(up) = FirstDraw(m)
         /\ OnSchedule(up, t)
         /\ up.last_accrued_at <= t /\ t - up.last_accrued_at < SECONDS_PER_MONTH
         /\ Accrue(up, t) = up
         /\ ChargedBy(up) = ChargedBy(m) + m.outstanding * m.rate_bps * MonthsSince(m, t)
         /\ MonthsSince(m, t) \in Nat
<1> DEFINE S == SECONDS_PER_MONTH
           n == MonthsSince(m, t)
           f == FirstDraw(m)
<1>1. m.last_accrued_at > 0 /\ f \in Nat
  BY ClockRuns
<1>2. PICK k \in Nat : m.last_accrued_at = f + k * S
  BY DEF OnSchedule
<1>3. m.last_accrued_at <= t
  BY DEF OnSchedule
<1>4. PICK x \in Nat, c \in Nat, l \in Nat :
        /\ up = UpTo(m, x, c, l)
        /\ (x + m.interest_paid) * ChargeDivisor + c =
             ChargedBy(m) + m.outstanding * m.rate_bps * n
        /\ l = m.last_accrued_at + n * S
        /\ l <= t /\ t - l < S
        /\ n \in Nat
  BY <1>1, <1>3, AccrueOpen
<1>5. /\ up \in Mortgage
      /\ up.interest_accrued = x /\ up.interest_carry = c /\ up.last_accrued_at = l
      /\ up.interest_paid = m.interest_paid
      /\ up.disbursed = m.disbursed /\ up.payments_made = m.payments_made
      /\ up.next_payment_due = m.next_payment_due
  <2>1. /\ UpTo(m, x, c, l).interest_accrued = x /\ UpTo(m, x, c, l).interest_carry = c
        /\ UpTo(m, x, c, l).last_accrued_at = l
    BY DEF UpTo, Mortgage
  <2>2. /\ up.interest_accrued = x /\ up.interest_carry = c /\ up.last_accrued_at = l
    BY <1>4, <2>1, Zenon
  <2> QED
    BY <2>2, AccrueKeeps
<1>6. FirstDraw(up) = f
  BY <1>5, Zenon DEF FirstDraw
<1> HIDE DEF f
<1>7. l = f + (k + n) * S
  <2>1. S \in Nat
    BY DivisorPositive
  <2>2. n \in Nat /\ l = f + k * S + n * S
    BY <1>2, <1>4
  <2> HIDE DEF n, S
  <2>3. (k + n) * S = k * S + n * S /\ k * S \in Int /\ n * S \in Int
    BY <2>1, <2>2
  <2> QED
    BY <1>1, <2>2, <2>3
<1>8. k + n \in Nat
  BY <1>4
<1>9. OnSchedule(up, t)
  <2>1. f \in 1..t
    BY DEF OnSchedule, f
  <2> HIDE DEF n
  <2> QED
    BY <1>4, <1>5, <1>6, <1>7, <1>8, <2>1 DEF OnSchedule
<1>10. up.last_accrued_at <= t /\ t - up.last_accrued_at < S
  BY <1>4, <1>5
<1>11. Accrue(up, t) = up
  BY <1>5, <1>10, NoMonth
<1>12. ChargedBy(up) = ChargedBy(m) + m.outstanding * m.rate_bps * n
  BY <1>4, <1>5 DEF ChargedBy
<1> QED
  BY <1>4, <1>5, <1>6, <1>9, <1>10, <1>11, <1>12 DEF f

\* What a draw leaves: m is the loan with its interest brought up to date.
LEMMA DrawnOnSchedule ==
  ASSUME NEW m \in Mortgage, NEW t \in Nat \ {0}, NEW tranche \in Nat, tranche > 0,
         NEW new, new = AfterDraw(m, tranche, t),
         IF IsFirstDraw(m)
         THEN /\ m.outstanding = 0 /\ m.interest_accrued = 0 /\ m.interest_carry = 0
              /\ m.interest_paid = 0 /\ m.payments_made = 0
         ELSE /\ m.status \in Running /\ OnSchedule(m, t)
              /\ t - m.last_accrued_at < SECONDS_PER_MONTH
  PROVE  /\ new \in Mortgage /\ new.status \in Running /\ new.outstanding > 0
         /\ OnSchedule(new, t) /\ Accrue(new, t) = new
         /\ ChargedBy(new) = ChargedBy(m)
         /\ FirstDraw(new) = IF IsFirstDraw(m) THEN t ELSE FirstDraw(m)
<1>1. DrawnFrom(new, m, tranche, t)
  BY DrawResult
<1>2. /\ new \in Mortgage
      /\ new.disbursed = m.disbursed + tranche /\ new.outstanding = m.outstanding + tranche
      /\ new.interest_accrued = m.interest_accrued
      /\ new.interest_carry = m.interest_carry /\ new.interest_paid = m.interest_paid
      /\ new.payments_made = m.payments_made
  BY <1>1 DEF DrawnFrom
<1>3. m.disbursed \in Nat /\ m.outstanding \in Nat /\ SECONDS_PER_MONTH \in Nat \ {0}
  BY DivisorPositive DEF Mortgage
<1>4. new.disbursed > 0 /\ new.outstanding > 0
  BY <1>2, <1>3
<1>5. ChargedBy(new) = ChargedBy(m)
  BY <1>2 DEF ChargedBy
<1>6. CASE IsFirstDraw(m)
  <2>1. /\ new.status = "Funded" /\ new.last_accrued_at = t
        /\ new.next_payment_due = t + SECONDS_PER_MONTH /\ new.payments_made = 0
    BY <1>1, <1>2, <1>6 DEF DrawnFrom
  <2>2. FirstDraw(new) = t
    <3>0. FirstDraw(new) =
            new.next_payment_due - (new.payments_made + 1) * SECONDS_PER_MONTH
      BY <1>4 DEF FirstDraw
    <3>1. FirstDraw(new) = t + SECONDS_PER_MONTH - (0 + 1) * SECONDS_PER_MONTH
      BY <1>3, <2>1, <3>0
    <3>2. (0 + 1) * SECONDS_PER_MONTH = SECONDS_PER_MONTH
      BY <1>3
    <3> QED
      BY <1>3, <3>1, <3>2
  <2>3. t = t + 0 * SECONDS_PER_MONTH
    BY <1>3
  <2>4. OnSchedule(new, t)
    BY <2>1, <2>2, <2>3 DEF OnSchedule
  <2>5. Accrue(new, t) = new
    BY <1>2, <1>3, <2>1, NoMonth
  <2> QED
    BY <1>2, <1>4, <1>5, <1>6, <2>1, <2>2, <2>4, <2>5 DEF Running
<1>7. CASE ~IsFirstDraw(m)
  <2>1. /\ new.status = m.status /\ new.last_accrued_at = m.last_accrued_at
        /\ new.next_payment_due = m.next_payment_due
    BY <1>1, <1>7 DEF DrawnFrom
  <2>2. m.disbursed > 0
    BY <1>3, <1>7 DEF IsFirstDraw
  <2>3. FirstDraw(new) = FirstDraw(m)
    BY <1>2, <1>4, <2>1, <2>2, Zenon DEF FirstDraw
  <2>4. OnSchedule(new, t)
    BY <1>7, <2>1, <2>3 DEF OnSchedule
  <2>5. Accrue(new, t) = new
    BY <1>2, <1>7, <2>1, NoMonth DEF OnSchedule
  <2> QED
    BY <1>2, <1>4, <1>5, <1>7, <2>1, <2>3, <2>4, <2>5
<1> QED
  BY <1>6, <1>7

\* What a payment leaves.
LEMMA PaidOnSchedule ==
  ASSUME NEW m \in Mortgage, NEW t \in Nat, m.disbursed > 0, OnSchedule(m, t),
         t - m.last_accrued_at < SECONDS_PER_MONTH, NEW after, PaidFrom(after, m)
  PROVE  /\ after.status \in Running
         /\ OnSchedule(after, t) /\ Accrue(after, t) = after
         /\ ChargedBy(after) = ChargedBy(m)
         /\ FirstDraw(after) = FirstDraw(m)
<1>1. /\ after \in Mortgage /\ after.status = "Repaying"
      /\ after.interest_accrued = 0 /\ after.interest_carry = m.interest_carry
      /\ after.interest_paid = m.interest_paid + m.interest_accrued
      /\ after.disbursed = m.disbursed
      /\ after.payments_made = m.payments_made + 1
      /\ after.next_payment_due = m.next_payment_due + SECONDS_PER_MONTH
      /\ after.last_accrued_at = m.last_accrued_at
  BY DEF PaidFrom
<1>2. FirstDraw(after) = FirstDraw(m)
  <2> DEFINE S == SECONDS_PER_MONTH
             n == m.payments_made
             d == m.next_payment_due
  <2>1. S \in Nat /\ n \in Nat /\ d \in Nat
    BY DivisorPositive DEF Mortgage
  <2>2. /\ FirstDraw(m) = d - (n + 1) * S
        /\ FirstDraw(after) = (d + S) - (n + 1 + 1) * S
    BY <1>1 DEF FirstDraw
  <2> HIDE DEF S, n, d
  <2>3. (n + 1 + 1) * S = (n + 1) * S + S /\ (n + 1) * S \in Int
    BY <2>1
  <2> QED
    BY <2>1, <2>2, <2>3
<1>3. OnSchedule(after, t)
  BY <1>1, <1>2 DEF OnSchedule
<1>4. Accrue(after, t) = after
  BY <1>1, NoMonth DEF OnSchedule
<1>5. ChargedBy(after) = ChargedBy(m)
  <2>1. m.interest_paid \in Nat /\ m.interest_accrued \in Nat
    BY DEF Mortgage
  <2>2. after.interest_accrued + after.interest_paid = m.interest_accrued + m.interest_paid
    BY <1>1, <2>1
  <2> QED
    BY <1>1, <2>2 DEF ChargedBy
<1> QED
  BY <1>1, <1>2, <1>3, <1>4, <1>5 DEF Running

\* What the passing of a second adds to the interest not yet written.
LEMMA TickOnSchedule ==
  ASSUME NEW m \in Mortgage, NEW t \in Nat, m.outstanding > 0, OnSchedule(m, t),
         NEW u, u = t + 1, NEW f, f = FirstDraw(m), NEW x, x = m.outstanding * m.rate_bps
  PROVE  /\ OnSchedule(m, u)
         /\ ChargedBy(Accrue(m, u)) =
              IF u > f /\ (u - f) % SECONDS_PER_MONTH = 0
              THEN ChargedBy(Accrue(m, t)) + x ELSE ChargedBy(Accrue(m, t))
<1> DEFINE n == MonthsSince(m, t)
           ends == (u - f) % SECONDS_PER_MONTH = 0
<1>1. f \in Nat /\ f <= t /\ m.last_accrued_at <= t
  BY ClockRuns DEF OnSchedule
<1>2. PICK k \in Nat : m.last_accrued_at = f + k * SECONDS_PER_MONTH
  BY DEF OnSchedule
<1>3. OnSchedule(m, u)
  <2>1. f \in 1..u /\ m.last_accrued_at <= u
    BY <1>1, ClockRuns DEF Mortgage
  <2> QED
    BY <1>2, <2>1 DEF OnSchedule
<1>4. MonthsSince(m, u) = n + (IF ends THEN 1 ELSE 0)
  BY <1>1, <1>2, MonthEnding
<1>5. u > f /\ u \in Nat
  BY <1>1
<1>6. /\ ChargedBy(Accrue(m, t)) = ChargedBy(m) + x * n /\ n \in Nat
      /\ ChargedBy(Accrue(m, u)) = ChargedBy(m) + x * MonthsSince(m, u)
  BY <1>3, <1>5, Current
<1>7. ChargedBy(m) \in Int /\ x \in Int
  <2>1. /\ m.interest_accrued + m.interest_paid \in Int
        /\ m.interest_carry \in Int /\ x \in Int
    BY DEF Mortgage
  <2>2. (m.interest_accrued + m.interest_paid) * ChargeDivisor \in Int
    BY <2>1, DivisorPositive
  <2> QED
    BY <2>1, <2>2 DEF ChargedBy
<1>8. ChargedBy(Accrue(m, u)) =
        IF ends THEN ChargedBy(Accrue(m, t)) + x ELSE ChargedBy(Accrue(m, t))
  <2> DEFINE c == ChargedBy(m)
             before == ChargedBy(Accrue(m, t))
             after == ChargedBy(Accrue(m, u))
             months == MonthsSince(m, u)
  <2>1. /\ before = c + x * n /\ after = c + x * months /\ months = n + (IF ends THEN 1 ELSE 0)
        /\ c \in Int /\ x \in Int /\ n \in Nat
    BY <1>4, <1>6, <1>7
  <2> HIDE DEF c, before, after, months, n, ends
  <2>2. x * (n + 1) = x * n + x /\ x * n \in Int
    BY <2>1
  <2>3. after = IF ends THEN before + x ELSE before
    BY <2>1, <2>2
  <2> QED
    BY <2>3 DEF before, after
<1>9. ChargedBy(Accrue(m, u)) =
        IF u > f /\ ends THEN ChargedBy(Accrue(m, t)) + x ELSE ChargedBy(Accrue(m, t))
  BY <1>5, <1>8
<1> HIDE DEF n
<1> QED
  BY <1>3, <1>9

-----------------------------------------------------------------------------
(* The loans of the three contracts, each against its own ledger.          *)

\* An application and an approved loan are as apply left them, a running one
\* is on schedule.
ClockOK(m, t) ==
  /\ m.status \in Signing =>
       m = [Application(m.property_id, m.principal, m.term_months, m.rate_bps)
              EXCEPT !.status = m.status]
  /\ m.status \in Running => OnSchedule(m, t)

\* And the grace period in force, or about to be, is one of those chosen.
ClockInv ==
  /\ \A id \in MortgageIds : ClockOK(mortgages[id], now)
  /\ grace_secs \in GraceChoices \cup {FirstGrace}
  /\ scheduled # NoAction => scheduled.secs \in GraceChoices

\* A loan approved and not yet drawn, and one nobody can draw as the ledger
\* of a facility sees it.
Approved(p, principal, term_months, rate_bps) ==
  [Application(p, principal, term_months, rate_bps) EXCEPT !.status = "Approved"]

Undrawable(f) == Approved(1, f.principal, f.term_months, f.rate_bps)

\* A step of the ledger of loan id on facility f, or none.
LoanStep(id, f) ==
  LedgerOf(id, f)!LedgerNext \/ UNCHANGED LedgerOf(id, f)!ledgerVars

\* The ledger reckons as the code does.
LEMMA SameArithmetic ==
  ASSUME NEW id, NEW f, NEW m, NEW t, NEW x, NEW y
  PROVE  /\ LedgerOf(id, f)!Accrue(m, t) = Accrue(m, t)
         /\ LedgerOf(id, f)!AfterDraw(m, x, t) = AfterDraw(m, x, t)
         /\ LedgerOf(id, f)!AfterPayment(m, x) = AfterPayment(m, x)
         /\ LedgerOf(id, f)!TrancheFor(m, x) = TrancheFor(m, x)
         /\ LedgerOf(id, f)!IsFirstDraw(m) = IsFirstDraw(m)
         /\ LedgerOf(id, f)!IsCleared(m) = IsCleared(m)
         /\ LedgerOf(id, f)!IsEnough(m, x) = IsEnough(m, x)
         /\ LedgerOf(id, f)!Payoff(m) = Payoff(m)
         /\ LedgerOf(id, f)!Smaller(x, y) = Smaller(x, y)
         /\ LedgerOf(id, f)!IsInDefault(m, t, x) = IsInDefault(m, t, x)
<1>1. /\ LedgerOf(id, f)!MonthsSince(m, t) = MonthsSince(m, t)
      /\ LedgerOf(id, f)!ChargeDivisor = ChargeDivisor
      /\ \A n : LedgerOf(id, f)!Charge(m, n) = Charge(m, n)
      /\ \A a, b : LedgerOf(id, f)!Smaller(a, b) = Smaller(a, b)
      /\ LedgerOf(id, f)!IsFirstDraw(m) = IsFirstDraw(m)
      /\ LedgerOf(id, f)!IsCleared(m) = IsCleared(m)
      /\ LedgerOf(id, f)!Payoff(m) = Payoff(m)
      /\ LedgerOf(id, f)!TrancheFor(m, x) = TrancheFor(m, x)
      /\ LedgerOf(id, f)!IsInDefault(m, t, x) = IsInDefault(m, t, x)
  BY DEF LedgerOf!MonthsSince, MonthsSince, LedgerOf!ChargeDivisor, ChargeDivisor,
         LedgerOf!Charge, Charge, LedgerOf!Smaller, Smaller, LedgerOf!IsFirstDraw, IsFirstDraw,
         LedgerOf!IsCleared, IsCleared, LedgerOf!Payoff, Payoff, LedgerOf!TrancheFor, TrancheFor,
         LedgerOf!IsInDefault, IsInDefault
<1>2. LedgerOf(id, f)!OwesInterest(m, t) = OwesInterest(m, t)
  BY <1>1 DEF LedgerOf!OwesInterest, OwesInterest
<1>3. LedgerOf(id, f)!Accrue(m, t) = Accrue(m, t)
  BY <1>1, <1>2 DEF LedgerOf!Accrue, Accrue
<1>4. /\ LedgerOf(id, f)!InterestPart(m, x) = InterestPart(m, x)
      /\ LedgerOf(id, f)!InstalmentDue(m) = InstalmentDue(m)
  BY <1>1 DEF LedgerOf!InterestPart, InterestPart, LedgerOf!InstalmentDue, InstalmentDue
<1>5. LedgerOf(id, f)!PrincipalPart(m, x) = PrincipalPart(m, x)
  BY <1>4 DEF LedgerOf!PrincipalPart, PrincipalPart
<1>6. LedgerOf(id, f)!AfterPayment(m, x) = AfterPayment(m, x)
  BY <1>4, <1>5 DEF LedgerOf!AfterPayment, AfterPayment
<1>7. LedgerOf(id, f)!AfterDraw(m, x, t) = AfterDraw(m, x, t)
  BY <1>1 DEF LedgerOf!AfterDraw, AfterDraw
<1>8. LedgerOf(id, f)!IsEnough(m, x) = IsEnough(m, x)
  BY <1>1, <1>4 DEF LedgerOf!IsEnough, IsEnough
<1> QED
  BY <1>1, <1>3, <1>6, <1>7, <1>8

\* What the ledger of a loan sees of it, before and after a step.
LEMMA LoanView ==
  ASSUME NEW id, NEW f
  PROVE  /\ LoanOf(id, f) = IF IsLoanOf(id, f) THEN Seen(mortgages[id]) ELSE Undrawable(f)
         /\ LoanOf(id, f)' = IF IsLoanOf(id, f)' THEN Seen(mortgages'[id]) ELSE Undrawable(f)
         /\ DrawnBy(id, f) = IF IsLoanOf(id, f) THEN StagesReleased(mortgages[id].property_id)
                                                ELSE {}
         /\ DrawnBy(id, f)' = IF IsLoanOf(id, f)'
                              THEN StagesReleased(mortgages[id].property_id)' ELSE {}
  BY DEF LoanOf, DrawnBy, Seen, Undrawable, Approved

\* What it has been charged, before and after.
LEMMA ChargedView ==
  ASSUME NEW id, NEW f
  PROVE  /\ ChargedTo(LoanOf(id, f)) =
              ChargedBy(IF LoanOf(id, f).status \in Running THEN Accrue(LoanOf(id, f), now)
                                                           ELSE LoanOf(id, f))
         /\ ChargedTo(LoanOf(id, f))' =
              ChargedBy(IF LoanOf(id, f)'.status \in Running THEN Accrue(LoanOf(id, f)', now')
                                                            ELSE LoanOf(id, f)')
  BY DEF ChargedTo, ChargedBy, Running

\* A loan that looks the same has not moved.
LEMMA Unmoved ==
  ASSUME NEW id, NEW f, LoanOf(id, f)' = LoanOf(id, f), DrawnBy(id, f)' = DrawnBy(id, f),
         now' = now
  PROVE  LoanStep(id, f)
<1>1. FirstDraw(LoanOf(id, f))' = FirstDraw(LoanOf(id, f))
  BY DEF FirstDraw
<1>2. ChargedTo(LoanOf(id, f))' = ChargedTo(LoanOf(id, f))
  BY ChargedView
<1>3. UNCHANGED LedgerOf(id, f)!ledgerVars
  BY <1>1, <1>2 DEF LedgerOf!ledgerVars
<1> QED
  BY <1>3 DEF LoanStep

\* A transaction about one loan moves no other.
LEMMA OthersUnmoved ==
  ASSUME HomesInv, NEW id \in MortgageIds, MovedFor(id), now' = now,
         \A q \in Registry!PropertyIds \ {mortgages[id].property_id} :
           StagesReleased(q)' = StagesReleased(q),
         NEW j, j # id, NEW f
  PROVE  LoanStep(j, f)
<1>1. CASE j \in MortgageIds
  <2>1. mortgages'[j] = mortgages[j] /\ j \in MortgageIds'
    BY <1>1 DEF MovedFor
  <2>2. IsLoanOf(j, f)' <=> IsLoanOf(j, f)
    BY <1>1, <2>1 DEF IsLoanOf
  <2> DEFINE q == mortgages[j].property_id
  <2>3. q \in Registry!PropertyIds \ {mortgages[id].property_id}
    BY <1>1 DEF HomesInv, LoansInv
  <2>4. StagesReleased(q)' = StagesReleased(q)
    <3> DEFINE others == Registry!PropertyIds \ {mortgages[id].property_id}
    <3>1. \A r \in others : StagesReleased(r)' = StagesReleased(r)
      OBVIOUS
    <3> QED
      BY <2>1, <2>3 DEF StagesReleased
  <2> QED
    BY <2>1, <2>2, <2>4, LoanView, Unmoved
<1>2. CASE j \notin MortgageIds
  <2>1. ~IsLoanOf(j, f) /\ ~IsLoanOf(j, f)'
    BY <1>2 DEF IsLoanOf, MovedFor
  <2> QED
    BY <2>1, LoanView, Unmoved
<1> QED
  BY <1>1, <1>2

\* Where the loans, the stages and the clock stay, no loan moves.
LEMMA NoneMoves ==
  ASSUME HomesInv, UNCHANGED <<mortgages, now>>,
         \A q \in Registry!PropertyIds : StagesReleased(q)' = StagesReleased(q),
         NEW id, NEW f
  PROVE  LoanStep(id, f)
<1>1. IsLoanOf(id, f)' <=> IsLoanOf(id, f)
  BY DEF IsLoanOf, MortgageIds
<1>2. ASSUME IsLoanOf(id, f)
      PROVE  StagesReleased(mortgages[id].property_id)' = StagesReleased(mortgages[id].property_id)
  <2>1. mortgages[id].property_id \in Registry!PropertyIds
    BY <1>2 DEF IsLoanOf, HomesInv, LoansInv
  <2> QED
    BY <2>1 DEF StagesReleased
<1> QED
  BY <1>1, <1>2, LoanView, Unmoved

\* The loan a transaction is about: if it is on the facility, the ledger sees
\* what became of it.
LEMMA MovedView ==
  ASSUME HomesInv, NEW id \in MortgageIds, MovedFor(id),
         mortgages[id].status \notin Unsigned, mortgages'[id].status \notin Unsigned,
         mortgages'[id].principal = mortgages[id].principal,
         mortgages'[id].term_months = mortgages[id].term_months,
         mortgages'[id].rate_bps = mortgages[id].rate_bps,
         now' = now, NEW f
  PROVE  \/ LoanStep(id, f)
         \/ /\ LoanOf(id, f) = Seen(mortgages[id]) /\ LoanOf(id, f)' = Seen(mortgages'[id])
            /\ DrawnBy(id, f) = StagesReleased(mortgages[id].property_id)
            /\ DrawnBy(id, f)' = StagesReleased(mortgages[id].property_id)'
<1>1. IsLoanOf(id, f)' <=> IsLoanOf(id, f)
  BY DEF IsLoanOf, MovedFor
<1>2. CASE IsLoanOf(id, f)
  BY <1>1, <1>2, LoanView
<1>3. CASE ~IsLoanOf(id, f)
  <2>1. LoanOf(id, f)' = LoanOf(id, f) /\ DrawnBy(id, f)' = DrawnBy(id, f)
    BY <1>1, <1>3, LoanView
  <2> QED
    BY <2>1, Unmoved
<1> QED
  BY <1>2, <1>3

\* What is written to storage is what is read there.
LEMMA Saved ==
  ASSUME NEW id, NEW m, mortgages' = Put(mortgages, id, m)
  PROVE  mortgages'[id] = m
<1> DEFINE table == Put(mortgages, id, m)
<1>1. table[id] = m
  BY DEF Put
<1>2. mortgages' = table
  OBVIOUS
<1> HIDE DEF table
<1> QED
  BY <1>1, <1>2

\* Of a running loan: what HomesInv and ClockInv say.
LEMMA RunningLoan ==
  ASSUME HomesInv, ClockInv, NEW id \in MortgageIds, mortgages[id].status \in Running
  PROVE  /\ mortgages[id] \in Mortgage /\ now \in Nat \ {0}
         /\ mortgages[id].disbursed > 0 /\ mortgages[id].outstanding > 0
         /\ OnSchedule(mortgages[id], now)
<1>1. LoanOK(mortgages[id], properties[mortgages[id].property_id].status,
             StagesReleased(mortgages[id].property_id))
      /\ mortgages[id] \in Mortgage
  BY LoanTypes DEF HomesInv
<1> QED
  BY <1>1 DEF LoanOK, ClockInv, ClockOK, HomesInv, HomesTypeOK

\* What a loan has been charged does not depend on its property.
LEMMA SeenCharged ==
  ASSUME NEW m \in Mortgage, NEW t \in Nat
  PROVE  ChargedBy(IF Seen(m).status \in Running THEN Accrue(Seen(m), t) ELSE Seen(m)) =
           ChargedBy(IF m.status \in Running THEN Accrue(m, t) ELSE m)
<1>1. Seen(m).status = m.status /\ Accrue(Seen(m), t) = Seen(Accrue(m, t))
  BY SeenFields, SeenAccrue
<1>2. Accrue(m, t) \in Mortgage
  BY AccrueKeeps
<1>3. ChargedBy(Seen(m)) = ChargedBy(m) /\ ChargedBy(Seen(Accrue(m, t))) = ChargedBy(Accrue(m, t))
  BY <1>2, SeenReads
<1> QED
  BY <1>1, <1>3

\* A payment: the record it leaves, and the loan's own step.
LEMMA PaymentFollows ==
  ASSUME HomesInv, ClockInv, NEW id \in MortgageIds, RepayLoan(id)
  PROVE  /\ ClockOK(mortgages'[id], now)
         /\ \A j, f : LoanStep(j, f)
<1> DEFINE old == mortgages[id]
           m == Accrue(old, now)
<1>1. PICK amount \in Payments : Repay(id, amount)
  BY DEF RepayLoan
<1> DEFINE paid == Smaller(amount, Payoff(m))
           after == AfterPayment(m, paid)
           closed == [after EXCEPT !.status = "PaidOff"]
           new == mortgages'[id]
<1>2. /\ old.status \in Running /\ amount > 0 /\ IsEnough(m, amount)
      /\ mortgages' = Put(mortgages, id, IF IsCleared(after) THEN closed ELSE after)
      /\ now' = now /\ milestones' = milestones
  BY <1>1 DEF RepayLoan, Repay, HasStatus, Running, Save
<1>3. new = IF IsCleared(after) THEN closed ELSE after
  BY <1>2, Saved
<1>4. MovedFor(id)
  BY <1>1, RepayInv DEF RepayLoan
<1>5. /\ old \in Mortgage /\ now \in Nat /\ old.disbursed > 0 /\ old.outstanding > 0
      /\ OnSchedule(old, now)
  BY <1>2, RunningLoan
<1>6. amount \in Nat
  BY <1>2, StellarHomesAssumption
<1> HIDE DEF old
<1>7. /\ m \in Mortgage /\ FirstDraw(m) = FirstDraw(old) /\ OnSchedule(m, now)
      /\ now - m.last_accrued_at < SECONDS_PER_MONTH
  BY <1>5, Current
<1>8. /\ m.disbursed = old.disbursed /\ m.principal = old.principal
      /\ m.term_months = old.term_months /\ m.rate_bps = old.rate_bps
      /\ m.property_id = old.property_id
  BY <1>5, AccrueKeeps
<1> HIDE DEF m
<1>9. PaidFrom(after, m)
  BY <1>2, <1>6, <1>7, PaymentResult
<1> HIDE DEF after
<1>10. /\ after \in Mortgage /\ after.status = "Repaying"
       /\ after.principal = old.principal /\ after.term_months = old.term_months
       /\ after.rate_bps = old.rate_bps
  BY <1>8, <1>9, <1>7 DEF PaidFrom
<1>11. /\ closed \in Mortgage /\ closed.status = "PaidOff"
       /\ closed.principal = after.principal /\ closed.term_months = after.term_months
       /\ closed.rate_bps = after.rate_bps /\ closed.property_id = after.property_id
       /\ closed.disbursed = after.disbursed /\ closed.payments_made = after.payments_made
       /\ closed.next_payment_due = after.next_payment_due
       /\ ChargedBy(closed) = ChargedBy(after)
  BY <1>10, StatusOnly DEF Mortgage, MortgageStatus
<1> HIDE DEF closed
<1>12. FirstDraw(closed) = FirstDraw(after)
  BY <1>11, Zenon DEF FirstDraw
<1>13. /\ after.status \in Running /\ OnSchedule(after, now) /\ Accrue(after, now) = after
       /\ ChargedBy(after) = ChargedBy(m) /\ FirstDraw(after) = FirstDraw(m)
  <2>1. m.disbursed > 0
    BY <1>5, <1>8
  <2> QED
    BY <1>5, <1>7, <1>9, <2>1, PaidOnSchedule
<1>14. /\ new \in Mortgage /\ FirstDraw(new) = FirstDraw(old)
       /\ new.principal = old.principal /\ new.term_months = old.term_months
       /\ new.rate_bps = old.rate_bps /\ new.property_id = old.property_id
       /\ new.status \in {"Repaying", "PaidOff"}
       /\ ChargedBy(IF new.status \in Running THEN Accrue(new, now) ELSE new) = ChargedBy(m)
  BY <1>3, <1>7, <1>8, <1>9, <1>10, <1>11, <1>12, <1>13 DEF PaidFrom, Running
<1>15. ClockOK(new, now)
  BY <1>3, <1>11, <1>10, <1>13 DEF ClockOK, Signing, Running
<1>16. StagesReleased(old.property_id)' = StagesReleased(old.property_id)
  BY <1>2, <1>14 DEF StagesReleased, Registry!Stages, old
<1> HIDE DEF new
<1>17. ASSUME NEW f PROVE LoanStep(id, f)
  <2> DEFINE loan == LoanOf(id, f)
  <2>1. CASE /\ loan = Seen(old) /\ loan' = Seen(mortgages'[id])
             /\ DrawnBy(id, f) = StagesReleased(old.property_id)
             /\ DrawnBy(id, f)' = StagesReleased(old.property_id)'
    <3>1. loan' = Seen(new)
      BY <2>1 DEF new
    <3>2. /\ loan.status \in {"Funded", "Repaying"}
          /\ Accrue(loan, now) = Seen(m)
      BY <1>2, <1>5, <2>1, SeenFields, SeenAccrue DEF Running, m
    <3>3. /\ IsEnough(Seen(m), amount) /\ Payoff(Seen(m)) = Payoff(m)
      BY <1>2, <1>7, SeenReads
    <3>4. AfterPayment(Seen(m), paid) = Seen(after)
      BY <1>7, SeenAfterPayment DEF after
    <3>5. loan' = IF IsCleared(Seen(after)) THEN [Seen(after) EXCEPT !.status = "PaidOff"]
                                            ELSE Seen(after)
      BY <1>3, <1>10, <3>1, SeenReads, SeenStatus DEF new, closed
    <3>6. FirstDraw(loan)' = FirstDraw(loan)
      <4>1. FirstDraw(loan)' = FirstDraw(loan')
        BY DEF FirstDraw
      <4> QED
        BY <1>5, <1>14, <2>1, <3>1, <4>1, SeenReads
    <3>7. ChargedTo(loan)' = ChargedTo(loan)
      <4>1. ChargedTo(loan) = ChargedBy(m)
        BY <1>2, <1>5, <2>1, ChargedView, SeenCharged DEF m
      <4>2. ChargedTo(loan)' = ChargedBy(m)
        BY <1>2, <1>5, <1>14, <3>1, ChargedView, SeenCharged
      <4> QED
        BY <4>1, <4>2
    <3>8. DrawnBy(id, f)' = DrawnBy(id, f)
      BY <1>16, <2>1
    <3> HIDE DEF loan
    <3>9. LedgerOf(id, f)!Pay(amount)
      BY <1>2, <3>2, <3>3, <3>4, <3>5, <3>6, <3>7, <3>8, SameArithmetic
         DEF LedgerOf!Pay, loan
    <3> QED
      BY <3>9 DEF LoanStep, LedgerOf!LedgerNext
  <2>2. CASE LoanStep(id, f)
    BY <2>2
  <2>3. old.status \notin Unsigned /\ new.status \notin Unsigned
    BY <1>2, <1>14 DEF Unsigned, Running
  <2> QED
    BY <1>2, <1>4, <1>14, <2>1, <2>2, <2>3, MovedView DEF old, new
<1>18. ASSUME NEW j, j # id, NEW f PROVE LoanStep(j, f)
  <2>1. \A q \in Registry!PropertyIds \ {mortgages[id].property_id} :
          StagesReleased(q)' = StagesReleased(q)
    BY <1>2 DEF StagesReleased, Registry!Stages
  <2> QED
    BY <1>2, <1>4, <1>18, <2>1, OthersUnmoved
<1> QED
  BY <1>15, <1>17, <1>18 DEF new

\* Of an application or an approved loan.
LEMMA FreshLoan ==
  ASSUME HomesInv, ClockInv, NEW id \in MortgageIds, mortgages[id].status \in Signing
  PROVE  /\ mortgages[id] \in Mortgage
         /\ mortgages[id].disbursed = 0 /\ mortgages[id].outstanding = 0
         /\ mortgages[id].interest_accrued = 0 /\ mortgages[id].interest_carry = 0
         /\ mortgages[id].interest_paid = 0 /\ mortgages[id].payments_made = 0
         /\ mortgages[id].last_accrued_at = 0
         /\ \A t : Accrue(mortgages[id], t) = mortgages[id]
<1> DEFINE m == mortgages[id]
<1>1. m \in Mortgage
  BY DEF HomesInv, HomesTypeOK, MortgageTypeOK
<1>2. m = [Application(m.property_id, m.principal, m.term_months, m.rate_bps)
             EXCEPT !.status = m.status]
  BY DEF ClockInv, ClockOK
<1> HIDE DEF m
<1>5. /\ m.disbursed = 0 /\ m.outstanding = 0
      /\ m.interest_accrued = 0 /\ m.interest_carry = 0
      /\ m.interest_paid = 0 /\ m.payments_made = 0 /\ m.last_accrued_at = 0
  BY <1>2 DEF Application
<1>6. \A t : Accrue(m, t) = m
  BY <1>5 DEF Accrue, OwesInterest
<1> QED
  BY <1>1, <1>5, <1>6 DEF m

\* A draw: the record it leaves, and the loan's own step.
LEMMA DrawFollows ==
  ASSUME HomesInv, ClockInv, NEW id \in MortgageIds, DisburseLoan(id)
  PROVE  /\ ClockOK(mortgages'[id], now)
         /\ \A j, f : LoanStep(j, f)
<1> DEFINE old == mortgages[id]
           m == Accrue(old, now)
<1>0. PICK p \in Registry!PropertyIds : p = old.property_id
  BY LoanTypes DEF HomesInv
<1>1. PICK stage \in Registry!Stages : Disburse(id, stage)
  BY DEF DisburseLoan
<1> DEFINE tranche == TrancheFor(old, stage)
           new == mortgages'[id]
<1>2. /\ old.status \in {"Approved", "Funded"} /\ tranche > 0
      /\ Registry!MarkReleased(p, stage)
      /\ mortgages' = Put(mortgages, id, AfterDraw(m, tranche, now))
      /\ now' = now /\ UNCHANGED <<trustees, oracles>>
  BY <1>0, <1>1 DEF DisburseLoan, Disburse, HasStatus, Save
<1>3. new = AfterDraw(m, tranche, now)
  BY <1>2, Saved
<1>4. MovedFor(id) /\ HomesInv'
  BY DisburseInv
<1>5. /\ old \in Mortgage /\ now \in Nat \ {0}
      /\ Registry!RegistryTypeOK
  BY LoanTypes DEF HomesInv, HomesTypeOK
<1>6. /\ \A q \in Registry!PropertyIds \ {p} : StagesReleased(q)' = StagesReleased(q)
      /\ stage \notin StagesReleased(p)
      /\ StagesReleased(p)' = StagesReleased(p) \cup {stage}
  <2>1. Len(milestones') = Len(milestones)
    BY <1>2 DEF Registry!MarkReleased
  <2>2. properties' \in Seq(Registry!Property) /\ Len(properties') = Len(properties)
    BY <1>4, <1>5, <2>1 DEF HomesInv, HomesTypeOK, Registry!RegistryTypeOK
  <2> QED
    BY <1>0, <1>1, <1>2, <1>5, <2>2, ReleaseResult
<1>7. tranche \in Nat
  BY <1>2, <1>5, TrancheIsInt
<1>8. /\ m \in Mortgage /\ m.disbursed = old.disbursed /\ m.principal = old.principal
      /\ m.term_months = old.term_months /\ m.rate_bps = old.rate_bps
      /\ m.property_id = old.property_id /\ m.status = old.status
  BY <1>5, AccrueKeeps
<1>9. /\ IsFirstDraw(m) <=> IsFirstDraw(old)
      /\ IF IsFirstDraw(m)
         THEN /\ m.outstanding = 0 /\ m.interest_accrued = 0 /\ m.interest_carry = 0
              /\ m.interest_paid = 0 /\ m.payments_made = 0
         ELSE /\ m.status \in Running /\ OnSchedule(m, now)
              /\ now - m.last_accrued_at < SECONDS_PER_MONTH
      /\ FirstDraw(m) = FirstDraw(old)
      /\ ChargedBy(m) = ChargedBy(IF old.status \in Running THEN Accrue(old, now) ELSE old)
  <2>1. CASE old.status = "Approved"
    <3>1. old.status \in Signing /\ old.status \notin Running
      BY <2>1 DEF Signing, Running
    <3>2. /\ old.disbursed = 0 /\ old.outstanding = 0 /\ old.interest_accrued = 0
          /\ old.interest_carry = 0 /\ old.interest_paid = 0 /\ old.payments_made = 0
          /\ m = old
      BY <3>1, FreshLoan
    <3> QED
      BY <3>1, <3>2 DEF IsFirstDraw
  <2>2. CASE old.status = "Funded"
    <3>1. old.status \in Running
      BY <2>2 DEF Running
    <3>2. old.disbursed > 0 /\ old.outstanding > 0 /\ OnSchedule(old, now)
      BY <3>1, RunningLoan
    <3>3. /\ FirstDraw(m) = FirstDraw(old) /\ OnSchedule(m, now)
          /\ now - m.last_accrued_at < SECONDS_PER_MONTH
      BY <1>5, <3>2, Current
    <3>4. ~IsFirstDraw(old) /\ ~IsFirstDraw(m)
      BY <1>8, <3>2 DEF IsFirstDraw
    <3> QED
      BY <1>8, <3>1, <3>3, <3>4
  <2> QED
    BY <1>2, <2>1, <2>2
<1> HIDE DEF old
<1> HIDE DEF m
<1>10. /\ new \in Mortgage /\ new.status \in Running
       /\ OnSchedule(new, now) /\ Accrue(new, now) = new
       /\ ChargedBy(new) = ChargedBy(m)
       /\ FirstDraw(new) = IF IsFirstDraw(m) THEN now ELSE FirstDraw(m)
  BY <1>2, <1>3, <1>5, <1>7, <1>8, <1>9, DrawnOnSchedule
<1>11. /\ new.principal = old.principal /\ new.term_months = old.term_months
       /\ new.rate_bps = old.rate_bps /\ new.property_id = old.property_id
  <2>1. DrawnFrom(new, m, tranche, now)
    BY <1>3, <1>5, <1>7, <1>8, DrawResult
  <2> QED
    BY <1>8, <2>1 DEF DrawnFrom
<1>12. ClockOK(new, now)
  BY <1>10 DEF ClockOK, Signing, Running
<1> HIDE DEF new
<1>13. ASSUME NEW f PROVE LoanStep(id, f)
  <2> DEFINE loan == LoanOf(id, f)
  <2>1. CASE /\ loan = Seen(old) /\ loan' = Seen(mortgages'[id])
             /\ DrawnBy(id, f) = StagesReleased(old.property_id)
             /\ DrawnBy(id, f)' = StagesReleased(mortgages[id].property_id)'
    <3>1. loan' = Seen(new)
      BY <2>1 DEF new
    <3>2. /\ loan.status \in {"Approved", "Funded"}
          /\ Accrue(loan, now) = Seen(m)
          /\ TrancheFor(loan, stage) = tranche
          /\ IsFirstDraw(loan) <=> IsFirstDraw(m)
          /\ FirstDraw(loan) = FirstDraw(m)
      BY <1>2, <1>5, <1>9, <2>1, SeenFields, SeenAccrue, SeenReads DEF m
    <3>3. AfterDraw(Seen(m), tranche, now) = Seen(new)
      BY <1>3, <1>8, SeenAfterDraw
    <3>4. FirstDraw(loan)' = IF IsFirstDraw(loan) THEN now ELSE FirstDraw(loan)
      <4>1. FirstDraw(loan)' = FirstDraw(loan')
        BY DEF FirstDraw
      <4> QED
        BY <1>10, <3>1, <3>2, <4>1, SeenReads
    <3>5. ChargedTo(loan)' = ChargedTo(loan)
      <4>1. ChargedTo(loan) = ChargedBy(m)
        BY <1>5, <1>9, <2>1, ChargedView, SeenCharged
      <4>2. ChargedTo(loan)' = ChargedBy(m)
        BY <1>2, <1>5, <1>10, <3>1, ChargedView, SeenCharged
      <4> QED
        BY <4>1, <4>2
    <3>6. stage \notin DrawnBy(id, f) /\ DrawnBy(id, f)' = DrawnBy(id, f) \cup {stage}
      <4>1. StagesReleased(mortgages[id].property_id)' = StagesReleased(p)'
        BY <1>0, <1>11 DEF StagesReleased, new, old
      <4> QED
        BY <1>0, <1>6, <2>1, <4>1
    <3>7. stage \in LedgerOf(id, f)!Stages
      BY DEF LedgerOf!Stages, Registry!Stages
    <3> HIDE DEF loan
    <3>8. LedgerOf(id, f)!Draw(stage)
      BY <1>2, <3>1, <3>2, <3>3, <3>4, <3>5, <3>6, SameArithmetic DEF LedgerOf!Draw, loan
    <3> QED
      BY <3>7, <3>8 DEF LoanStep, LedgerOf!LedgerNext
  <2>2. CASE LoanStep(id, f)
    BY <2>2
  <2>3. old.status \notin Unsigned /\ new.status \notin Unsigned
    BY <1>2, <1>10 DEF Unsigned, Running
  <2> QED
    BY <1>2, <1>4, <1>11, <2>1, <2>2, <2>3, MovedView DEF old, new
<1>14. ASSUME NEW j, j # id, NEW f PROVE LoanStep(j, f)
  BY <1>0, <1>2, <1>4, <1>6, <1>14, OthersUnmoved DEF old
<1> QED
  BY <1>12, <1>13, <1>14 DEF new

\* A default: the record it leaves, and the loan's own step.
LEMMA DefaultFollows ==
  ASSUME HomesInv, ClockInv, NEW id \in MortgageIds, MarkDefaultLoan(id)
  PROVE  /\ ClockOK(mortgages'[id], now)
         /\ \A j, f : LoanStep(j, f)
<1> DEFINE old == mortgages[id]
           m == Accrue(old, now)
           bad == [m EXCEPT !.status = "Defaulted"]
           new == mortgages'[id]
<1>2. /\ old.status \in Running /\ IsInDefault(old, now, grace_secs)
      /\ mortgages' = Put(mortgages, id, bad)
      /\ now' = now /\ milestones' = milestones
  BY DEF MarkDefaultLoan, MarkDefault, HasStatus, Running, Save
<1>3. new = bad
  BY <1>2, Saved
<1>4. MovedFor(id)
  BY MarkDefaultInv
<1>5. old \in Mortgage /\ now \in Nat /\ old.outstanding > 0 /\ OnSchedule(old, now)
  BY <1>2, RunningLoan
<1> HIDE DEF old
<1>7. m \in Mortgage /\ FirstDraw(m) = FirstDraw(old)
  BY <1>5, Current
<1>8. /\ m.principal = old.principal /\ m.term_months = old.term_months
      /\ m.rate_bps = old.rate_bps /\ m.property_id = old.property_id
  BY <1>5, AccrueKeeps
<1> HIDE DEF m
<1>11. /\ bad \in Mortgage /\ bad.status = "Defaulted"
       /\ bad.principal = m.principal /\ bad.term_months = m.term_months
       /\ bad.rate_bps = m.rate_bps /\ bad.property_id = m.property_id
       /\ bad.disbursed = m.disbursed /\ bad.payments_made = m.payments_made
       /\ bad.next_payment_due = m.next_payment_due
       /\ ChargedBy(bad) = ChargedBy(m)
  BY <1>7, StatusOnly DEF Mortgage, MortgageStatus
<1>12. FirstDraw(bad) = FirstDraw(m)
  <2> HIDE DEF bad
  <2> QED
    BY <1>11, Zenon DEF FirstDraw
<1>14. /\ new \in Mortgage /\ FirstDraw(new) = FirstDraw(old)
       /\ new.principal = old.principal /\ new.term_months = old.term_months
       /\ new.rate_bps = old.rate_bps /\ new.property_id = old.property_id
       /\ new.status = "Defaulted" /\ new.status \notin Running
       /\ ChargedBy(new) = ChargedBy(m)
  <2> HIDE DEF bad
  <2> QED
    BY <1>3, <1>7, <1>8, <1>11, <1>12 DEF Running
<1>15. ClockOK(new, now)
  BY <1>14 DEF ClockOK, Signing, Running
<1>16. StagesReleased(old.property_id)' = StagesReleased(old.property_id)
  BY <1>2, <1>14 DEF StagesReleased, Registry!Stages, old
<1> HIDE DEF new, bad
<1>17. ASSUME NEW f PROVE LoanStep(id, f)
  <2> DEFINE loan == LoanOf(id, f)
  <2>1. CASE /\ loan = Seen(old) /\ loan' = Seen(mortgages'[id])
             /\ DrawnBy(id, f) = StagesReleased(old.property_id)
             /\ DrawnBy(id, f)' = StagesReleased(old.property_id)'
    <3>1. loan' = Seen(new)
      BY <2>1 DEF new
    <3>2. /\ loan.status \in {"Funded", "Repaying"}
          /\ Accrue(loan, now) = Seen(m)
          /\ IsInDefault(loan, now, grace_secs)
      BY <1>2, <1>5, <2>1, SeenFields, SeenAccrue, SeenReads DEF Running, m
    <3>5. loan' = [Seen(m) EXCEPT !.status = "Defaulted"]
      BY <1>3, <1>7, <3>1, SeenStatus DEF bad
    <3>6. FirstDraw(loan)' = FirstDraw(loan)
      <4>1. FirstDraw(loan)' = FirstDraw(loan')
        BY DEF FirstDraw
      <4> QED
        BY <1>5, <1>14, <2>1, <3>1, <4>1, SeenReads
    <3>7. ChargedTo(loan)' = ChargedTo(loan)
      <4>1. ChargedTo(loan) = ChargedBy(m)
        BY <1>2, <1>5, <2>1, ChargedView, SeenCharged DEF m
      <4>2. ChargedTo(loan)' = ChargedBy(m)
        BY <1>2, <1>5, <1>14, <3>1, ChargedView, SeenCharged
      <4> QED
        BY <4>1, <4>2
    <3>8. DrawnBy(id, f)' = DrawnBy(id, f)
      BY <1>16, <2>1
    <3> HIDE DEF loan
    <3>9. grace_secs \in GraceChoices \cup {FirstGrace}
      BY DEF ClockInv
    <3>10. LedgerOf(id, f)!Default
      BY <1>2, <3>2, <3>5, <3>6, <3>7, <3>8, <3>9, SameArithmetic DEF LedgerOf!Default, loan
    <3> QED
      BY <3>10 DEF LoanStep, LedgerOf!LedgerNext
  <2>2. CASE LoanStep(id, f)
    BY <2>2
  <2>3. old.status \notin Unsigned /\ new.status \notin Unsigned
    BY <1>2, <1>14 DEF Unsigned, Running
  <2> QED
    BY <1>2, <1>4, <1>14, <2>1, <2>2, <2>3, MovedView DEF old, new
<1>18. ASSUME NEW j, j # id, NEW f PROVE LoanStep(j, f)
  <2>1. \A q \in Registry!PropertyIds \ {mortgages[id].property_id} :
          StagesReleased(q)' = StagesReleased(q)
    BY <1>2 DEF StagesReleased, Registry!Stages
  <2> QED
    BY <1>2, <1>4, <1>18, <2>1, OthersUnmoved
<1> QED
  BY <1>15, <1>17, <1>18 DEF new

\* A loan on no facility before a step and the same after it, or unchanged by
\* it, has not moved.
LEMMA SameLoan ==
  ASSUME UNCHANGED <<now, milestones>>, NEW id, NEW f,
         IsLoanOf(id, f)' <=> IsLoanOf(id, f),
         IsLoanOf(id, f) => mortgages'[id] = mortgages[id]
  PROVE  LoanStep(id, f)
<1>1. IsLoanOf(id, f) =>
        StagesReleased(mortgages[id].property_id)' = StagesReleased(mortgages[id].property_id)
  BY DEF StagesReleased, Registry!Stages
<1> QED
  BY <1>1, LoanView, Unmoved

\* What the records of one loan and of the others say of the clock of all.
LEMMA ClocksKept ==
  ASSUME ClockInv, now' = now, NEW id \in MortgageIds, MovedFor(id), ClockOK(mortgages'[id], now)
  PROVE  \A j \in MortgageIds' : ClockOK(mortgages'[j], now')
<1>1. ASSUME NEW j \in MortgageIds' PROVE ClockOK(mortgages'[j], now')
  <2>1. CASE j = id
    BY <2>1
  <2>2. CASE j # id
    <3>1. j \in MortgageIds /\ mortgages'[j] = mortgages[j]
      BY <2>2 DEF MovedFor
    <3> QED
      BY <3>1 DEF ClockInv
  <2> QED
    BY <2>1, <2>2
<1> QED
  BY <1>1

\* An application approved, field by field.
LEMMA ApprovedRecord ==
  ASSUME NEW a, NEW b, NEW c, NEW d
  PROVE  /\ Approved(a, b, c, d).property_id = a /\ Approved(a, b, c, d).principal = b
         /\ Approved(a, b, c, d).term_months = c /\ Approved(a, b, c, d).rate_bps = d
         /\ Approved(a, b, c, d).status = "Approved"
         /\ [Approved(a, b, c, d) EXCEPT !.property_id = 1] = Approved(1, b, c, d)
<1> DEFINE fresh(p) ==
             [property_id |-> p, principal |-> b, term_months |-> c, rate_bps |-> d,
              status |-> "Approved", disbursed |-> 0, outstanding |-> 0,
              interest_accrued |-> 0, interest_carry |-> 0, total_repaid |-> 0,
              interest_paid |-> 0, payments_made |-> 0, last_accrued_at |-> 0,
              next_payment_due |-> 0]
<1>1. Approved(a, b, c, d) = fresh(a) /\ Approved(1, b, c, d) = fresh(1)
  BY DEF Approved, Application
<1>2. /\ fresh(a).property_id = a /\ fresh(a).principal = b
      /\ fresh(a).term_months = c /\ fresh(a).rate_bps = d
      /\ fresh(a).status = "Approved"
      /\ [fresh(a) EXCEPT !.property_id = 1] = fresh(1)
  OBVIOUS
<1> HIDE DEF fresh
<1> QED
  BY <1>1, <1>2

\* An approval is where the ledger's loan begins: it was nobody's before, and
\* nothing is drawn of it yet.
LEMMA ApprovalFollows ==
  ASSUME HomesInv, ClockInv, NEW underwriter, NEW id \in MortgageIds, Approve(underwriter, id),
         UNCHANGED <<now, milestones>>
  PROVE  /\ MovedFor(id) /\ ClockOK(mortgages'[id], now)
         /\ \A j, f : LoanStep(j, f)
<1> DEFINE old == mortgages[id]
           approved == [old EXCEPT !.status = "Approved"]
           new == mortgages'[id]
<1>1. old.status = "Applied" /\ mortgages' = Put(mortgages, id, approved)
  BY DEF Approve, HasStatus, Save
<1>2. new = approved /\ MovedFor(id)
  <2> DEFINE table == Put(mortgages, id, approved)
  <2>1. /\ DOMAIN table = DOMAIN mortgages \cup {id} /\ table[id] = approved
        /\ \A j \in DOMAIN mortgages \ {id} : table[j] = mortgages[j]
    BY DEF Put
  <2>2. mortgages' = table
    BY <1>1
  <2> HIDE DEF table, approved
  <2> QED
    BY <2>1, <2>2 DEF MovedFor, MortgageIds
<1>3. /\ old \in Mortgage
      /\ StagesReleased(old.property_id) = {}
      /\ old = [Application(old.property_id, old.principal, old.term_months, old.rate_bps)
                  EXCEPT !.status = old.status]
  BY <1>1, LoanTypes DEF HomesInv, LoanOK, Signing, ClockInv, ClockOK
<1> HIDE DEF old
<1>4. /\ approved = Approved(old.property_id, old.principal, old.term_months, old.rate_bps)
      /\ approved.property_id = old.property_id /\ approved.principal = old.principal
      /\ approved.term_months = old.term_months /\ approved.rate_bps = old.rate_bps
      /\ approved.status = "Approved"
      /\ Seen(approved) = Approved(1, old.principal, old.term_months, old.rate_bps)
  <2>1. PICK a, b, c, d, e :
          /\ old = [Application(a, b, c, d) EXCEPT !.status = e]
          /\ a = old.property_id /\ b = old.principal
          /\ c = old.term_months /\ d = old.rate_bps
    BY <1>3
  <2>2. approved = Approved(a, b, c, d)
    BY <2>1 DEF Approved, Application
  <2> HIDE DEF approved
  <2>3. /\ approved.property_id = a /\ approved.principal = b
        /\ approved.term_months = c /\ approved.rate_bps = d
        /\ approved.status = "Approved"
        /\ [approved EXCEPT !.property_id = 1] = Approved(1, b, c, d)
    BY <2>2, ApprovedRecord
  <2>4. Seen(approved) = Approved(1, b, c, d)
    BY <2>3 DEF Seen
  <2> QED
    BY <2>1, <2>2, <2>3, <2>4, Zenon
<1> HIDE DEF approved
<1>5. ClockOK(new, now)
  BY <1>2, <1>4 DEF ClockOK, Signing, Running, Approved
<1>6. ASSUME NEW f PROVE LoanStep(id, f)
  <2>1. ~IsLoanOf(id, f)
    BY <1>1 DEF IsLoanOf, Unsigned, old
  <2>2. LoanOf(id, f) = Undrawable(f) /\ DrawnBy(id, f) = {}
    BY <2>1, LoanView
  <2>3. CASE IsLoanOf(id, f)'
    <3>1. /\ f.principal = old.principal /\ f.term_months = old.term_months
          /\ f.rate_bps = old.rate_bps
      BY <1>2, <1>4, <2>3 DEF IsLoanOf, new
    <3>2. Seen(approved) = Undrawable(f)
      BY <1>4, <3>1 DEF Undrawable
    <3>3. LoanOf(id, f)' = Undrawable(f)
      BY <1>2, <2>3, <3>2, LoanView
    <3>4. StagesReleased(mortgages[id].property_id)' = {}
      BY <1>2, <1>3, <1>4 DEF StagesReleased, Registry!Stages, new
    <3>5. DrawnBy(id, f)' = {}
      BY <2>3, <3>4, LoanView
    <3> QED
      BY <2>2, <3>3, <3>5, Unmoved
  <2>4. CASE ~IsLoanOf(id, f)'
    <3>1. LoanOf(id, f)' = Undrawable(f) /\ DrawnBy(id, f)' = {}
      BY <2>4, LoanView
    <3> QED
      BY <2>2, <3>1, Unmoved
  <2> QED
    BY <2>3, <2>4
<1>7. ASSUME NEW j, j # id, NEW f PROVE LoanStep(j, f)
  <2>1. \A q \in Registry!PropertyIds \ {mortgages[id].property_id} :
          StagesReleased(q)' = StagesReleased(q)
    BY DEF StagesReleased, Registry!Stages
  <2> QED
    BY <1>2, <1>7, <2>1, OthersUnmoved
<1> QED
  BY <1>2, <1>5, <1>6, <1>7 DEF new

\* An application is nobody's loan yet, and a refused one no longer anybody's.
LEMMA ApplicationFollows ==
  ASSUME HomesInv, ClockInv, ApplyTx
  PROVE  /\ \A j \in MortgageIds' : ClockOK(mortgages'[j], now')
         /\ \A j, f : LoanStep(j, f)
<1>1. PICK p \in Registry!PropertyIds, g \in Facilities :
        Apply(p, g.principal, g.term_months, g.rate_bps)
  BY DEF ApplyTx
<1> DEFINE m == Application(p, g.principal, g.term_months, g.rate_bps)
           table == Put(mortgages, next_id, m)
<1>2. /\ mortgages' = table /\ next_id \notin MortgageIds
      /\ UNCHANGED <<now, milestones>>
  BY <1>1 DEF ApplyTx, Apply, Save, registryVars, HomesInv, HomesTypeOK, MortgageTypeOK
<1>3. /\ m.status = "Applied"
      /\ m = [Application(m.property_id, m.principal, m.term_months, m.rate_bps)
                EXCEPT !.status = m.status]
  BY DEF Application
<1>4. /\ DOMAIN table = DOMAIN mortgages \cup {next_id} /\ table[next_id] = m
      /\ \A j \in DOMAIN mortgages \ {next_id} : table[j] = mortgages[j]
  BY DEF Put
<1> HIDE DEF table, m
<1>5. /\ MortgageIds' = MortgageIds \cup {next_id} /\ mortgages'[next_id] = m
      /\ \A j \in MortgageIds : mortgages'[j] = mortgages[j]
  BY <1>2, <1>4 DEF MortgageIds
<1>6. ClockOK(m, now)
  BY <1>3 DEF ClockOK, Running
<1>7. \A j \in MortgageIds' : ClockOK(mortgages'[j], now')
  BY <1>2, <1>5, <1>6 DEF ClockInv
<1>8. ASSUME NEW j, NEW f PROVE LoanStep(j, f)
  <2>1. /\ IsLoanOf(j, f)' <=> IsLoanOf(j, f)
        /\ IsLoanOf(j, f) => mortgages'[j] = mortgages[j]
    BY <1>2, <1>3, <1>5 DEF IsLoanOf, Unsigned
  <2> QED
    BY <1>2, <2>1, SameLoan
<1> QED
  BY <1>7, <1>8

\* A refusal takes a loan away that LoanLedger does not follow yet.
LEMMA RefusalFollows ==
  ASSUME HomesInv, ClockInv, DeclineTx
  PROVE  /\ \A j \in MortgageIds' : ClockOK(mortgages'[j], now')
         /\ \A j, f : LoanStep(j, f)
<1>1. PICK underwriter \in underwriters, id \in MortgageIds : Decline(underwriter, id)
  BY DEF DeclineTx
<1> DEFINE table == Remove(mortgages, id)
<1>2. /\ mortgages' = table /\ mortgages[id].status = "Applied"
      /\ UNCHANGED <<now, milestones>>
  BY <1>1 DEF DeclineTx, Decline, HasStatus, registryVars
<1>3. /\ DOMAIN table = DOMAIN mortgages \ {id}
      /\ \A j \in DOMAIN mortgages \ {id} : table[j] = mortgages[j]
  BY DEF Remove
<1> HIDE DEF table
<1>4. /\ MortgageIds' = MortgageIds \ {id}
      /\ \A j \in MortgageIds' : mortgages'[j] = mortgages[j]
  BY <1>2, <1>3 DEF MortgageIds
<1>5. \A j \in MortgageIds' : ClockOK(mortgages'[j], now')
  BY <1>2, <1>4 DEF ClockInv
<1>6. ASSUME NEW j, NEW f PROVE LoanStep(j, f)
  <2>1. /\ IsLoanOf(j, f)' <=> IsLoanOf(j, f)
        /\ IsLoanOf(j, f) => mortgages'[j] = mortgages[j]
    BY <1>2, <1>4 DEF IsLoanOf, Unsigned
  <2> QED
    BY <1>2, <2>1, SameLoan
<1> QED
  BY <1>5, <1>6

\* A second passes: a month of the loan ends exactly when the code, asked then,
\* would charge it one month more.
LEMMA TickFollows ==
  ASSUME HomesInv, ClockInv, Tick
  PROVE  /\ \A j \in MortgageIds' : ClockOK(mortgages'[j], now')
         /\ \A j, f : LoanStep(j, f)
<1>1. /\ now < MaxTime /\ now' = now + 1 /\ now \in Nat
      /\ UNCHANGED <<mortgages, milestones>> /\ MortgageIds' = MortgageIds
  BY DEF Tick, loanVars, registryVars, MortgageIds, HomesInv, HomesTypeOK
<1> DEFINE u == now + 1
<1>2. ASSUME NEW j \in MortgageIds, mortgages[j].status \in Running
      PROVE  LET m == mortgages[j]
                 f == FirstDraw(m)
             IN  /\ OnSchedule(m, u)
                 /\ ChargedBy(Accrue(m, u)) =
                      IF u > f /\ (u - f) % SECONDS_PER_MONTH = 0
                      THEN ChargedBy(Accrue(m, now)) + m.outstanding * m.rate_bps
                      ELSE ChargedBy(Accrue(m, now))
  BY <1>1, <1>2, RunningLoan, TickOnSchedule
<1> HIDE DEF u
<1>3. \A j \in MortgageIds' : ClockOK(mortgages'[j], now')
  BY <1>1, <1>2 DEF ClockInv, ClockOK, u
<1>4. ASSUME NEW j, NEW f PROVE LoanStep(j, f)
  <2> DEFINE loan == LoanOf(j, f)
  <2>1. IsLoanOf(j, f)' <=> IsLoanOf(j, f)
    BY <1>1 DEF IsLoanOf
  <2>2. loan' = loan /\ DrawnBy(j, f)' = DrawnBy(j, f)
    BY <1>1, <2>1, LoanView DEF StagesReleased, Registry!Stages
  <2>3. FirstDraw(loan)' = FirstDraw(loan)
    BY <2>2 DEF FirstDraw
  <2>4. ChargedTo(loan)' =
          IF LedgerOf(j, f)!MonthEnds(u) THEN ChargedTo(loan) + loan.outstanding * loan.rate_bps
                                         ELSE ChargedTo(loan)
    <3>1. CASE IsLoanOf(j, f) /\ mortgages[j].status \in Running
      <4> DEFINE m == mortgages[j]
      <4>1. j \in MortgageIds /\ loan = Seen(m)
        BY <3>1, LoanView DEF IsLoanOf
      <4>2. m \in Mortgage /\ m.status \in Running
        BY <3>1, <4>1, RunningLoan
      <4>3. u \in Nat
        BY <1>1 DEF u
      <4>4. /\ ChargedTo(loan) = ChargedBy(Accrue(m, now))
            /\ ChargedTo(loan)' = ChargedBy(Accrue(m, u))
        <5>1. /\ ChargedTo(loan) = ChargedBy(IF Seen(m).status \in Running
                                             THEN Accrue(Seen(m), now) ELSE Seen(m))
              /\ ChargedTo(loan)' = ChargedBy(IF Seen(m).status \in Running
                                              THEN Accrue(Seen(m), u) ELSE Seen(m))
          BY <1>1, <2>2, <4>1, ChargedView DEF u
        <5> HIDE DEF m, loan
        <5> QED
          BY <1>1, <4>2, <4>3, <5>1, SeenCharged
      <4>5. /\ loan.status = m.status /\ FirstDraw(loan) = FirstDraw(m)
            /\ loan.outstanding = m.outstanding /\ loan.rate_bps = m.rate_bps
        BY <4>1, <4>2, SeenFields, SeenReads
      <4>6. LedgerOf(j, f)!MonthEnds(u) <=>
              u > FirstDraw(m) /\ (u - FirstDraw(m)) % SECONDS_PER_MONTH = 0
        BY <4>2, <4>5 DEF LedgerOf!MonthEnds, Running
      <4> HIDE DEF loan
      <4> QED
        BY <1>2, <4>1, <4>2, <4>4, <4>5, <4>6
    <3>2. CASE ~(IsLoanOf(j, f) /\ mortgages[j].status \in Running)
      <4>1. loan.status \notin Running
        <5>1. CASE IsLoanOf(j, f)
          <6>1. j \in MortgageIds /\ mortgages[j] \in Mortgage
            BY <5>1, LoanTypes DEF IsLoanOf, HomesInv
          <6> QED
            BY <3>2, <5>1, <6>1, LoanView, SeenFields
        <5>2. CASE ~IsLoanOf(j, f)
          <6>1. Undrawable(f).status = "Approved"
            BY ApprovedRecord DEF Undrawable
          <6>2. loan = Undrawable(f)
            BY <5>2, LoanView
          <6> HIDE DEF loan
          <6> QED
            BY <6>1, <6>2 DEF Running
        <5> QED
          BY <5>1, <5>2
      <4>2. ~LedgerOf(j, f)!MonthEnds(u)
        BY <4>1 DEF LedgerOf!MonthEnds, Running
      <4>3. ChargedTo(loan)' = ChargedTo(loan)
        BY <2>2, <4>1, ChargedView
      <4> QED
        BY <4>2, <4>3
    <3> QED
      BY <3>1, <3>2
  <2> HIDE DEF loan
  <2>5. LedgerOf(j, f)!Tick
    BY <1>1, <2>2, <2>3, <2>4 DEF LedgerOf!Tick, loan, u
  <2> QED
    BY <2>5 DEF LoanStep, LedgerOf!LedgerNext
<1> QED
  BY <1>3, <1>4


\* Whatever happens, every loan takes a step of its own ledger or none, and its
\* clock stays right.
LEMMA EveryLoanFollows ==
  ASSUME HomesInv, ClockInv, [Next]_vars
  PROVE  /\ \A j \in MortgageIds' : ClockOK(mortgages'[j], now')
         /\ \A j, f : LoanStep(j, f)
<1>1. CASE ApproveTx
  <2>1. PICK underwriter \in underwriters, id \in MortgageIds : Approve(underwriter, id)
    BY <1>1 DEF ApproveTx
  <2>2. UNCHANGED <<now, milestones>>
    BY <1>1 DEF ApproveTx, registryVars
  <2> QED
    BY <2>1, <2>2, ApprovalFollows, ClocksKept
<1>2. CASE DisburseTx
  <2>1. PICK id \in MortgageIds : DisburseLoan(id)
    BY <1>2 DEF DisburseTx
  <2>2. MovedFor(id) /\ now' = now
    BY <2>1, DisburseInv DEF DisburseLoan
  <2> QED
    BY <2>1, <2>2, DrawFollows, ClocksKept
<1>3. CASE RepayTx
  <2>1. PICK id \in MortgageIds : RepayLoan(id)
    BY <1>3 DEF RepayTx
  <2>2. MovedFor(id) /\ now' = now
    BY <2>1, RepayInv DEF RepayLoan
  <2> QED
    BY <2>1, <2>2, PaymentFollows, ClocksKept
<1>4. CASE MarkDefaultTx
  <2>1. PICK id \in MortgageIds : MarkDefaultLoan(id)
    BY <1>4 DEF MarkDefaultTx
  <2>2. MovedFor(id) /\ now' = now
    BY <2>1, MarkDefaultInv DEF MarkDefaultLoan
  <2> QED
    BY <2>1, <2>2, DefaultFollows, ClocksKept
<1>5. CASE ApplyTx \/ DeclineTx \/ Tick
  BY <1>5, ApplicationFollows, RefusalFollows, TickFollows
<1>6. CASE \/ SubmitTx \/ EvidenceTx \/ OracleTx \/ RolesTx
           \/ DepositTx \/ WithdrawTx \/ ClaimTx \/ GovernanceTx \/ UNCHANGED vars
  <2>1. UNCHANGED <<mortgages, now>>
    BY <1>6 DEF SubmitTx, EvidenceTx, OracleTx, RolesTx, DepositTx, WithdrawTx, ClaimTx,
                GovernanceTx, vars, mortgageVars, loanVars
  <2>2. \A j \in MortgageIds' : ClockOK(mortgages'[j], now')
    BY <2>1 DEF ClockInv, MortgageIds
  <2>3. \A q \in Registry!PropertyIds : StagesReleased(q)' = StagesReleased(q)
    <3>1. CASE SubmitTx \/ EvidenceTx \/ OracleTx \/ RolesTx
      <4>1. QuietRegistry
        BY <3>1, RegistryIsQuiet
           DEF SubmitTx, EvidenceTx, OracleTx, RolesTx, HomesInv, HomesTypeOK
      <4> QED
        BY <4>1 DEF QuietRegistry
    <3>2. CASE DepositTx \/ WithdrawTx \/ ClaimTx \/ GovernanceTx \/ UNCHANGED vars
      <4>1. milestones' = milestones
        BY <3>2 DEF DepositTx, WithdrawTx, ClaimTx, GovernanceTx, vars, registryVars
      <4> QED
        BY <4>1 DEF StagesReleased, Registry!Stages
    <3> QED
      BY <1>6, <3>1, <3>2
  <2> QED
    BY <2>1, <2>2, <2>3, NoneMoves
<1> QED
  BY <1>1, <1>2, <1>3, <1>4, <1>5, <1>6 DEF Next

\* The grace periods come from the admin's choices.
LEMMA GraceChosen ==
  ASSUME ClockInv, [Next]_vars
  PROVE  /\ grace_secs' \in GraceChoices \cup {FirstGrace}
         /\ scheduled' # NoAction => scheduled'.secs \in GraceChoices
<1>1. CASE GovernanceTx
  <2>1. ASSUME NEW address, NEW authorized, SetUnderwriter(address, authorized)
        PROVE  UNCHANGED <<grace_secs, scheduled>>
    BY <2>1 DEF SetUnderwriter
  <2>2. ASSUME NEW secs \in GraceChoices, ScheduleGrace(secs)
        PROVE  scheduled'.secs = secs /\ grace_secs' = grace_secs
    BY <2>2 DEF ScheduleGrace
  <2>3. ExecuteAction =>
          scheduled # NoAction /\ scheduled' = NoAction /\ grace_secs' = scheduled.secs
    BY DEF ExecuteAction
  <2>4. CancelAction => scheduled' = NoAction /\ grace_secs' = grace_secs
    BY DEF CancelAction
  <2> QED
    BY <1>1, <2>1, <2>2, <2>3, <2>4 DEF GovernanceTx, ClockInv
<1>2. CASE ~GovernanceTx
  <2>1. UNCHANGED adminVars
    BY <1>2 DEF Next, DepositTx, WithdrawTx, ClaimTx, SubmitTx, EvidenceTx, OracleTx, RolesTx,
                ApplyTx, ApproveTx, Approve, DeclineTx, DisburseTx, DisburseLoan, RepayTx,
                RepayLoan, MarkDefaultTx, MarkDefaultLoan, Tick, vars, mortgageVars
  <2> QED
    BY <2>1 DEF adminVars, ClockInv
<1> QED
  BY <1>1, <1>2

\* Every loan in being was first drawn when its due date tells, and interest is
\* written up to whole months after that.
THEOREM LoansAreOnSchedule == Spec => []ClockInv
<1>1. Init => ClockInv
  BY DEF Init, MortgageInit, ClockInv, MortgageIds
<1>2. HomesInv /\ ClockInv /\ [Next]_vars => ClockInv'
  BY EveryLoanFollows, GraceChosen DEF ClockInv
<1> QED
  BY <1>1, <1>2, HomesInvariant, PTL DEF Spec

\* One payment for every whole month since the first draw.
PaidUp(id) ==
  mortgages[id].payments_made
    >= (now - FirstDraw(mortgages[id])) \div SECONDS_PER_MONTH

\* A borrower who has paid for every month gone by is not in default, among any
\* number of other loans, under whatever grace period the admin has put in
\* force and in whatever order draws and payments came: is_defaultable says no,
\* and mark_default asks the same.
THEOREM PaidUpLoansAreSafe == Spec => [](\A id \in Live : PaidUp(id) => ~IsDefaultable(id))
<1>1. ASSUME HomesInv, ClockInv, NEW id \in Live, PaidUp(id)
      PROVE  ~IsDefaultable(id)
  <2> DEFINE m == mortgages[id]
             S == SECONDS_PER_MONTH
             n == m.payments_made
             f == FirstDraw(m)
             y == now - f
             q == y \div S
             due == m.next_payment_due
  <2>1. id \in MortgageIds /\ m.status \in {"Funded", "Repaying"}
    BY DEF Live, LoansWith
  <2>2. m \in Mortgage /\ m.disbursed > 0 /\ now \in Nat
    <3>1. HomesTypeOK /\ LoansInv /\ now \in Nat
      BY <1>1 DEF HomesInv, HomesTypeOK
    <3>2. /\ m \in Mortgage
          /\ LoanOK(m, properties[m.property_id].status, StagesReleased(m.property_id))
      BY <2>1, <3>1, LoanTypes
    <3>3. m.disbursed > 0
      BY <2>1, <3>2 DEF LoanOK, Running
    <3> QED
      BY <3>1, <3>2, <3>3
  <2>3. f \in 1..now
    BY <1>1, <2>1 DEF ClockInv, ClockOK, OnSchedule, Running
  <2>4. S \in Nat \ {0} /\ n \in Nat /\ due \in Nat /\ grace_secs \in Nat
    BY <1>1, <2>2, DivisorPositive, MortgagePoolAssumption DEF ClockInv, Mortgage
  <2>5. f = due - (n + 1) * S
    BY <2>2 DEF FirstDraw
  <2>6. n >= q /\ y \in Int
    BY <1>1, <2>2, <2>3 DEF PaidUp
  <2> HIDE DEF S, n, f, due, y
  <2>7. q \in Int /\ (y % S) \in 0..(S - 1) /\ y = S * q + (y % S)
    BY <2>4, <2>6, Division
  <2> HIDE DEF q
  <2>8. (n + 1) * S > y /\ (n + 1) * S \in Int
    <3>1. (n + 1) * S >= (q + 1) * S
      BY <2>4, <2>6, <2>7
    <3>2. (q + 1) * S = S * q + S /\ S * q \in Int /\ (n + 1) * S \in Int
      BY <2>4, <2>7
    <3> QED
      BY <2>4, <2>6, <2>7, <3>1, <3>2
  <2> DEFINE k == (n + 1) * S
  <2> HIDE DEF k
  <2>9. due > now
    <3>1. f = due - k /\ k > y /\ k \in Int
      BY <2>5, <2>8 DEF k
    <3> QED
      BY <2>2, <2>3, <2>4, <3>1 DEF y
  <2> QED
    BY <2>2, <2>4, <2>9 DEF IsDefaultable, IsInDefault, due
<1>2. HomesInv /\ ClockInv => \A id \in Live : PaidUp(id) => ~IsDefaultable(id)
  BY <1>1
<1> QED
  BY <1>2, HomesInvariant, LoansAreOnSchedule, PTL

\* A loan begins as a facility nobody has drawn and nobody has been charged for.
LEMMA LoansBegin ==
  ASSUME Init, NEW id, NEW f
  PROVE  LedgerOf(id, f)!LedgerInit
<1>1. MortgageIds = {} /\ now = 1
  BY DEF Init, MortgageInit, MortgageIds
<1>2. LoanOf(id, f) = Undrawable(f) /\ DrawnBy(id, f) = {}
  BY <1>1, LoanView DEF IsLoanOf
<1>3. LoanOf(id, f) = [LedgerOf(id, f)!Application(1, f.principal, f.term_months, f.rate_bps)
                         EXCEPT !.status = "Approved"]
  BY <1>2 DEF Undrawable, Approved, Application, LedgerOf!Application
<1>4. /\ Undrawable(f).status = "Approved" /\ Undrawable(f).disbursed = 0
      /\ Undrawable(f).interest_accrued = 0 /\ Undrawable(f).interest_paid = 0
      /\ Undrawable(f).interest_carry = 0
  BY DEF Undrawable, Approved, Application
<1>5. FirstDraw(LoanOf(id, f)) = 0
  BY <1>2, <1>4 DEF FirstDraw
<1>6. ChargedTo(LoanOf(id, f)) = 0
  <2>1. ChargedBy(Undrawable(f)) = 0
    BY <1>4, DivisorPositive DEF ChargedBy
  <2>2. Undrawable(f).status \notin Running
    BY <1>4 DEF Running
  <2> QED
    BY <1>2, <2>1, <2>2, ChargedView
<1>7. now \in 1..MaxTime
  BY <1>1, StellarHomesAssumption
<1> QED
  BY <1>2, <1>3, <1>5, <1>6, <1>7 DEF LedgerOf!LedgerInit

\* Each loan, in the midst of all the others and of everything the investors,
\* the registry and the admin do, is a loan of LoanLedger.
THEOREM HomesImplementLoanLedger == Spec => LoansFollowTheLedger
<1> DEFINE Begin == \A id \in 1..MaxLoans, f \in Facilities : LedgerOf(id, f)!LedgerInit
           Steps == \A id \in 1..MaxLoans, f \in Facilities :
                      \/ LedgerOf(id, f)!LedgerNext
                      \/ UNCHANGED LedgerOf(id, f)!ledgerVars
<1>1. Init => Begin
  BY LoansBegin
<1>2. HomesInv /\ ClockInv /\ [Next]_vars => Steps
  BY EveryLoanFollows DEF LoanStep
<1> HIDE DEF Begin, Steps
<1>3. Spec => Begin /\ [][Steps]_vars
  BY <1>1, <1>2, HomesInvariant, LoansAreOnSchedule, PTL DEF Spec
<1> QED
  BY <1>3 DEF Begin, Steps, LoansFollowTheLedger


-----------------------------------------------------------------------------
(* Storage that archives.                                                  *)

\* A transaction that finds its entries in storage is the one it was where
\* nothing is ever archived, and a restoration changes no record.
LEMMA StorageStep ==
  ASSUME [StorageNext]_storageVars
  PROVE  [Next]_vars
<1>1. CASE InstanceTx
  BY <1>1 DEF InstanceTx, Next
<1>2. CASE StoredEvidence
  <2>1. EvidenceTx
    BY <1>2 DEF StoredEvidence, EvidenceTx, Registry!EvidenceTx
  <2> QED
    BY <2>1 DEF Next
<1>3. CASE StoredTerms \/ StoredSignature
  <2>1. OracleTx
    BY <1>3 DEF StoredTerms, StoredSignature, OracleTx, Registry!OracleTx
  <2> QED
    BY <2>1 DEF Next
<1>4. CASE StoredApply
  BY <1>4 DEF StoredApply, Next
<1>5. CASE StoredApprove
  <2>1. ApproveTx
    BY <1>5 DEF StoredApprove, ApproveTx
  <2> QED
    BY <2>1 DEF Next
<1>6. CASE StoredDecline
  <2>1. DeclineTx
    BY <1>6 DEF StoredDecline, DeclineTx
  <2> QED
    BY <2>1 DEF Next
<1>7. ASSUME NEW id \in MortgageIds, StoredDisburse(id) \/ StoredRepay(id) \/ StoredMarkDefault(id)
      PROVE  Next
  <2>1. StoredDisburse(id) => DisburseLoan(id)
    BY DEF StoredDisburse, DisburseLoan
  <2>2. StoredRepay(id) => RepayLoan(id)
    BY DEF StoredRepay
  <2>3. StoredMarkDefault(id) => MarkDefaultLoan(id)
    BY DEF StoredMarkDefault
  <2> QED
    BY <1>7, <2>1, <2>2, <2>3 DEF Next, DisburseTx, RepayTx, MarkDefaultTx
<1>8. CASE StoredTick
  <2>1. Tick
    BY <1>8 DEF StoredTick, Tick
  <2> QED
    BY <2>1 DEF Next
<1>9. ASSUME NEW e, Restore(e) PROVE UNCHANGED vars
  BY <1>9 DEF Restore
<1>10. CASE UNCHANGED storageVars
  BY <1>10 DEF storageVars
<1> QED
  BY <1>1, <1>2, <1>3, <1>4, <1>5, <1>6, <1>7, <1>8, <1>9, <1>10 DEF StorageNext

\* Archival only stops transactions, it never changes what one does: what is
\* proved of the three contracts holds where storage runs out as well.
THEOREM StorageImplementsHomes == StorageSpec => Spec
<1>1. StorageInit => Init
  BY DEF StorageInit
<1>2. [StorageNext]_storageVars => [Next]_vars
  BY StorageStep
<1> QED
  BY <1>1, <1>2, PTL DEF StorageSpec, Spec

\* Every entry in storage has a lifetime.
LifetimesOK == live_until \in [Stored -> Nat]

Renewed(e) == e \in Stored' => live_until'[e] >= now + THRESHOLD

\* Every record rewritten is renewed, and so is every record created.
Renewing ==
  /\ \A p \in Registry!PropertyIds :
       /\ properties'[p] # properties[p] => Renewed(PropertyEntry(p))
       /\ \A s \in Registry!Stages :
            milestones'[p][s] # milestones[p][s] => Renewed(MilestoneEntry(p, s))
  /\ \A id \in MortgageIds \cap DOMAIN mortgages' :
       mortgages'[id] # mortgages[id] => Renewed(MortgageEntry(id))
  /\ \A e \in Stored' \ Stored : Renewed(e)

\* A transaction writes nothing but what it extends.
WritesOnly(extended) ==
  /\ \A p \in Registry!PropertyIds :
       /\ properties'[p] # properties[p] => PropertyEntry(p) \in extended
       /\ \A s \in Registry!Stages :
            milestones'[p][s] # milestones[p][s] => MilestoneEntry(p, s) \in extended
  /\ \A id \in MortgageIds \cap DOMAIN mortgages' :
       mortgages'[id] # mortgages[id] => MortgageEntry(id) \in extended

\* One that does leaves lifetimes, and renews what it wrote.
LEMMA AccessRenews ==
  ASSUME LifetimesOK, now \in Nat, NEW used, NEW extended, Access(used, extended),
         WritesOnly(extended)
  PROVE  LifetimesOK' /\ Renewing
<1>1. /\ EXTEND_TO \in Nat /\ THRESHOLD \in Nat /\ THRESHOLD <= EXTEND_TO
      /\ now + EXTEND_TO \in Nat
  BY StorageLifetimeAssumption
<1>2. ASSUME NEW e \in Stored
      PROVE  live_until[e] \in Nat /\ Extended(e) \in Nat /\ Extended(e) >= now + THRESHOLD
  BY <1>1, <1>2 DEF LifetimesOK, Extended
<1>3. live_until' = [e \in Stored' |->
         IF e \notin Stored THEN now + EXTEND_TO
         ELSE IF e \in extended THEN Extended(e) ELSE live_until[e]]
  BY DEF Access
<1>4. LifetimesOK'
  BY <1>1, <1>2, <1>3 DEF LifetimesOK
<1>5. ASSUME NEW e, e \in extended \/ e \notin Stored PROVE Renewed(e)
  BY <1>1, <1>2, <1>3, <1>5 DEF Renewed
<1>6. Renewing
  BY <1>5 DEF Renewing, WritesOnly
<1> QED
  BY <1>4, <1>6

\* One that writes nothing needs no extension.
LEMMA NothingWritten ==
  ASSUME \A p \in Registry!PropertyIds :
           properties'[p] = properties[p] /\ milestones'[p] = milestones[p],
         \A id \in MortgageIds \cap DOMAIN mortgages' : mortgages'[id] = mortgages[id],
         NEW extended
  PROVE  WritesOnly(extended)
  BY DEF WritesOnly

\* Rewriting one property, or one stage, rewrites no other.
LEMMA PropertyWritten ==
  ASSUME Registry!RegistryTypeOK, NEW p \in Registry!PropertyIds, NEW x,
         properties' = [properties EXCEPT ![p] = x]
  PROVE  \A q \in Registry!PropertyIds : properties'[q] # properties[q] => q = p
  BY RegistryRecords DEF Registry!PropertyIds

\* A step that writes the record of one stage writes that of no other.
LEMMA StageWritten ==
  ASSUME Registry!RegistryTypeOK, NEW p \in Registry!PropertyIds, NEW stage \in Registry!Stages,
         NEW x, milestones' = [milestones EXCEPT ![p] = [milestones[p] EXCEPT ![stage] = x]]
  PROVE  \A q \in Registry!PropertyIds : \A s \in Registry!Stages :
           milestones'[q][s] # milestones[q][s] => q = p /\ s = stage
<1>1. /\ p \in 1..Len(milestones)
      /\ milestones \in Seq([Registry!Stages -> Registry!Milestone])
      /\ milestones[p] \in [Registry!Stages -> Registry!Milestone]
  BY RegistryRecords
<1> DEFINE y == [milestones[p] EXCEPT ![stage] = x]
<1>2. \A s \in Registry!Stages : s # stage => y[s] = milestones[p][s]
  BY <1>1
<1> HIDE DEF y
<1>3. milestones'[p] = y
  BY <1>1 DEF y
<1>4. \A q \in Registry!PropertyIds : q # p => milestones'[q] = milestones[q]
  BY <1>1 DEF Registry!PropertyIds, Registry!RegistryTypeOK
<1> QED
  BY <1>2, <1>3, <1>4


\* Where only one loan is rewritten, it is enough to extend it, and the one
\* property and the one stage that are.
LEMMA LoanWritten ==
  ASSUME NEW id \in MortgageIds, MovedFor(id), NEW p, NEW stage, NEW extended,
         MortgageEntry(id) \in extended,
         \A q \in Registry!PropertyIds :
           properties'[q] # properties[q] => q = p /\ PropertyEntry(p) \in extended,
         \A q \in Registry!PropertyIds : \A s \in Registry!Stages :
           milestones'[q][s] # milestones[q][s] =>
             q = p /\ s = stage /\ MilestoneEntry(p, stage) \in extended
  PROVE  WritesOnly(extended)
<1>1. \A j \in MortgageIds \cap DOMAIN mortgages' : mortgages'[j] # mortgages[j] => j = id
  BY DEF MovedFor
<1> QED
  BY <1>1 DEF WritesOnly

\* Calls that only reach an instance rewrite no record of a property or loan.
LEMMA InstanceRenews ==
  ASSUME HomesInv, InstanceTx
  PROVE  WritesOnly({}) /\ Access({}, {})
<1>1. mortgages' = mortgages
  BY DEF InstanceTx, DepositTx, WithdrawTx, ClaimTx, SubmitTx, RolesTx, GovernanceTx,
         mortgageVars, loanVars
<1>2. CASE SubmitTx
  <2>1. PICK trustee \in trustees : Registry!SubmitProperty(trustee)
    BY <1>2 DEF SubmitTx, Registry!SubmitPropertyTx
  <2>2. /\ properties \in Seq(Registry!Property) /\ Len(milestones) = Len(properties)
        /\ milestones \in Seq([Registry!Stages -> Registry!Milestone])
    BY DEF HomesInv, HomesTypeOK, Registry!RegistryTypeOK
  <2>3. \A q \in 1..Len(properties) :
          properties'[q] = properties[q] /\ milestones'[q] = milestones[q]
    BY <2>1, <2>2 DEF Registry!SubmitProperty
  <2> QED
    BY <1>1, <2>3, NothingWritten DEF InstanceTx, NoAccess, Registry!PropertyIds
<1>3. CASE ~SubmitTx
  <2>1. properties' = properties /\ milestones' = milestones
    BY <1>3 DEF InstanceTx, DepositTx, WithdrawTx, ClaimTx, RolesTx, GovernanceTx,
                registryVars, Registry!AdminTx, Registry!SetTrustee, Registry!SetOracle
  <2> QED
    BY <1>1, <2>1, NothingWritten DEF InstanceTx, NoAccess
<1> QED
  BY <1>2, <1>3

\* The registry's calls extend the property and the stage they write.
LEMMA RegistryRenews ==
  ASSUME HomesInv, StoredEvidence \/ StoredTerms \/ StoredSignature
  PROVE  \E extended : WritesOnly(extended) /\ Access({}, extended)
<1>1. Registry!RegistryTypeOK
  BY DEF HomesInv, HomesTypeOK
<1>2. mortgages' = mortgages
  BY DEF StoredEvidence, StoredTerms, StoredSignature, mortgageVars, loanVars
<1>3. CASE StoredEvidence
  <2>1. PICK trustee \in trustees, p \in Registry!PropertyIds, s \in Registry!Stages,
             evidence_hash \in Evidence \cup {NoEvidence} :
          /\ Registry!SubmitMilestoneEvidence(trustee, p, s, evidence_hash)
          /\ Access({}, {PropertyEntry(p), MilestoneEntry(p, s)})
    BY <1>3 DEF StoredEvidence
  <2> DEFINE x == [milestones[p][s] EXCEPT !.evidence_hash = evidence_hash]
  <2>2. /\ milestones' = [milestones EXCEPT ![p] = [milestones[p] EXCEPT ![s] = x]]
        /\ properties' = properties
    BY <2>1 DEF Registry!SubmitMilestoneEvidence
  <2> HIDE DEF x
  <2>3. WritesOnly({PropertyEntry(p), MilestoneEntry(p, s)})
    BY <1>1, <1>2, <2>2, StageWritten DEF WritesOnly
  <2> QED
    BY <2>1, <2>3
<1>4. CASE StoredTerms
  <2>1. PICK oracle \in oracles, p \in Registry!PropertyIds :
          /\ \/ Registry!VerifyTitle(oracle, p)
             \/ \E usdc_value \in Valuations : Registry!SetValuation(oracle, p, usdc_value)
          /\ Access({}, {PropertyEntry(p)})
    BY <1>4 DEF StoredTerms
  <2>2. /\ \E x : properties' = [properties EXCEPT ![p] = x]
        /\ milestones' = milestones
    <3>1. CASE Registry!VerifyTitle(oracle, p)
      <4> DEFINE x == [properties[p] EXCEPT !.status = "Verified", !.verified_by = oracle]
      <4>1. properties' = [properties EXCEPT ![p] = x]
        BY <1>1, <3>1, RegistryRecords DEF Registry!VerifyTitle
      <4> QED
        BY <3>1, <4>1 DEF Registry!VerifyTitle
    <3>2. ASSUME NEW usdc_value \in Valuations, Registry!SetValuation(oracle, p, usdc_value)
          PROVE  <2>2!:
      <4> DEFINE x == [properties[p] EXCEPT !.usdc_value = usdc_value, !.valued_by = oracle]
      <4>1. properties' = [properties EXCEPT ![p] = x]
        BY <1>1, <3>2, RegistryRecords DEF Registry!SetValuation
      <4> QED
        BY <3>2, <4>1 DEF Registry!SetValuation
    <3> QED
      BY <2>1, <3>1, <3>2
  <2>3. WritesOnly({PropertyEntry(p)})
    BY <1>1, <1>2, <2>2, PropertyWritten DEF WritesOnly
  <2> QED
    BY <2>1, <2>3
<1>5. CASE StoredSignature
  <2>1. PICK oracle \in oracles, p \in Registry!PropertyIds, s \in Registry!Stages :
          /\ Registry!VerifyMilestone(oracle, p, s)
          /\ Access({}, {PropertyEntry(p)}
                          \cup {MilestoneEntry(p, t) : t \in {s - 1, s} \cap Registry!Stages})
    BY <1>5 DEF StoredSignature
  <2> DEFINE x == [milestones[p][s] EXCEPT !.verified = TRUE, !.verified_by = oracle]
             extended == {PropertyEntry(p)}
                           \cup {MilestoneEntry(p, t) : t \in {s - 1, s} \cap Registry!Stages}
  <2>2. /\ milestones' = [milestones EXCEPT ![p] = [milestones[p] EXCEPT ![s] = x]]
        /\ properties' = properties
    BY <1>1, <2>1, RegistryRecords DEF Registry!VerifyMilestone
  <2>3. MilestoneEntry(p, s) \in extended
    OBVIOUS
  <2> HIDE DEF x, extended
  <2>4. WritesOnly(extended)
    BY <1>1, <1>2, <2>2, <2>3, StageWritten DEF WritesOnly
  <2> QED
    BY <2>1, <2>4 DEF extended
<1> QED
  BY <1>3, <1>4, <1>5

\* An application and a refusal rewrite nothing; an approval extends the loan.
LEMMA SigningRenews ==
  ASSUME HomesInv, StoredApply \/ StoredApprove \/ StoredDecline
  PROVE  \E used, extended : WritesOnly(extended) /\ Access(used, extended)
<1>1. properties' = properties /\ milestones' = milestones
  BY DEF StoredApply, ApplyTx, StoredApprove, StoredDecline, registryVars
<1>2. CASE StoredApply
  <2>1. PICK p \in Registry!PropertyIds, f \in Facilities :
          Apply(p, f.principal, f.term_months, f.rate_bps)
    BY <1>2 DEF StoredApply, ApplyTx
  <2> DEFINE m == Application(p, f.principal, f.term_months, f.rate_bps)
  <2>2. mortgages' = Put(mortgages, next_id, m) /\ next_id \notin MortgageIds
    BY <2>1 DEF Apply, Save, HomesInv, HomesTypeOK, MortgageTypeOK
  <2>3. \A id \in MortgageIds : mortgages'[id] = mortgages[id]
    BY <2>2 DEF Put, MortgageIds
  <2> QED
    BY <1>1, <1>2, <2>3, NothingWritten DEF StoredApply
<1>3. CASE StoredApprove
  <2>1. PICK underwriter \in underwriters, id \in MortgageIds :
          /\ Approve(underwriter, id)
          /\ Access({}, {MortgageEntry(id), PropertyEntry(mortgages[id].property_id)})
    BY <1>3 DEF StoredApprove
  <2> DEFINE m == [mortgages[id] EXCEPT !.status = "Approved"]
  <2>2. mortgages' = Put(mortgages, id, m)
    BY <2>1 DEF Approve, Save
  <2>3. \A j \in MortgageIds : j # id => mortgages'[j] = mortgages[j]
    BY <2>2 DEF Put, MortgageIds
  <2> QED
    BY <1>1, <2>1, <2>3 DEF WritesOnly
<1>4. CASE StoredDecline
  <2>1. PICK underwriter \in underwriters, id \in MortgageIds :
          /\ Decline(underwriter, id)
          /\ Access({MortgageEntry(id), IndexEntry(mortgages[id].property_id)}, {})
    BY <1>4 DEF StoredDecline
  <2>2. \A j \in MortgageIds \cap DOMAIN mortgages' : mortgages'[j] = mortgages[j]
    BY <2>1 DEF Decline, Remove, MortgageIds
  <2> QED
    BY <1>1, <2>1, <2>2, NothingWritten
<1> QED
  BY <1>2, <1>3, <1>4

\* A draw extends the loan, its property and the stage; a default the loan and
\* its property; a payment the loan, and its property if it is the last.
LEMMA LoansRenew ==
  ASSUME HomesInv, NEW id \in MortgageIds,
         StoredDisburse(id) \/ StoredRepay(id) \/ StoredMarkDefault(id)
  PROVE  \E used, extended : WritesOnly(extended) /\ Access(used, extended)
<1> DEFINE old == mortgages[id]
<1>1. PICK p \in Registry!PropertyIds : p = old.property_id
  BY LoanTypes DEF HomesInv
<1>2. old \in Mortgage /\ Registry!RegistryTypeOK /\ now \in Nat
  BY LoanTypes DEF HomesInv, HomesTypeOK
<1>3. Accrue(old, now) \in Mortgage /\ Accrue(old, now).property_id = p
  BY <1>1, <1>2, AccrueKeeps
<1>4. ASSUME NEW status, Registry!Transition(p, status)
      PROVE  \A q \in Registry!PropertyIds : properties'[q] # properties[q] => q = p
  <2> DEFINE x == [properties[p] EXCEPT !.status = status]
  <2>1. properties' = [properties EXCEPT ![p] = x]
    BY <1>4 DEF Registry!Transition
  <2> HIDE DEF x
  <2> QED
    BY <1>2, <2>1, PropertyWritten
<1>5. CASE StoredDisburse(id)
  <2>1. PICK stage \in Registry!Stages :
          /\ Disburse(id, stage)
          /\ Access({}, {MortgageEntry(id), PropertyEntry(p), MilestoneEntry(p, stage)})
    BY <1>1, <1>5 DEF StoredDisburse
  <2>2. MovedFor(id)
    <3>1. DisburseLoan(id)
      BY <1>5 DEF StoredDisburse, DisburseLoan
    <3> QED
      BY <3>1, DisburseInv
  <2>3. \A q \in Registry!PropertyIds : properties'[q] # properties[q] => q = p
    BY <1>1, <1>4, <2>1 DEF Disburse, Registry!MarkMortgaged
  <2>4. \A q \in Registry!PropertyIds : \A s \in Registry!Stages :
          milestones'[q][s] # milestones[q][s] => q = p /\ s = stage
    <3> DEFINE x == [milestones[p][stage] EXCEPT !.released = TRUE]
    <3>1. milestones' = [milestones EXCEPT ![p] = [milestones[p] EXCEPT ![stage] = x]]
      BY <1>1, <2>1 DEF Disburse, Registry!MarkReleased
    <3> HIDE DEF x
    <3> QED
      BY <1>2, <3>1, StageWritten
  <2> DEFINE extended == {MortgageEntry(id), PropertyEntry(p), MilestoneEntry(p, stage)}
  <2>5. /\ MortgageEntry(id) \in extended /\ PropertyEntry(p) \in extended
        /\ MilestoneEntry(p, stage) \in extended
    OBVIOUS
  <2> HIDE DEF extended
  <2>6. WritesOnly(extended)
    BY <2>2, <2>3, <2>4, <2>5, LoanWritten
  <2> QED
    BY <2>1, <2>6 DEF extended
<1>6. CASE StoredRepay(id)
  <2>1. PICK amount \in Payments : Repay(id, amount)
    BY <1>6 DEF StoredRepay, RepayLoan
  <2>2. RepayLoan(id) /\ milestones' = milestones
    BY <1>6 DEF StoredRepay, RepayLoan
  <2>3. MovedFor(id)
    BY <2>1, <2>2, RepayInv DEF RepayLoan
  <2> DEFINE m == Accrue(old, now)
             after == AfterPayment(m, Smaller(amount, Payoff(m)))
             closed == [after EXCEPT !.status = "PaidOff"]
  <2>4. /\ amount > 0 /\ IsEnough(m, amount)
        /\ IF IsCleared(after)
           THEN Registry!Transition(p, "Repaid") /\ mortgages' = Put(mortgages, id, closed)
           ELSE mortgages' = Put(mortgages, id, after) /\ properties' = properties
    BY <1>3, <2>1 DEF Repay, Save, Registry!MarkRepaid
  <2>5. after \in Mortgage
    <3>1. amount \in Nat
      BY <2>4, StellarHomesAssumption
    <3> HIDE DEF m
    <3>2. m \in Mortgage
      BY <1>3 DEF m
    <3> QED
      BY <2>4, <3>1, <3>2, PaymentResult DEF PaidFrom
  <2> HIDE DEF after
  <2>6. closed.status = "PaidOff"
    BY <2>5 DEF Mortgage
  <2>7. mortgages'[id].status # "PaidOff" => properties' = properties
    <3> HIDE DEF closed
    <3>1. IsCleared(after) => mortgages'[id] = closed
      BY <2>4, Saved
    <3> QED
      BY <2>4, <2>6, <3>1
  <2>8. \A q \in Registry!PropertyIds : properties'[q] # properties[q] => q = p
    BY <1>4, <2>4
  <2>9. CASE mortgages'[id].status = "PaidOff"
    <3> DEFINE extended == {MortgageEntry(id), PropertyEntry(p)}
    <3>1. Access({IndexEntry(p)}, extended)
      BY <1>1, <1>6, <2>9 DEF StoredRepay
    <3>2. MortgageEntry(id) \in extended /\ PropertyEntry(p) \in extended
      OBVIOUS
    <3> HIDE DEF extended
    <3>3. WritesOnly(extended)
      BY <2>2, <2>3, <2>8, <3>2, LoanWritten
    <3> QED
      BY <3>1, <3>3
  <2>10. CASE mortgages'[id].status # "PaidOff"
    <3> DEFINE extended == {MortgageEntry(id)}
    <3>1. Access({}, extended)
      BY <1>6, <2>10 DEF StoredRepay
    <3>2. MortgageEntry(id) \in extended
      OBVIOUS
    <3> HIDE DEF extended
    <3>3. properties' = properties
      BY <2>7, <2>10
    <3>4. WritesOnly(extended)
      BY <2>2, <2>3, <3>2, <3>3, LoanWritten
    <3> QED
      BY <3>1, <3>4
  <2> QED
    BY <2>9, <2>10
<1>7. CASE StoredMarkDefault(id)
  <2>1. MarkDefaultLoan(id) /\ Access({IndexEntry(p)}, {MortgageEntry(id), PropertyEntry(p)})
    BY <1>1, <1>7 DEF StoredMarkDefault
  <2>2. /\ milestones' = milestones
        /\ \A q \in Registry!PropertyIds : properties'[q] # properties[q] => q = p
    BY <1>3, <1>4, <2>1 DEF MarkDefaultLoan, MarkDefault, Registry!MarkDefaulted
  <2>3. MovedFor(id)
    BY <2>1, MarkDefaultInv
  <2> DEFINE extended == {MortgageEntry(id), PropertyEntry(p)}
  <2>4. MortgageEntry(id) \in extended /\ PropertyEntry(p) \in extended
    OBVIOUS
  <2> HIDE DEF extended
  <2>5. WritesOnly(extended)
    BY <2>2, <2>3, <2>4, LoanWritten
  <2> QED
    BY <2>1, <2>5 DEF extended
<1> QED
  BY <1>5, <1>6, <1>7

\* A step leaves every entry a lifetime, and renews what it wrote.
LEMMA StorageRenews ==
  ASSUME HomesInv, LifetimesOK, [StorageNext]_storageVars
  PROVE  LifetimesOK' /\ [Renewing]_storageVars
<1>1. now \in Nat
  BY DEF HomesInv, HomesTypeOK
<1>2. ASSUME NEW used, NEW extended, WritesOnly(extended) /\ Access(used, extended)
      PROVE  LifetimesOK' /\ [Renewing]_storageVars
  BY <1>1, <1>2, AccessRenews
<1>3. CASE InstanceTx
  BY <1>2, <1>3, InstanceRenews
<1>4. CASE StoredEvidence \/ StoredTerms \/ StoredSignature
  BY <1>2, <1>4, RegistryRenews
<1>5. CASE StoredApply \/ StoredApprove \/ StoredDecline
  BY <1>2, <1>5, SigningRenews
<1>6. CASE \E id \in MortgageIds :
             StoredDisburse(id) \/ StoredRepay(id) \/ StoredMarkDefault(id)
  BY <1>2, <1>6, LoansRenew
<1>7. CASE StoredTick
  <2>1. WritesOnly({}) /\ Access({}, {})
    BY <1>7, NothingWritten DEF StoredTick, NoAccess, loanVars, registryVars
  <2> QED
    BY <1>2, <2>1
<1>8. ASSUME UNCHANGED vars PROVE Stored' = Stored /\ now' = now
  BY <1>8 DEF vars, mortgageVars, loanVars, registryVars, Stored, PropertyEntry,
              MilestoneEntry, MortgageEntry, IndexEntry, MortgageIds, Registry!PropertyIds,
              Registry!Stages
<1>9. ASSUME NEW e \in Entries, Restore(e) PROVE LifetimesOK' /\ Renewing
  <2>1. /\ UNCHANGED <<properties, milestones, mortgages>> /\ Stored' = Stored
        /\ live_until' = [live_until EXCEPT ![e] = now + RestoredFor]
    BY <1>8, <1>9 DEF Restore, vars, mortgageVars, loanVars, registryVars
  <2>2. now + RestoredFor \in Nat
    BY <1>1, StorageLifetimeAssumption
  <2> QED
    BY <2>1, <2>2 DEF LifetimesOK, Renewing
<1>10. CASE UNCHANGED storageVars
  BY <1>8, <1>10 DEF storageVars, LifetimesOK
<1> QED
  BY <1>3, <1>4, <1>5, <1>6, <1>7, <1>9, <1>10 DEF StorageNext

\* "There is no path that writes a persistent entry without extending it".
THEOREM WritesExtendAlways == StorageSpec => WritesExtend
<1>1. StorageInit => LifetimesOK
  <2> SUFFICES ASSUME StorageInit PROVE LifetimesOK
    OBVIOUS
  <2>1. now + EXTEND_TO \in Nat
    BY StorageLifetimeAssumption DEF StorageInit, Init, MortgageInit
  <2> QED
    BY <2>1 DEF StorageInit, LifetimesOK
<1>2. HomesInv /\ LifetimesOK /\ [StorageNext]_storageVars =>
        LifetimesOK' /\ [Renewing]_storageVars
  BY StorageRenews
<1>3. StorageSpec => []HomesInv
  BY StorageImplementsHomes, HomesInvariant, PTL
<1>4. StorageSpec => [][Renewing]_storageVars
  BY <1>1, <1>2, <1>3, PTL DEF StorageSpec
<1> QED
  BY <1>4 DEF WritesExtend, Renewing, Renewed

=============================================================================
