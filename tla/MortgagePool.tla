--------------------------- MODULE MortgagePool ----------------------------
(***************************************************************************)
(* The loans: contracts/mortgage_pool/src/lib.rs.                          *)
(*                                                                         *)
(* Every handler is one transaction: it reads the registry, changes the    *)
(* loan, and calls the pool and the registry back.  A panic anywhere in it *)
(* rolls the whole transaction back, so the guards of the calls it makes   *)
(* are guards of the handler.                                              *)
(***************************************************************************)
EXTENDS MortgageLoan, Sequences, FiniteSets

CONSTANTS
  MAX_LTV_BPS,         \* 8 000 in the code
  MAX_RATE_BPS,        \* 3 000 in the code
  TIMELOCK_SECS,       \* timelock set at deployment
  FirstGrace,          \* grace period set at deployment
  GraceChoices,        \* grace periods the admin schedules
  FirstUnderwriters,   \* underwriters the admin authorizes at deployment
  UnderwriterChanges,  \* addresses the admin grants or revokes the role later
  NoAction,            \* nothing in DataKey::Scheduled
  \* of the LendingPool
  Investors, SCALE, Amounts, MaxShares, MaxInterest,
  \* of the PropertyRegistry
  FirstTrustees, FirstOracles, TrusteeChanges, OracleChanges, Evidence, NoEvidence, Nobody,
  Valuations, MaxProperties

ASSUME MortgagePoolAssumption ==
  /\ MAX_LTV_BPS \in Nat
  /\ MAX_RATE_BPS \in Nat
  /\ TIMELOCK_SECS \in Nat
  /\ FirstGrace \in Nat
  /\ GraceChoices \subseteq Nat
  /\ IsFiniteSet(Investors)
  /\ SCALE \in Nat \ {0}
  /\ Amounts \subseteq Int
  /\ MaxShares \in Nat
  /\ MaxInterest \in Nat
  /\ NoEvidence \notin Evidence
  /\ Nobody \notin FirstTrustees \cup FirstOracles \cup TrusteeChanges \cup OracleChanges
  /\ Valuations \subseteq Int
  /\ MaxProperties \in Nat

VARIABLES
  mortgages,           \* DataKey::Mortgage, a function on the ids in storage
  property_mortgage,   \* DataKey::PropertyMortgage, on the financed properties
  next_id,             \* DataKey::NextId
  underwriters,        \* DataKey::Underwriter
  grace_secs,          \* DataKey::GraceSecs
  scheduled,           \* DataKey::Scheduled
  now,                 \* the ledger timestamp
  \* of the LendingPool
  positions, total_capital, total_reserved, total_lent, total_interest,
  total_written_off, total_shares, acc, carry, usdc,
  \* of the PropertyRegistry
  trustees, oracles, properties, milestones

Pool     == INSTANCE LendingPool
Registry == INSTANCE PropertyRegistry

loanVars == <<mortgages, property_mortgage, next_id>>
adminVars == <<underwriters, grace_secs, scheduled>>
mortgageVars == <<loanVars, adminVars, now>>

MortgageInit ==
  /\ mortgages = <<>>
  /\ property_mortgage = <<>>
  /\ next_id = 1
  /\ underwriters = FirstUnderwriters
  /\ grace_secs = FirstGrace
  /\ scheduled = NoAction
  /\ now = 1

-----------------------------------------------------------------------------
(* Storage.  An operator named Op_Mistake is a slip, as in LendingPool.    *)

MortgageIds == DOMAIN mortgages

\* f with key set to value, and f without key
Put(f, key, value) ==
  [k \in DOMAIN f \cup {key} |-> IF k = key THEN value ELSE f[k]]

Remove(f, key) == [k \in DOMAIN f \ {key} |-> f[k]]

Save(id, m) == mortgages' = Put(mortgages, id, m)

SetPropertyMortgage(p, id) == property_mortgage' = Put(property_mortgage, p, id)

ClearPropertyMortgage_Forgotten(p) == UNCHANGED property_mortgage

ClearPropertyMortgage(p) == property_mortgage' = Remove(property_mortgage, p)

HasStatus(id, statuses) == id \in MortgageIds /\ mortgages[id].status \in statuses

-----------------------------------------------------------------------------
(* Administration.  The admin and the handover of the role are left out.   *)

SetUnderwriter(address, authorized) ==
  /\ underwriters' = Registry!SetRole(underwriters, address, authorized)
  /\ UNCHANGED <<grace_secs, scheduled>>

\* schedule_action(SetGraceSecs(secs)); an upgrade has no effect on the state
ScheduleGrace(secs) ==
  /\ scheduled = NoAction
  /\ secs # 0
  /\ now + TIMELOCK_SECS <= MAX_U64
  /\ scheduled' = [secs |-> secs, eta |-> now + TIMELOCK_SECS]
  /\ UNCHANGED <<underwriters, grace_secs>>

ExecuteAction_BeforeEta ==
  /\ scheduled # NoAction
  /\ scheduled.secs # 0
  /\ scheduled' = NoAction
  /\ grace_secs' = scheduled.secs
  /\ UNCHANGED underwriters

ExecuteAction ==
  /\ scheduled # NoAction
  /\ now >= scheduled.eta
  /\ scheduled.secs # 0
  /\ scheduled' = NoAction
  /\ grace_secs' = scheduled.secs
  /\ UNCHANGED underwriters

CancelAction ==
  /\ scheduled # NoAction
  /\ scheduled' = NoAction
  /\ UNCHANGED <<underwriters, grace_secs>>

-----------------------------------------------------------------------------
(* Borrower operations.                                                    *)

WithinLtv(principal, p) ==
  principal * BPS_DENOMINATOR <= properties[p].usdc_value * MAX_LTV_BPS

\* writes loanVars
Apply(p, principal, term_months, rate_bps) ==
  /\ principal > 0
  /\ term_months > 0
  /\ rate_bps <= MAX_RATE_BPS
  /\ p \notin DOMAIN property_mortgage
  /\ p \in Registry!PropertyIds
  /\ Registry!IsVerified(p)
  /\ WithinLtv(principal, p)
  /\ next_id' = next_id + 1
  /\ Save(next_id, Application(p, principal, term_months, rate_bps))
  /\ SetPropertyMortgage(p, next_id)

ReleaseUndrawn_Always(m) == Pool!Unreserve(Undrawn(m))

ReleaseUndrawn_Never(m) == UNCHANGED total_reserved

\* Return the undrawn facility to the pool, if any: writes total_reserved
ReleaseUndrawn(m) ==
  IF Undrawn(m) > 0 THEN Pool!Unreserve(Undrawn(m)) ELSE UNCHANGED total_reserved

\* writes loanVars, properties and what Pool!Repay and Pool!Unreserve write
Repay(id, amount) ==
  /\ amount > 0
  /\ HasStatus(id, {"Funded", "Repaying"})
  /\ LET m     == Accrue(mortgages[id], now)
         paid  == Smaller(amount, Payoff(m))
         after == AfterPayment(m, paid)
     IN  /\ IsEnough(m, amount)
         /\ Pool!Repay(PrincipalPart(m, paid), InterestPart(m, paid))
         /\ IF IsCleared(after)
            THEN /\ ReleaseUndrawn(after)
                 /\ ClearPropertyMortgage(m.property_id)
                 /\ Registry!MarkRepaid(m.property_id)
                 /\ Save(id, [after EXCEPT !.status = "PaidOff"])
            ELSE /\ Save(id, after)
                 /\ UNCHANGED <<total_reserved, property_mortgage, properties>>
  /\ UNCHANGED next_id

-----------------------------------------------------------------------------
(* Underwriter operations.                                                 *)

Approve_OnStaleValuation(underwriter, id) ==
  /\ underwriter \in underwriters
  /\ HasStatus(id, {"Applied"})
  /\ Pool!Reserve(mortgages[id].principal)
  /\ Save(id, [mortgages[id] EXCEPT !.status = "Approved"])
  /\ UNCHANGED <<property_mortgage, next_id>>

\* writes loanVars, total_reserved
Approve(underwriter, id) ==
  /\ underwriter \in underwriters
  /\ HasStatus(id, {"Applied"})
  /\ LET m == mortgages[id]
     IN  /\ Registry!IsVerified(m.property_id)
         /\ WithinLtv(m.principal, m.property_id)
         /\ Pool!Reserve(m.principal)
         /\ Save(id, [m EXCEPT !.status = "Approved"])
  /\ UNCHANGED <<property_mortgage, next_id>>

\* writes loanVars
Decline(underwriter, id) ==
  /\ underwriter \in underwriters
  /\ HasStatus(id, {"Applied"})
  /\ ClearPropertyMortgage(mortgages[id].property_id)
  /\ mortgages' = Remove(mortgages, id)
  /\ UNCHANGED next_id

-----------------------------------------------------------------------------
(* Permissionless operations.                                              *)

\* writes loanVars, milestones, properties and what Pool!Disburse writes
Disburse(id, stage) ==
  /\ HasStatus(id, {"Approved", "Funded"})
  /\ LET p       == mortgages[id].property_id
         tranche == TrancheFor(mortgages[id], stage)
         m       == Accrue(mortgages[id], now)
     IN  /\ Registry!IsReleasable(p, stage)
         /\ tranche > 0
         /\ Registry!MarkReleased(p, stage)
         /\ Pool!Disburse(tranche)
         /\ IF IsFirstDraw(m) THEN Registry!MarkMortgaged(p) ELSE UNCHANGED properties
         /\ Save(id, AfterDraw(m, tranche, now))
  /\ UNCHANGED <<property_mortgage, next_id>>

\* is_defaultable
IsDefaultable(id) ==
  /\ HasStatus(id, {"Funded", "Repaying"})
  /\ IsInDefault(mortgages[id], now, grace_secs)

\* writes loanVars, properties and what Pool!Unreserve and Pool!WriteOff write
MarkDefault(id) ==
  /\ HasStatus(id, {"Funded", "Repaying"})
  /\ IsInDefault(mortgages[id], now, grace_secs)
  /\ LET m == Accrue(mortgages[id], now)
     IN  /\ ReleaseUndrawn(m)
         /\ IF m.outstanding > 0 THEN Pool!WriteOff(m.outstanding)
                                 ELSE UNCHANGED <<total_lent, total_written_off>>
         /\ ClearPropertyMortgage(m.property_id)
         /\ Registry!MarkDefaulted(m.property_id)
         /\ Save(id, [m EXCEPT !.status = "Defaulted"])
  /\ UNCHANGED next_id

=============================================================================
