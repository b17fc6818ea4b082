------------------------- MODULE GovernanceProofs --------------------------
(***************************************************************************)
(* Theorems of Governance and GovernanceAudit, for any addresses, actions, *)
(* timelock and width of the time.                                         *)
(***************************************************************************)
EXTENDS GovernanceAudit, TLAPS

-----------------------------------------------------------------------------
(* The admin.                                                              *)

\* The role is with somebody who can sign, and every entry has its type.
AdminInv == GovernanceTypeOK /\ AdminCanSign

\* Every handler keeps the types and the admin's ability to sign.
LEMMA AdminStep ==
  ASSUME AdminInv, [GovernanceNext]_governanceVars
  PROVE  AdminInv'
<1> USE GovernanceAssumption
    DEF AdminInv, GovernanceTypeOK, AdminCanSign, handover, effects, host, RequireAdmin
<1>1. ASSUME NEW caller \in Signers, NEW pool \in Addresses, SetMortgagePool(caller, pool)
      PROVE  AdminInv'
  BY <1>1 DEF SetMortgagePool
<1>2. ASSUME NEW caller \in Signers, NEW action \in Actions, ScheduleAction(caller, action)
      PROVE  AdminInv'
  BY <1>2 DEF ScheduleAction
<1>3. ASSUME NEW caller \in Signers, ExecuteAction(caller)
      PROVE  AdminInv'
  <2>1. scheduled.action \in Actions /\ scheduled' = NoAction
    BY <1>3 DEF ExecuteAction
  <2>2. grace_secs' \in Nat /\ code' \in Upgrades \cup {FirstCode}
    <3>1. CASE scheduled.action.kind = "Upgrade" /\ code' = scheduled.action.hash
               /\ grace_secs' = grace_secs
      BY <2>1, <3>1 DEF Actions
    <3>2. CASE scheduled.action.kind = "SetGraceSecs" /\ grace_secs' = scheduled.action.secs
               /\ code' = code
      BY <2>1, <3>2 DEF Actions
    <3> QED
      BY <1>3, <3>1, <3>2 DEF ExecuteAction
  <2> QED
    BY <1>3, <2>1, <2>2 DEF ExecuteAction
<1>4. ASSUME NEW caller \in Signers, CancelAction(caller)
      PROVE  AdminInv'
  BY <1>4 DEF CancelAction
<1>5. ASSUME NEW caller \in Signers, NEW new_admin \in Addresses, ProposeAdmin(caller, new_admin)
      PROVE  AdminInv'
  BY <1>5 DEF ProposeAdmin
<1>6. ASSUME NEW caller \in Signers, AcceptAdmin(caller)
      PROVE  AdminInv'
  BY <1>6 DEF AcceptAdmin
<1>7. ASSUME NEW hash \in Upgrades, Upload(hash)
      PROVE  AdminInv'
  BY <1>7 DEF Upload
<1>8. CASE Tick
  BY <1>8 DEF Tick
<1>9. CASE UNCHANGED governanceVars
  BY <1>9 DEF governanceVars
<1> QED
  BY <1>1, <1>2, <1>3, <1>4, <1>5, <1>6, <1>7, <1>8, <1>9 DEF GovernanceNext, OtherCalls

\* The invariant of the administration.
THEOREM AdminInvariant == GovernanceSpec => []AdminInv
<1>1. GovernanceInit => AdminInv
  BY GovernanceAssumption DEF GovernanceInit, AdminInv, GovernanceTypeOK, AdminCanSign
<1>2. AdminInv /\ [GovernanceNext]_governanceVars => AdminInv'
  BY AdminStep
<1> QED
  BY <1>1, <1>2, PTL DEF GovernanceSpec

-----------------------------------------------------------------------------
(* The record of proposals and announcements.                              *)

\* An audited step is a step of Governance, so what holds of Governance holds
\* of it with its record.
THEOREM AuditImplementsGovernance == AuditSpec => GovernanceSpec
<1>1. AuditInit => GovernanceInit
  BY DEF AuditInit
<1>2. [AuditNext]_auditVars => [GovernanceNext]_governanceVars
  BY DEF AuditNext, auditVars, AuditedPropose, AuditedAccept, AuditedSchedule, AuditedOther,
         AuditedUpload, AuditedTick, GovernanceNext
<1> QED
  BY <1>1, <1>2, PTL DEF AuditSpec, GovernanceSpec

\* No code or grace period of another type ever takes effect.
THEOREM GovernanceTypeCorrect == AuditSpec => []GovernanceTypeOK
  BY AuditImplementsGovernance, AdminInvariant, PTL DEF AdminInv

\* No mistyped proposal locks the protocol out.
THEOREM AdminAlwaysSigns == AuditSpec => []AdminCanSign
  BY AuditImplementsGovernance, AdminInvariant, PTL DEF AdminInv

\* What waits in the queue was announced, a timelock before its eta.
QueueInv ==
  scheduled # NoAction =>
    \E notice \in announced :
      /\ notice.action = scheduled.action
      /\ notice.since \in Nat
      /\ scheduled.eta = notice.since + TIMELOCK_SECS

RecordInv == ProposalsAreTheAdmins /\ QueueInv

\* Every audited step keeps the record in line with the contract.
LEMMA RecordStep ==
  ASSUME AdminInv, RecordInv, [AuditNext]_auditVars
  PROVE  RecordInv'
<1> USE GovernanceAssumption DEF RecordInv, ProposalsAreTheAdmins, QueueInv, handover
<1>1. CASE AuditedPropose
  BY <1>1 DEF AuditedPropose, ProposeAdmin
<1>2. CASE AuditedAccept
  BY <1>2 DEF AuditedAccept, AcceptAdmin, recordVars
<1>3. CASE AuditedSchedule
  <2>1. PICK caller \in Signers, action \in Actions :
          /\ ScheduleAction(caller, action)
          /\ announced' = {[action |-> action, since |-> now]}
          /\ UNCHANGED proposer
    BY <1>3 DEF AuditedSchedule
  <2>2. scheduled' = [action |-> action, eta |-> now + TIMELOCK_SECS] /\ now \in Nat
    BY <2>1 DEF ScheduleAction, AdminInv, GovernanceTypeOK
  <2>3. QueueInv'
    BY <2>1, <2>2
  <2> QED
    BY <2>1, <2>3 DEF ScheduleAction
<1>4. CASE AuditedOther
  <2>1. PICK caller \in Signers : OtherCalls(caller)
    BY <1>4 DEF AuditedOther
  <2>2. /\ handover' = handover /\ proposer' = proposer
        /\ scheduled' = NoAction \/ scheduled' = scheduled
        /\ announced' = IF scheduled' = NoAction THEN {} ELSE announced
    BY <1>4, <2>1
       DEF AuditedOther, OtherCalls, SetMortgagePool, ExecuteAction, CancelAction
  <2> QED
    BY <2>2
<1>5. CASE AuditedUpload
  BY <1>5 DEF AuditedUpload, Upload, recordVars
<1>6. CASE AuditedTick
  BY <1>6 DEF AuditedTick, Tick, recordVars
<1>7. CASE UNCHANGED auditVars
  BY <1>7 DEF auditVars, governanceVars, recordVars
<1> QED
  BY <1>1, <1>2, <1>3, <1>4, <1>5, <1>6, <1>7 DEF AuditNext

\* The record is in line with the contract at all times.
THEOREM RecordInvariant == AuditSpec => [](AdminInv /\ RecordInv)
<1>1. AuditInit => RecordInv
  BY DEF AuditInit, GovernanceInit, RecordInv, ProposalsAreTheAdmins, QueueInv
<1>2. AdminInv /\ RecordInv /\ [AuditNext]_auditVars => RecordInv'
  BY RecordStep
<1> QED
  BY <1>1, <1>2, AuditImplementsGovernance, AdminInvariant, PTL DEF AuditSpec

\* A proposal in waiting is the present admin's.
THEOREM NoStaleProposals == AuditSpec => []ProposalsAreTheAdmins
  BY RecordInvariant, PTL DEF RecordInv

\* Only an executed action changes the code or the grace period, and it was
\* announced a whole timelock before.
LEMMA EffectsAreAnnounced ==
  ASSUME AdminInv, RecordInv, [AuditNext]_auditVars, effects' # effects
  PROVE  \E notice \in announced :
           /\ now >= notice.since + TIMELOCK_SECS
           /\ \/ notice.action = [kind |-> "Upgrade", hash |-> code']
              \/ notice.action = [kind |-> "SetGraceSecs", secs |-> grace_secs']
<1>1. \E caller \in Signers : ExecuteAction(caller)
  BY DEF AuditNext, auditVars, governanceVars, AuditedPropose, AuditedAccept, AuditedSchedule,
         AuditedOther, AuditedUpload, AuditedTick, OtherCalls, SetMortgagePool, CancelAction,
         ProposeAdmin, AcceptAdmin, ScheduleAction, Upload, Tick, effects
<1>2. /\ scheduled # NoAction /\ now >= scheduled.eta
      /\ \/ scheduled.action.kind = "Upgrade" /\ code' = scheduled.action.hash
         \/ scheduled.action.kind = "SetGraceSecs" /\ grace_secs' = scheduled.action.secs
  BY <1>1 DEF ExecuteAction
<1>3. PICK notice \in announced :
        /\ notice.action = scheduled.action
        /\ scheduled.eta = notice.since + TIMELOCK_SECS
  BY <1>2 DEF RecordInv, QueueInv
<1>4. scheduled.action \in Actions
  BY <1>2 DEF AdminInv, GovernanceTypeOK
<1>5. \/ scheduled.action = [kind |-> "Upgrade", hash |-> code']
      \/ scheduled.action = [kind |-> "SetGraceSecs", secs |-> grace_secs']
  BY <1>2, <1>4 DEF Actions
<1> QED
  BY <1>2, <1>3, <1>5

\* Nothing takes effect that was not announced a timelock before.
THEOREM ChangesAreSeenComing == AuditSpec => ChangesWaitOutTheTimelock
<1>1. AdminInv /\ RecordInv /\ [AuditNext]_auditVars =>
        [effects' # effects =>
           \E notice \in announced :
             /\ now >= notice.since + TIMELOCK_SECS
             /\ \/ notice.action = [kind |-> "Upgrade", hash |-> code']
                \/ notice.action = [kind |-> "SetGraceSecs", secs |-> grace_secs']]_auditVars
  BY EffectsAreAnnounced
<1> QED
  BY <1>1, RecordInvariant, PTL DEF AuditSpec, ChangesWaitOutTheTimelock

-----------------------------------------------------------------------------
(* The queue can be emptied.                                               *)
(*                                                                         *)
(* That an action is ENABLED is out of the provers' reach; what is proved  *)
(* instead is when, in a reachable state, it comes down to an assignment   *)
(* of a value to each variable, and when no step is one.                   *)

\* Nothing is queued that execute_action would refuse at every time to come: its
\* eta is a u64, and a grace period is not zero.  An upgrade is only refused as
\* long as nobody has uploaded its code.
QueueIsSound ==
  scheduled # NoAction =>
    /\ scheduled.action.kind = "Upgrade" => scheduled.action.hash \in Upgrades
    /\ scheduled.action.kind = "SetGraceSecs" => scheduled.action.secs \in Nat \ {0}
    /\ scheduled.action.kind \in {"Upgrade", "SetGraceSecs"}
    /\ scheduled.eta \in Nat /\ scheduled.eta <= MAX_U64

\* It is sound in every reachable state: schedule_action refuses a grace period
\* of nothing and an eta past the end of time, and nobody else writes the queue.
\* What schedule_action does not look at is whether the code of an upgrade is
\* on the ledger.
THEOREM QueueStaysSound == GovernanceSpec => []QueueIsSound
<1>1. GovernanceInit => QueueIsSound
  BY DEF GovernanceInit, QueueIsSound
<1>2. ASSUME AdminInv, QueueIsSound, [GovernanceNext]_governanceVars
      PROVE  QueueIsSound'
  <2>1. ASSUME NEW caller \in Signers, NEW action \in Actions, ScheduleAction(caller, action)
        PROVE  QueueIsSound'
    <3>1. /\ scheduled' = [action |-> action, eta |-> now + TIMELOCK_SECS]
          /\ action.kind = "SetGraceSecs" => action.secs # 0
          /\ now + TIMELOCK_SECS <= MAX_U64
      BY <2>1 DEF ScheduleAction
    <3>2. /\ action.kind \in {"Upgrade", "SetGraceSecs"}
          /\ action.kind = "Upgrade" => action.hash \in Upgrades
          /\ action.kind = "SetGraceSecs" => action.secs \in Nat
      BY GovernanceAssumption DEF Actions
    <3>3. now + TIMELOCK_SECS \in Nat
      BY <1>2, GovernanceAssumption DEF AdminInv, GovernanceTypeOK
    <3> QED
      BY <3>1, <3>2, <3>3 DEF QueueIsSound
  <2>2. CASE scheduled' = scheduled \/ scheduled' = NoAction
    BY <1>2, <2>2 DEF QueueIsSound
  <2> QED
    BY <1>2, <2>1, <2>2
       DEF GovernanceNext, governanceVars, OtherCalls, SetMortgagePool, ExecuteAction,
           CancelAction, ProposeAdmin, AcceptAdmin, Upload, Tick
<1> QED
  BY <1>1, <1>2, AdminInvariant, PTL DEF GovernanceSpec

\* The admin of the moment can always cancel what is queued.  Once its time has
\* come they can execute it if the host has what it installs, and as long as
\* the host has not, they cannot: the call fails, whoever makes it.  Anybody can
\* end that by uploading the code, which leaves the queue as it is.
THEOREM QueueCanBeEmptied ==
  ASSUME AdminInv, QueueIsSound, scheduled # NoAction
  PROVE  /\ CancelAction(admin) <=>
              /\ scheduled' = NoAction
              /\ UNCHANGED <<handover, mortgage_pool, effects, host>>
         /\ now >= scheduled.eta /\ IsInstallable(scheduled.action) =>
              (ExecuteAction(admin) <=>
                 /\ scheduled' = NoAction
                 /\ code' = IF scheduled.action.kind = "Upgrade"
                            THEN scheduled.action.hash ELSE code
                 /\ grace_secs' = IF scheduled.action.kind = "Upgrade"
                                  THEN grace_secs ELSE scheduled.action.secs
                 /\ UNCHANGED <<handover, mortgage_pool, host>>)
         /\ ~IsInstallable(scheduled.action) =>
              /\ \A caller \in Signers : ~ExecuteAction(caller)
              /\ scheduled.action.hash \in Upgrades
              /\ Upload(scheduled.action.hash) =>
                   IsInstallable(scheduled.action)' /\ scheduled' = scheduled
<1>1. CancelAction(admin) <=>
        /\ scheduled' = NoAction
        /\ UNCHANGED <<handover, mortgage_pool, effects, host>>
  BY DEF AdminInv, AdminCanSign, RequireAdmin, CancelAction
<1>2. ASSUME now >= scheduled.eta, IsInstallable(scheduled.action)
      PROVE  ExecuteAction(admin) <=>
               /\ scheduled' = NoAction
               /\ code' = IF scheduled.action.kind = "Upgrade"
                          THEN scheduled.action.hash ELSE code
               /\ grace_secs' = IF scheduled.action.kind = "Upgrade"
                                THEN grace_secs ELSE scheduled.action.secs
               /\ UNCHANGED <<handover, mortgage_pool, host>>
  BY <1>2 DEF AdminInv, AdminCanSign, QueueIsSound, IsInstallable, RequireAdmin, ExecuteAction
<1>3. ASSUME ~IsInstallable(scheduled.action)
      PROVE  /\ \A caller \in Signers : ~ExecuteAction(caller)
             /\ scheduled.action.hash \in Upgrades
             /\ Upload(scheduled.action.hash) =>
                  IsInstallable(scheduled.action)' /\ scheduled' = scheduled
  BY <1>3 DEF QueueIsSound, IsInstallable, ExecuteAction, Upload
<1> QED
  BY <1>1, <1>2, <1>3

=============================================================================
