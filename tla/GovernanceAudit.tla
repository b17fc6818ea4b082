-------------------------- MODULE GovernanceAudit --------------------------
(***************************************************************************)
(* Governance with a record of who proposed the pending admin and of what  *)
(* has been announced and not withdrawn, and since when.  The steps are    *)
(* Governance's and read none of it.                                       *)
(***************************************************************************)
EXTENDS Governance

VARIABLES
  proposer,    \* who was admin when pending_admin was proposed
  announced    \* {[action, since]}: the action in the queue, if any

recordVars == <<proposer, announced>>
auditVars == <<governanceVars, recordVars>>

AuditInit ==
  /\ GovernanceInit
  /\ proposer = NoAddress
  /\ announced = {}

AuditedPropose == \E caller \in Signers, new_admin \in Addresses :
  /\ ProposeAdmin(caller, new_admin)
  /\ proposer' = admin
  /\ UNCHANGED announced

AuditedAccept == \E caller \in Signers :
  /\ AcceptAdmin(caller)
  /\ UNCHANGED recordVars

AuditedSchedule == \E caller \in Signers, action \in Actions :
  /\ ScheduleAction(caller, action)
  /\ announced' = {[action |-> action, since |-> now]}
  /\ UNCHANGED proposer

AuditedOther ==
  /\ \E caller \in Signers : OtherCalls(caller)
  /\ announced' = IF scheduled' = NoAction THEN {} ELSE announced
  /\ UNCHANGED proposer

AuditedUpload == \E hash \in Upgrades :
  /\ Upload(hash)
  /\ UNCHANGED recordVars

AuditedTick == Tick /\ UNCHANGED recordVars

AuditNext ==
  \/ AuditedPropose
  \/ AuditedAccept
  \/ AuditedSchedule
  \/ AuditedOther
  \/ AuditedUpload
  \/ AuditedTick

AuditSpec == AuditInit /\ [][AuditNext]_auditVars

-----------------------------------------------------------------------------
(* Properties.                                                             *)

\* A handover in waiting was proposed by the admin of this moment: somebody who
\* has given the role up, or been passed over, cannot come back on an old
\* proposal, nor can their nominee.
ProposalsAreTheAdmins == pending_admin # NoAddress => proposer = admin

\* "borrowers and investors see every such change coming": what is upgraded or
\* changed is what was announced, and it has been in the queue, uninterrupted
\* and unaltered, for the whole timelock, through any handovers, cancellations
\* and announcements in between.
ChangesWaitOutTheTimelock ==
  [][effects' # effects =>
       \E notice \in announced :
         /\ now >= notice.since + TIMELOCK_SECS
         /\ \/ notice.action = [kind |-> "Upgrade", hash |-> code']
            \/ notice.action = [kind |-> "SetGraceSecs", secs |-> grace_secs']]_auditVars

=============================================================================
