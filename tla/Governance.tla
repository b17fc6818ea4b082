---------------------------- MODULE Governance -----------------------------
(***************************************************************************)
(* The administration every contract carries: who the admin is, what waits *)
(* behind the timelock, and which MortgagePool the contract obeys.         *)
(*                                                                         *)
(* The handlers are the same in the three contracts, except that only the  *)
(* MortgagePool has a grace period to change, and only the other two have  *)
(* set_mortgage_pool.  One contract is modelled, with both.  An upgrade    *)
(* replaces the code; the new code is taken to carry the same handlers.    *)
(*                                                                         *)
(* schedule_action takes any hash.  The host finds out when the upgrade is *)
(* executed: update_current_contract_wasm fails on a hash nobody has       *)
(* uploaded to the ledger, the call is rolled back, and the announcement   *)
(* stays in its slot.  Anybody can upload code, at any time.               *)
(*                                                                         *)
(* An operator named Op_Mistake is a slip, as in LendingPool.              *)
(***************************************************************************)
EXTENDS Integers

CONSTANTS
  Addresses,       \* addresses a call may name
  Signers,         \* those somebody holds the keys of
  FirstAdmin,
  Upgrades,        \* Action::Upgrade: hashes of code
  FirstCode,
  GraceChoices,    \* Action::SetGraceSecs: seconds
  FirstGrace,
  TIMELOCK_SECS,   \* timelock set at deployment
  MAX_U64,         \* u64::MAX: an addition beyond it panics
  NoAddress,       \* nothing in DataKey::PendingAdmin or DataKey::MortgagePool
  NoAction,        \* nothing in DataKey::Scheduled
  MaxTime          \* bound on now

Actions == [kind : {"Upgrade"}, hash : Upgrades]
             \cup [kind : {"SetGraceSecs"}, secs : GraceChoices]

ASSUME GovernanceAssumption ==
  /\ Signers \subseteq Addresses
  /\ FirstAdmin \in Signers
  /\ NoAddress \notin Addresses
  /\ GraceChoices \subseteq Nat
  /\ FirstGrace \in Nat
  /\ TIMELOCK_SECS \in Nat
  /\ MAX_U64 \in Nat
  /\ MaxTime \in Nat
  /\ NoAction \notin [action : Actions, eta : Nat]

VARIABLES
  admin,           \* DataKey::Admin
  pending_admin,   \* DataKey::PendingAdmin
  scheduled,       \* DataKey::Scheduled
  mortgage_pool,   \* DataKey::MortgagePool
  grace_secs,      \* DataKey::GraceSecs
  code,            \* the code the contract runs
  uploaded,        \* hashes of the code that is on the ledger
  now              \* the ledger timestamp

handover == <<admin, pending_admin>>
effects  == <<grace_secs, code>>
host     == <<uploaded, now>>
governanceVars == <<handover, scheduled, mortgage_pool, effects, host>>

GovernanceInit ==
  /\ admin = FirstAdmin
  /\ pending_admin = NoAddress
  /\ scheduled = NoAction
  /\ mortgage_pool = NoAddress
  /\ grace_secs = FirstGrace
  /\ code = FirstCode
  /\ uploaded = {}
  /\ now = 1

\* require_admin: the call is signed, and by the admin of the moment
RequireAdmin(caller) == caller \in Signers /\ caller = admin

SetMortgagePool(caller, pool) ==
  /\ RequireAdmin(caller)
  /\ mortgage_pool = NoAddress
  /\ mortgage_pool' = pool
  /\ UNCHANGED <<handover, scheduled, effects, host>>

ScheduleAction_AnyGrace(caller, action) ==
  /\ RequireAdmin(caller)
  /\ scheduled = NoAction
  /\ now + TIMELOCK_SECS <= MAX_U64
  /\ scheduled' = [action |-> action, eta |-> now + TIMELOCK_SECS]
  /\ UNCHANGED <<handover, mortgage_pool, effects, host>>

\* as built without overflow checks
ScheduleAction_Wraps(caller, action) ==
  /\ RequireAdmin(caller)
  /\ scheduled = NoAction
  /\ action.kind = "SetGraceSecs" => action.secs # 0
  /\ scheduled' = [action |-> action, eta |-> (now + TIMELOCK_SECS) % (MAX_U64 + 1)]
  /\ UNCHANGED <<handover, mortgage_pool, effects, host>>

ScheduleAction(caller, action) ==
  /\ RequireAdmin(caller)
  /\ scheduled = NoAction
  /\ action.kind = "SetGraceSecs" => action.secs # 0
  /\ now + TIMELOCK_SECS <= MAX_U64
  /\ scheduled' = [action |-> action, eta |-> now + TIMELOCK_SECS]
  /\ UNCHANGED <<handover, mortgage_pool, effects, host>>

ExecuteAction(caller) ==
  /\ RequireAdmin(caller)
  /\ scheduled # NoAction
  /\ now >= scheduled.eta
  /\ scheduled' = NoAction
  /\ \/ /\ scheduled.action.kind = "Upgrade"
        /\ scheduled.action.hash \in uploaded
        /\ code' = scheduled.action.hash
        /\ UNCHANGED grace_secs
     \/ /\ scheduled.action.kind = "SetGraceSecs"
        /\ scheduled.action.secs # 0
        /\ grace_secs' = scheduled.action.secs
        /\ UNCHANGED code
  /\ UNCHANGED <<handover, mortgage_pool, host>>

CancelAction(caller) ==
  /\ RequireAdmin(caller)
  /\ scheduled # NoAction
  /\ scheduled' = NoAction
  /\ UNCHANGED <<handover, mortgage_pool, effects, host>>

ProposeAdmin_AtOnce(caller, new_admin) ==
  /\ RequireAdmin(caller)
  /\ admin' = new_admin
  /\ UNCHANGED <<pending_admin, scheduled, mortgage_pool, effects, host>>

\* a later proposal replaces an earlier one
ProposeAdmin(caller, new_admin) ==
  /\ RequireAdmin(caller)
  /\ pending_admin' = new_admin
  /\ UNCHANGED <<admin, scheduled, mortgage_pool, effects, host>>

AcceptAdmin_KeepsPending(new_admin) ==
  /\ new_admin \in Signers
  /\ new_admin = pending_admin
  /\ admin' = new_admin
  /\ UNCHANGED <<pending_admin, scheduled, mortgage_pool, effects, host>>

\* whoever signs completes the handover, if there is one
AcceptAdmin_ByAnyone(new_admin) ==
  /\ new_admin \in Signers
  /\ admin' = pending_admin
  /\ pending_admin' = NoAddress
  /\ UNCHANGED <<scheduled, mortgage_pool, effects, host>>

AcceptAdmin(new_admin) ==
  /\ new_admin \in Signers
  /\ new_admin = pending_admin
  /\ admin' = new_admin
  /\ pending_admin' = NoAddress
  /\ UNCHANGED <<scheduled, mortgage_pool, effects, host>>

\* anybody puts code on the ledger
Upload(hash) ==
  /\ uploaded' = uploaded \cup {hash}
  /\ UNCHANGED <<handover, scheduled, mortgage_pool, effects, now>>

Tick ==
  /\ now < MaxTime
  /\ now' = now + 1
  /\ UNCHANGED <<handover, scheduled, mortgage_pool, effects, uploaded>>

\* The calls that leave the record of who proposed and announced what alone.
OtherCalls(caller) ==
  \/ \E pool \in Addresses : SetMortgagePool(caller, pool)
  \/ ExecuteAction(caller)
  \/ CancelAction(caller)

GovernanceNext ==
  \/ \E caller \in Signers :
       \/ OtherCalls(caller)
       \/ \E action \in Actions : ScheduleAction(caller, action)
       \/ \E new_admin \in Addresses : ProposeAdmin(caller, new_admin)
       \/ AcceptAdmin(caller)
  \/ \E hash \in Upgrades : Upload(hash)
  \/ Tick

GovernanceSpec == GovernanceInit /\ [][GovernanceNext]_governanceVars

-----------------------------------------------------------------------------
(* Properties.                                                             *)

\* Every entry of the instance storage has its type.
GovernanceTypeOK ==
  /\ admin \in Addresses
  /\ pending_admin \in Addresses \cup {NoAddress}
  /\ scheduled \in [action : Actions, eta : Nat] \cup {NoAction}
  /\ mortgage_pool \in Addresses \cup {NoAddress}
  /\ grace_secs \in Nat
  /\ code \in Upgrades \cup {FirstCode}
  /\ uploaded \subseteq Upgrades
  /\ now \in Nat

\* "a mistyped address cannot lock the protocol out": whatever addresses are
\* proposed, and however often, the admin is somebody who can sign.
AdminCanSign == admin \in Signers

\* The host has what the action installs.
IsInstallable(action) == action.kind = "Upgrade" => action.hash \in uploaded

\* What is in the queue can always be taken out of it.  The admin of the moment
\* can cancel it, whoever queued it and whatever happened to the role since; its
\* time is one the ledger clock can show; and from then on it can be carried
\* out, unless it is an upgrade to code nobody has uploaded, which has to wait
\* for the upload.  Of the ways execute_action can fail, this is the only one
\* schedule_action has not ruled out.
QueuedActionsCanRun ==
  scheduled # NoAction =>
    /\ ENABLED CancelAction(admin)
    /\ scheduled.eta <= MAX_U64
    /\ ENABLED ExecuteAction(admin) <=>
         now >= scheduled.eta /\ IsInstallable(scheduled.action)

=============================================================================
