SPECIFICATION AuditSpec
CONSTANTS
  Addresses = {ada, ben, typo}
  Signers = {ada, ben}
  FirstAdmin = ada
  ada = ada
  ben = ben
  typo = typo
  Upgrades = {v2, v3}
  v2 = v2
  v3 = v3
  FirstCode = v1
  v1 = v1
  GraceChoices = {0, 1, 2}
  FirstGrace = 1
  TIMELOCK_SECS = 2
  MAX_U64 = 7
  NoAddress = NoAddress
  NoAction = NoAction
  MaxTime = 7
INVARIANTS GovernanceTypeOK AdminCanSign QueuedActionsCanRun ProposalsAreTheAdmins
PROPERTY ChangesWaitOutTheTimelock
CHECK_DEADLOCK FALSE
