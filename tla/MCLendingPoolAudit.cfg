SPECIFICATION AuditSpec
CONSTANTS
  Investors = {alice, bob}
  alice = alice
  bob = bob
  SCALE = 5
  Amounts = {1, 2}
  MaxShares = 4
  MaxInterest = 3
  MaxAnchors = 3
SYMMETRY Symmetry
INVARIANTS PoolTypeOK CommitmentsAreCovered SharesAddUp ShortfallIsBounded SettleNeverDebits InterestIsFullyDistributed RoundingDriftIsBounded CashMatchesTheBooks
PROPERTY OnlyPaymentsEarnInterest
CHECK_DEADLOCK FALSE
