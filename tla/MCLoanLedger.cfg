SPECIFICATION LedgerSpec
CONSTANTS
  BPS_DENOMINATOR = 5
  MONTHS_PER_YEAR = 2
  SECONDS_PER_MONTH = 2
  MILESTONE_COUNT = 3
  Facilities <- SomeFacilities
  Payments = {1, 2, 3, 5}
  MAX_U64 = 15
  Graces = {3, 14}
  MaxTime = 12
  Horizon = 5
INVARIANTS LedgerTypeOK InterestIsExact AccrualsCompose PaidUpIsSafe InterestNeverBecomesPrincipal
CHECK_DEADLOCK FALSE
