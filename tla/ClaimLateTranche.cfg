SPECIFICATION Spec
CONSTANTS
  BPS_DENOMINATOR = 4
  MONTHS_PER_YEAR = 1
  SECONDS_PER_MONTH = 2
  MILESTONE_COUNT = 2
  MAX_U64 = 20
  MAX_LTV_BPS = 3
  MAX_RATE_BPS = 2
  TIMELOCK_SECS = 1
  FirstGrace = 1
  GraceChoices = {}
  FirstUnderwriters = {una}
  una = una
  NoAction = NoAction
  Investors = {alice}
  alice = alice
  SCALE = 4
  Amounts = {3}
  MaxShares = 3
  MaxInterest = 4
  FirstTrustees = {tara}
  tara = tara
  FirstOracles = {omar}
  omar = omar
  TrusteeChanges = {}
  OracleChanges = {}
  UnderwriterChanges = {}
  Evidence = {photos}
  photos = photos
  NoEvidence = NoEvidence
  Nobody = Nobody
  Valuations = {4}
  MaxProperties = 1
  Facilities <- OneFacility
  Payments = {1, 2, 4}
  MaxLoans = 1
  MaxTime = 6
PROPERTY DrawsAreNotChargedForThePast
CHECK_DEADLOCK FALSE
