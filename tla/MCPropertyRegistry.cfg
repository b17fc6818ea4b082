SPECIFICATION RegistrySpec
CONSTANTS
  MILESTONE_COUNT = 3
  FirstTrustees = {}
  FirstOracles = {}
  TrusteeChanges = {tara, omar}
  OracleChanges = {tara, omar}
  tara = tara
  omar = omar
  Evidence = {photos, report}
  photos = photos
  report = report
  NoEvidence = NoEvidence
  Nobody = Nobody
  Valuations = {0, 1}
  MaxProperties = 1
SYMMETRY Symmetry
INVARIANTS RegistryTypeOK SignedOffInBuildOrder ReleasesAreJustified LendingTermsAreIndependent
PROPERTY SignOffIsFinal
CHECK_DEADLOCK FALSE
