CONSTANTS
  Reports <- MCReports
  Keys <- MCKeys
  Cores = {0, 1}
  NoReport = NoReport
  EpochLength = 2
  SuperMajority = 3
  WonkyVotes = 1
  MinCulprits = 2
  ValidatorSets <- MCValidatorSets
  Extrinsics <- MCExtrinsics
  MaxSlot = 4
SPECIFICATION Spec
INVARIANTS
  OneVerdict
  VerdictsCostOffenders
PROPERTIES
  ConvictedOnce
  VerdictClearsRho
