CONSTANTS
  CoreCount = 2
  NoReport = NoReport
  Validators = 3
  AssuranceTimeout = 2
  Packages <- MCPackages
  Deps <- MCDeps
  Gas <- MCGas
  EpochLength = 3
  BlockGas = 2
  ReportGas = 1
  MaxDependencies = 8
  MaxHistory = 2
  Gaps <- MCGaps
  AssuranceExtrinsics <- MCAssurances
  GuaranteeExtrinsics <- MCGuarantees
  SlotRange = 64
  MaxRefused = 1
  MaxHeight = 5
SPECIFICATION Spec
INVARIANTS
  PackagesHeldOnce
  OnlyGasDelays
  QueueLifetime
PROPERTIES
  AvailableIsKept
  DependenciesInOrder
  NoEarlyEviction
