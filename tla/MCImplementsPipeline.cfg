CONSTANTS
  CoreCount = 2
  NoReport = NoReport
  Validators = 3
  AssuranceTimeout = 2
  Packages <- MCPackages
  Deps <- MCDeps
  Gas <- MCGas
  EpochLength = 3
  BlockGas = 2
  ReportGas = 1
  MaxDependencies = 8
  MaxHistory = 2
  Gaps <- MCGaps
  AssuranceExtrinsics <- MCAssurances
  GuaranteeExtrinsics <- MCGuarantees
  SlotRange = 64
  MaxRefused = 0
  MaxHeight = 6
SPECIFICATION CodeSpec
INVARIANTS
  NoForgottenDependency
PROPERTIES
  OncePerReport
  DependenciesFirst
  ImplementsPipeline
