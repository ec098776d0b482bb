CONSTANTS
  Cores = {0, 1}
  Validators = {0, 1}
  Authorizers = {"a", "b"}
  FirstPools <- MCFirstPools
  Queues <- MCQueues
  Author <- MCAuthor
  Signers <- MCSigners
  Extrinsics <- MCExtrinsics
  AssurerSets <- MCAssurerSets
  MaxPool = 2
  MaxHistory = 2
  EpochLength = 2
  Gaps <- MCGaps
  MaxRefused = 1
  MaxBlocks = 4
SPECIFICATION Spec
INVARIANTS
  AuthorizedOnce
  BeefyCommitsAll
  RecordsMatchLog
