CONSTANTS
  Keys = {1, 2, 3, 4, 5}
  NullKey = 0
  ValidatorSets <- MCValidatorSets
  EpochLength = 4
  TailStart = 3
  MaxAttempts = 3
  TicketExtrinsics <- MCTickets
  Convictions <- MCConvictions
  Gaps = {1, 3, 5}
  MaxSlot = 8
  CoreCount = 2
  GroupSize = 2
  MinGuarantees = 2
  RotationPeriod = 2
  Draws <- MCDraws
  Signers <- MCSigners
  Ages = {0, 3}
SPECIFICATION GuarantorsSpec
INVARIANTS
  JudgedAsAssigned
  OneCorePerRotation
  EveryCoreStaffed
