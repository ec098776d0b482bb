CONSTANTS
  Keys = {1, 2, 3}
  NullKey = 0
  ValidatorSets <- MCValidatorSets
  EpochLength = 3
  TailStart = 2
  MaxAttempts = 3
  TicketExtrinsics <- MCTickets
  Convictions <- MCConvictions
  Gaps = {0, 1, 2, 4}
  MaxSlot = 9
SPECIFICATION Spec
INVARIANTS
  ContestIsCurrent
  BestTicketsKept
  SealedByActiveSet
  OffendersLeave
PROPERTIES
  MarkedTicketsSeal
