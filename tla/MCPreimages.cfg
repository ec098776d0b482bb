CONSTANTS
  Keys <- MCKeys
  Blobs <- MCBlobs
  Lengths = {1, 2}
  ItemOverhead = 3
  RequestOverhead = 8
  Expunge = 1
  Gaps = {1, 2}
  MayRefuse = TRUE
  WithdrawsLate = FALSE
  MaxSlot = 6
SPECIFICATION Spec
INVARIANTS
  FootprintMatches
  BlobsHaveRequests
PROPERTIES
  StatusMovesOn
  ForgottenIsKept
CHECK_DEADLOCK FALSE
