CONSTANTS
  Keys <- MCKeys
  Blobs <- MCBlobs
  Lengths = {1, 2}
  ItemOverhead = 3
  RequestOverhead = 8
  Expunge = 1
  Gaps = {1, 2}
  MayRefuse = FALSE
  WithdrawsLate = TRUE
  MaxSlot = 7
SPECIFICATION Spec
INVARIANTS
  FootprintMatches
CHECK_DEADLOCK FALSE
