SPECIFICATION Spec
CONSTANTS
  Programs <- MCCalling
  MaxSkip = 2
  CostCap = 2
  HalfWord = 32
  PageSize = 2
  ZoneSize = 4
  InputSize = 4
  AddrSpace = 30
  Budgets = {0, 12}
  Widths = {1, 2, 4}
  Lengths = {0, 1, 2, 3, 5, 6, 8, 9, 12, 34, 63}
  HostGas = 2
  Reserves = {1, 60}
PROPERTY Exited
CHECK_DEADLOCK FALSE
