CONSTANTS
  Accounts <- MCAccounts
  Coded <- MCCoded
  Cores = {0, 1}
  Privileges <- MCPrivileges
  Blessings <- MCBlessings
  Heirs = {0}
  Queues <- MCQueues
  Amounts = {1}
  NewCost = 1
  MinPublic = 2
  IdRing = 7
  IdStep = 2
  Seeds = {3}
  MaxRounds = 2
  MaxCalls = 2
  MaxAccounts = 4
  NoService = NoService
SPECIFICATION Spec
INVARIANTS
  TheDeadDoNotAct
  SupplyAccounted
  NextIdIsFree
PROPERTIES
  PowersPassOn
  Terminates
CHECK_DEADLOCK FALSE
