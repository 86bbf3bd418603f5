CONSTANTS
  MaxSupply = 5
  MaxShareMiner = 4
  MaxShareBudget = 1
  PayPerBlock = 1
  MaxWorkerPay = 2
  InitialSupply = 1
  Amounts <- MCAmounts
  Parameters <- MCParameters
  GenesisTime = 1
  MaxMissed = 1
  MaxMaintenances = 3
SPECIFICATION Spec
INVARIANTS SharesKept Conservation BudgetLasts
PROPERTIES UnbackedOnlyAtLimit
CHECK_DEADLOCK FALSE
