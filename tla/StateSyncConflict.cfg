SPECIFICATION Spec
CONSTANTS
  Contracts = {1}
  Keys = {1}
  Words = {0, 1, 2}
  Level <- OneContract
  MaxConflicts = 1
  MaxWrites = 2
  MaxTx = 3
  MaxRefusals = 0
INVARIANT DeliveredAtRest
CHECK_DEADLOCK FALSE
