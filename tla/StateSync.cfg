SPECIFICATION SyncSpec
CONSTANTS
  Contracts = {1, 2}
  Keys = {1, 2}
  Words = {0, 1, 2}
  Level <- OneLocal
  MaxConflicts = 1
  MaxWrites = 2
  MaxTx = 3
  MaxRefusals = 1
INVARIANTS NoWriteForgotten NoNonceGap ReadsReturnLastWrite UndisturbedDelivered
PROPERTY PendingIsSent
CHECK_DEADLOCK FALSE
