SPECIFICATION Spec
CONSTANTS
  n1 = n1
  n2 = n2
  n3 = n3
  Nodes = {n1, n2, n3}
  None = None
  Plans <- Elections
  MaxInFlight = 1
  MaxLog = 3
SYMMETRY Backups
INVARIANTS  LogsMatch CommittedIsIrrevocable
CHECK_DEADLOCK FALSE
