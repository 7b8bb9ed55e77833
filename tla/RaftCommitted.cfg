SPECIFICATION Spec
CONSTANTS
  n1 = n1
  n2 = n2
  n3 = n3
  Nodes = {n1, n2, n3}
  None = None
  Plans <- TwoElections
  MaxInFlight = 1
  MaxLog = 3
SYMMETRY Backups
INVARIANT CommittedIsIrrevocable
CHECK_DEADLOCK FALSE
