SPECIFICATION Spec
CONSTANTS
  n1 = n1
  n2 = n2
  m1 = m1
  m2 = m2
  Nodes = {n1, n2}
  First = n1
  Members = {m1, m2}
  Threshold = 2
  Allow = {"lag"}
  MaxEvents = 3
INVARIANT PrivateStateComplete
CHECK_DEADLOCK FALSE
