SPECIFICATION FairSpec
CONSTANTS
  p1 = p1
  p2 = p2
  l1 = l1
  l2 = l2
  l3 = l3
  l4 = l4
  l5 = l5
  c1 = c1
  c2 = c2
  c3 = c3
  s1 = s1
  s2 = s2
  Zero = Zero
  Garbled = Garbled
  NoCode = NoCode
  Proxies = {p1, p2}
  Locals = {}
  Logics = {l1, l2, l3, l4, l5}
  Codes = {c1, c2, c3}
  CodeOf <- TheCodes
  States = {s1, s2}
  ChainState = s1
  Starts <- TheStarts
  Short <- TheShort
  MaxAsked <- FirstTwice
  MaxChanges = 1
  MaxLost = 1
INVARIANTS InstalledIsProved
PROPERTIES InstalledIsFinal EscrowCompletes
CHECK_DEADLOCK FALSE
