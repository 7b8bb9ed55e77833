SPECIFICATION MCSpec
CONSTANTS
  t1 = t1
  t2 = t2
  s1 = s1
  m1 = m1
  m2 = m2
  k1 = k1
  r1 = r1
  Txs = {t1, t2, s1}
  Signatures = {s1}
  Program <- TwoPrograms
  Maps = {m1, m2}
  Keys = {k1}
  Existing = {m1}
  Remote = {r1}
  RemoteWrites <- RemoteEntries
  MaxView = 2
  Leads = {2}
  MaxAttempts = 2
  MaxRacing = 1
  None = None
  Removed = Removed
  Genesis = Genesis
INVARIANTS StoreMatchesLedger SignedRootMatches ReadsCurrent NoHole
CHECK_DEADLOCK FALSE
