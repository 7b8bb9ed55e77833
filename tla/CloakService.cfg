SPECIFICATION ServiceSpec
CONSTANTS
  Users = {u1, u2}
  Wallets = {c1}
  Proxies = {p1, p2}
  Logics = {l1, l2}
  Unused = {x}
  Words = {w1, w2}
  MaxBatch = 2
SYMMETRY Symmetry
INVARIANTS NothingLeftBehind ProofCurrent RightsNeedRegistration
PROPERTIES HandedBack
CHECK_DEADLOCK FALSE
