\* Three calls in any order over either store, with failing commands and restarts.
CONSTANTS
  Calls = {c1, c2, c3}
  Stores = {"memory", "redis"}
  MaxTime = 4
  AccessLife = 1
  RefreshLife = 2
  KeyLife = 2
  Faults = {"raise", "restart"}
SPECIFICATION ServiceSpec
SYMMETRY CallSymmetry
INVARIANT ReuseRevokes
INVARIANT LogoutIsFinal
INVARIANT LifetimesAgree
INVARIANT KeyIsGood
PROPERTY KeepsLifecycle
CHECK_DEADLOCK FALSE
