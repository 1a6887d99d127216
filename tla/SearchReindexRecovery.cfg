SPECIFICATION FairSpec
CONSTANTS
  w1 = w1
  w2 = w2
  Workers = {w1, w2}
  NBatches = 2
  MaxRuns = 3
  MaxQueue = 0
  Faults = {"raise", "crash", "unlockFails", "addFails"}
INVARIANTS
  NeverMixed
PROPERTIES
  LockFreed
CHECK_DEADLOCK FALSE
