SPECIFICATION FairSpec
CONSTANTS
  w1 = w1
  w2 = w2
  Workers = {w1, w2}
  NBatches = 1
  MaxRuns = 2
  MaxQueue = 1
  Faults = {"slowHolder", "lockDown", "unlockFails"}
PROPERTIES
  JobsEnd
CHECK_DEADLOCK FALSE
