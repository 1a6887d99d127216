SPECIFICATION Spec
CONSTANTS
  w1 = w1
  w2 = w2
  Workers = {w1, w2}
  NBatches = 2
  MaxRuns = 2
  MaxQueue = 1
  Faults = {"addFails"}
SYMMETRY WorkerSymmetry
INVARIANTS
  LiveWhole
CHECK_DEADLOCK FALSE
