SPECIFICATION Spec
CONSTANTS
  w1 = w1
  w2 = w2
  Workers = {w1, w2}
  NBatches = 2
  MaxRuns = 3
  MaxQueue = 1
  Faults = {"raise", "crash", "unlockFails"}
SYMMETRY WorkerSymmetry
INVARIANTS
  TypeOK
  LiveWhole
  LiveConfigured
  OneRebuild
  OwnBuild
  SuccessMeansPublished
PROPERTIES
  NoForeignRelease
  EmptiedOnlyByClear
  ServesAtomically
CHECK_DEADLOCK FALSE
