SPECIFICATION Spec
CONSTANTS
  r1 = r1
  r2 = r2
  g1 = g1
  g2 = g2
  Requests = {r1, r2}
  NTexts = 2
  Graphs = {g1, g2}
  Endpoints = {"link", "delete"}
SYMMETRY RequestSymmetry
INVARIANTS
  NoDangling
CHECK_DEADLOCK FALSE
