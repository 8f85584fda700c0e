SPECIFICATION Spec
CONSTANTS
  c1 = c1
  c2 = c2
  ann = ann
  bob = bob
  v1 = v1
  v2 = v2
  None = None
  Calls = {c1, c2}
  Actors = {ann, bob}
  Versions = {v1}
  MaxTime = 3
SYMMETRY Alike
CHECK_DEADLOCK FALSE
INVARIANT
  StaleCanBeReviewed
