SPECIFICATION Spec
CONSTANTS
  Keys = {k1, k2}
  Audits = {k1}
  Params = {p1}
  Ids = {i1, i2}
  Calls = {c1}
  Faults = {"crash", "restart", "expire", "unlink", "preview"}
  HighWatermark = 2
  LowWatermark = 0
  None = None
  c1 = c1
  i1 = i1
  i2 = i2
  k1 = k1
  k2 = k2
  p1 = p1
\* When every id is used and every operation has ended nothing need happen.
CHECK_DEADLOCK FALSE
SYMMETRY Symmetry
INVARIANT HandlesKept
PROPERTY SweptStaysSwept
