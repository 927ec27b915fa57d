SPECIFICATION Spec
CONSTANTS
  Keys = {k1, k2}
  Audits = {k1}
  Params = {p1, p2}
  Ids = {i1, i2, i3}
  Calls = {c1, c2}
  Faults = {"crash", "restart", "expire"}
  HighWatermark = 2
  LowWatermark = 0
  None = None
  c1 = c1
  c2 = c2
  i1 = i1
  i2 = i2
  i3 = i3
  k1 = k1
  k2 = k2
  p1 = p1
  p2 = p2
\* When every id is used and every operation has ended nothing need happen.
CHECK_DEADLOCK FALSE
SYMMETRY Symmetry
INVARIANT MemoryAgrees
PROPERTY OneAnswer
