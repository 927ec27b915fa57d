SPECIFICATION FairSpec
CONSTANTS
  Workers = {p1, p2, p3, p4}
  First = p1
  Mortal = {p1, p2, p3}
  Exclusive = TRUE
  Saves = 1
  Confirmations = 2
  MaxAttempts = 2
  MaxVersion = 4
\* When the Run is finished and the clock stops, nothing is left to do.
CHECK_DEADLOCK FALSE
INVARIANT OneExecutor
PROPERTY RunRecovered
