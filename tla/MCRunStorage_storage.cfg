SPECIFICATION FairSpec
CONSTANTS
  Writers = {w1, w2}
  Swappers = {s1, s2}
  Readers = {r1}
  Faults = {"crash", "busy", "legacy"}
\* When every call has returned, nothing is left to do.
CHECK_DEADLOCK FALSE
INVARIANT OneHolder
INVARIANT RetainsAll
INVARIANT NeverLost
INVARIANT ReaderFinds
INVARIANT NoLeftovers
PROPERTY EveryCallReturns
