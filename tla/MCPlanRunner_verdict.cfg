SPECIFICATION FairSpec
CONSTANTS
  Plans <- Suites
  Errors <- StepErrors
  Faults = {"launch", "context", "screenshot", "console", "trace", "close", "case file", "checkpoint", "manifest"}
\* A run that has returned or thrown is over.
CHECK_DEADLOCK FALSE
INVARIANT EveryInstanceOnce
INVARIANT PassIsEarned
INVARIANT BlameIsBacked
INVARIANT PassLeavesClean
PROPERTY EveryRunEnds
