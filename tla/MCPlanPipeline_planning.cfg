SPECIFICATION Spec
CONSTANTS
  Configs <- AllConfigs
  MaxRuns = 2
CHECK_DEADLOCK FALSE
INVARIANTS
  NothingUnaccounted
  FailsForCause
  SourcesAreSaved
  
