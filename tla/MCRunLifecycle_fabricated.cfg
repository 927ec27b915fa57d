SPECIFICATION Spec
CONSTANTS
  Runs = {r1}
  Resumes = {s1}
  Cancels = {}
  Verdicts = {"pass", "fail"}
  Failures = {"INFRASTRUCTURE"}
  Faults = {"crash"}
  MaxResumeAttempts = 3
  Confirmations = 2
  PerRunBudget = 2
  SlotBudget = 4
\* When every operation has ended, and no fault strikes, nothing is left to do.
CHECK_DEADLOCK FALSE
INVARIANT GateFromResults
