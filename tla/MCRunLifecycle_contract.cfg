SPECIFICATION Spec
CONSTANTS
  Runs = {r1}
  Resumes = {s1}
  Cancels = {c1}
  Verdicts = {"pass", "fail"}
  Failures = {"INFRASTRUCTURE"}
  Faults = {}
  MaxResumeAttempts = 3
  Confirmations = 2
  PerRunBudget = 2
  SlotBudget = 4
\* When every operation has ended, and no fault strikes, nothing is left to do.
CHECK_DEADLOCK FALSE
PROPERTY ContractSpec
