SPECIFICATION Spec
CONSTANTS
  c1 = c1
  c2 = c2
  an = an
  Cases = {c1}
  Analysts = {an}
  SubmittedBy <- MCSubmittedBy
  Admins = {a1, a2}
  Reviewers = {r1, r2}
  FailureCategories = {"transient", "unknown"}
  MaxAttempts = 2
  SlotLimit = 1
  RowLocks = FALSE
  MaxRedrives = 1
  MaxCrashes = 1
  MaxFaults = 0
  None = None
INVARIANTS
  QueuedIsDispatched
  NoSlotLeak
\* A case that is reviewed, closed or stranded needs no further step.
CHECK_DEADLOCK FALSE
