SPECIFICATION Spec
CONSTANTS
  c1 = c1
  c2 = c2
  an = an
  Cases = {c1, c2}
  Analysts = {an}
  SubmittedBy <- MCSubmittedBy
  Admins = {a1, a2}
  Reviewers = {}
  FailureCategories = {"transient", "unknown"}
  MaxAttempts = 2
  SlotLimit = 1
  RowLocks = FALSE
  MaxRedrives = 1
  MaxCrashes = 1
  MaxFaults = 0
  None = None
INVARIANTS
  StartupRecovers
\* A case that is reviewed, closed or stranded needs no further step.
CHECK_DEADLOCK FALSE
