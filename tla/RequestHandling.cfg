SPECIFICATION MCSpec
CONSTANTS
  c1 = c1
  ann = ann
  sam = sam
  sue = sue
  pat = pat
  Keys = {"analyst", "org"}
  Limit <- MCLimit
  Window = 3
  TicksPerSecond = 2
  LockDelay = 1
  Threads = {t1, t2}
  Requests <- MCRequests
  MaxClock = 6
  Cases = {c1}
  Users = {ann, sam, sue, pat}
  None = None
  Role <- MCRole
  SubmittedBy <- MCSubmittedBy
  AssignedTo <- MCAssignedTo
  RowLocks = TRUE
  Reviewers = {r1, r2}
  Readers = {g1, g2}
  MaxDecisions = 3
SYMMETRY MCSymmetry
INVARIANTS
  TypeOK
  LimitHolds
  RefusalsAreFair
  OneFinalDecision
  DeletionIsComplete
  AnswersAreConsistent
CHECK_DEADLOCK FALSE
