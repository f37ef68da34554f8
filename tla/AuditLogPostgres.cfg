SPECIFICATION FairSpec
CONSTANTS
  login = login
  submission = submission
  decision = decision
  completion = completion
  sweep = sweep
  seed = seed
  Calls = {login, submission, decision, completion}
  Processes = {"server", "script"}
  Cases = {k}
  Kind <- MCKind
  ProcessOf <- MCProcessOf
  CaseOf <- MCCaseOf
  SweepSize = 2
  SingleWriter = FALSE
  MaxRefusals = 0
  MaxCrashes = 0
PROPERTIES
  LoginsAreRecorded
\* Every call is made once.
CHECK_DEADLOCK FALSE
