SPECIFICATION FairSpec
CONSTANTS
  login = login
  submission = submission
  decision = decision
  completion = completion
  sweep = sweep
  seed = seed
  Calls = {login, submission, completion, sweep, seed}
  Processes = {"server", "script"}
  Cases = {k}
  Kind <- MCKind
  ProcessOf <- MCProcessOf
  CaseOf <- MCCaseOf
  SweepSize = 2
  SingleWriter = TRUE
  MaxRefusals = 1
  MaxCrashes = 1
INVARIANTS
  TypeOK
  ChainIsLinear
  CollisionsAreForeign
  EarlyWritersAreFresh
PROPERTIES
  ImplementsTrail
  EveryCallEnds
\* Every call is made once.
CHECK_DEADLOCK FALSE
