\* Scripts run one after another and die; a server loads meanwhile.
SPECIFICATION MCSpec
CONSTANTS
  Gap = Gap
  Absent = Absent
  Partial = Partial
  NaN = NaN
  Inf = Inf
  NotBullying = "not_cyberbullying"
  Datapacks <- MCDatapacks
  PredatorLists <- MCPredatorLists
  Kaggle <- MCKaggle
  GoEmotions <- MCGoEmotions
  Rank <- MCRank
  Scripts <- MCScripts
  Losses = {1, 2}
  Epochs = 2
  FlushEvery = 2
  MaxRuns = 2
  MaxDeaths = 1
  MaxMinute = 1
INVARIANTS
  EvaluationIsSound
  CheckpointsAreWhole
  PaidCallsAreKept
CHECK_DEADLOCK FALSE
