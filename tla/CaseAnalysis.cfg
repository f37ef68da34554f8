SPECIFICATION MCSpec
CONSTANTS
  k1 = k1
  k2 = k2
  k3 = k3
  Cases = {k1, k2, k3}
  None = None
  Raw <- MCRaw
  Letters = 2
  WindowSize = 2
  PersistenceWindow = 2
  ScorePairs <- MCScorePairs
  OverallScores = {20, 80}
  LLMSignals = {0, 90}
  LLMInUse = TRUE
INVARIANTS
  TypeOK
  RedactionIsSound
  PseudonymsFaithful
  EveryMessageOnce
  StateMatchesDefinition
  EvidenceIsTraceable
  FallbackIsVisible
PROPERTIES
  NoFlagIsLost
\* A refused or analysed case needs no further step.
CHECK_DEADLOCK FALSE
