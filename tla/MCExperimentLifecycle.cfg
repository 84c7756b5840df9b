SPECIFICATION Spec
CONSTANTS
  None = None
  NaN = NaN
  Undeclared = Undeclared
  seed = seed
  drifted = drifted
  Experiments <- MCExperiments
  Bindings <- MCBindings
  Observations <- Seen
  MaxCalls = 2
INVARIANTS
  TypeOK
  RunsAreComparable
  ResilienceIsEarned
  DegradationIsExplained
  LateAbortsAreExplained
CHECK_DEADLOCK FALSE
