SPECIFICATION Spec
CONSTANTS
  v1 = v1
  v2 = v2
  Verifiers = {v1, v2}
  Window = 2
  Required = 2
  ProbeFallback = TRUE
  MaxTime = 6
SYMMETRY MCSymmetry
INVARIANTS
  RecoveryTypeOK
  ResolvedWasHealthy
  HistoryIsSound
CHECK_DEADLOCK FALSE
