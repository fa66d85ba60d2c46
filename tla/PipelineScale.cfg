SPECIFICATION Spec
CONSTANTS
  e1 = e1
  e2 = e2
  i1 = i1
  i2 = i2
  w1 = w1
  Executors = {e1, e2}
  Incidents = {i1}
  Workloads = {w1}
  Target <- OneTarget
  Action <- ScaleDown
  TTL = 1
  AckDeadline = 1
  MaxAttempts = 2
  VerifyLimit = 1
  ReviewTTL = 2
  Headroom = 1
  InitialReplicas = 2
  ExternalReplicas = {1}
  MaxTime = 2
  MaxRv = 1
  MaxEvidence = 1
  MaxFaults = 2
  LastFault = 9
SYMMETRY Symmetry
INVARIANTS
  TypeOK
  ApplyInvariant
  AppliedAtMostOnce
  WritesAreApproved
  SucceededWasApplied
  RunningIsPending
PROPERTIES
  ClosedIsFinal
  TerminalIsFinal
  UnexpiredLeaseIsKept
CHECK_DEADLOCK FALSE
