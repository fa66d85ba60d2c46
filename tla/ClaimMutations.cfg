SPECIFICATION Spec
CONSTANTS
  e1 = e1
  e2 = e2
  i1 = i1
  i2 = i2
  w1 = w1
  Executors = {e1}
  Incidents = {i1}
  Workloads = {w1}
  Target <- OneTarget
  Action <- ScaleDown
  TTL = 1
  AckDeadline = 2
  MaxAttempts = 5
  VerifyLimit = 2
  ReviewTTL = 2
  Headroom = 1
  InitialReplicas = 2
  ExternalReplicas = {3}
  MaxTime = 3
  MaxRv = 0
  MaxEvidence = 0
  MaxFaults = 1
  LastFault = 9
INVARIANTS
  MutationsAreRecorded
CHECK_DEADLOCK FALSE
