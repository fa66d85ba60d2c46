SPECIFICATION FairSpec
CONSTANTS
  e1 = e1
  e2 = e2
  i1 = i1
  i2 = i2
  w1 = w1
  Executors = {e1}
  Incidents = {i1}
  Workloads = {w1}
  Target <- OneTarget
  Action <- ScaleDown
  TTL = 1
  AckDeadline = 1
  MaxAttempts = 2
  VerifyLimit = 1
  ReviewTTL = 1
  Headroom = 1
  InitialReplicas = 2
  ExternalReplicas = {3}
  MaxTime = 4
  MaxRv = 3
  MaxEvidence = 0
  MaxFaults = 1
  LastFault = 3
INVARIANTS
  RestoredAtMostOnce
PROPERTIES
  RequestsSettle
CHECK_DEADLOCK FALSE
