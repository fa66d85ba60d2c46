SPECIFICATION FairSpec
CONSTANTS
  e1 = e1
  e2 = e2
  i1 = i1
  i2 = i2
  w1 = w1
  Executors = {e1}
  Incidents = {i1}
  Workloads = {w1}
  Target <- OneTarget
  Action <- ScaleDown
  TTL = 3
  AckDeadline = 6
  MaxAttempts = 5
  VerifyLimit = 6
  ReviewTTL = 1
  Headroom = 1
  InitialReplicas = 2
  ExternalReplicas = {3}
  MaxTime = 12
  MaxRv = 0
  MaxEvidence = 0
  MaxFaults = 1
  LastFault = 6
PROPERTIES
  MutatedIsSettled
CHECK_DEADLOCK FALSE
