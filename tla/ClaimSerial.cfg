SPECIFICATION Spec
CONSTANTS
  e1 = e1
  e2 = e2
  i1 = i1
  i2 = i2
  w1 = w1
  Executors = {e1, e2}
  Incidents = {i1, i2}
  Workloads = {w1}
  Target <- SameTarget
  Action <- RestartTwice
  TTL = 1
  AckDeadline = 2
  MaxAttempts = 5
  VerifyLimit = 2
  ReviewTTL = 2
  Headroom = 1
  InitialReplicas = 2
  ExternalReplicas = {3}
  MaxTime = 2
  MaxRv = 0
  MaxEvidence = 0
  MaxFaults = 0
  LastFault = 9
INVARIANTS
  InterventionsAreSerial
CHECK_DEADLOCK FALSE
