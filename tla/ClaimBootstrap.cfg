CONSTANTS
  Operators <- MCOperators
  Profile <- MCKubernetes
  Standing = {}
  ReuseOnly = TRUE
  MaxFaults = 1
  MaxDrift = 0
SPECIFICATION FairSpec
PROPERTY
  RemainingIsProposed
