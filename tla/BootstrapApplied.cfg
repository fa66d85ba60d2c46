CONSTANTS
  Operators <- MCOperators
  Profile <- MCProfile
  Standing <- MCStanding
  ReuseOnly = TRUE
  MaxFaults = 1
  MaxDrift = 1
SPECIFICATION FairSpec
CHECK_DEADLOCK FALSE
INVARIANTS
  BootstrapTypeOK
  OrderSuffices
  VerifiedIsComplete
PROPERTIES
  OnlyWhatWasReviewed
  Converges
