SPECIFICATION FairSpec
CONSTANTS
  p1 = p1
  p2 = p2
  Responders = {p1, p2}
  Proposals <- MCProposals
  Minimum = 1
  Maximum = 5
  Unrestorable = {}
  ReviewTTL = 1
  InitialReplicas = 2
  ExternalReplicas = {3}
  MaxTime = 1
  MaxRv = 2
  MaxEvidence = 1
  MaxFaults = 1
INVARIANTS
  ApprovalInvariant
  ReviewIsTruthful
PROPERTIES
  DecidedAsReviewed
  DecisionIsPublished
CHECK_DEADLOCK FALSE
