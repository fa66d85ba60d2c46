SPECIFICATION Spec
CONSTANTS
  r1 = r1
  r2 = r2
  s1 = s1
  s2 = s2
  p1 = p1
  NoRun = NoRun
  Runs = {r1, r2}
  Specialists = {s1, s2}
  Responders = {}
  MaxQueries = 1
  MaxRounds = 2
  MaxFaults = 1
SYMMETRY MCSymmetry
INVARIANTS
  OwnFindings
  InvestigationInvariant
PROPERTIES
  CompletedOnce
  ApprovalNotWithdrawn
CHECK_DEADLOCK FALSE
