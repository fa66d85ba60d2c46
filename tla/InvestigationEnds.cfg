SPECIFICATION FairSpec
CONSTANTS
  r1 = r1
  r2 = r2
  s1 = s1
  s2 = s2
  p1 = p1
  NoRun = NoRun
  Runs = {r1}
  Specialists = {s1, s2}
  Responders = {p1}
  MaxQueries = 2
  MaxRounds = 2
  MaxFaults = 1
INVARIANTS
  BudgetOverrun
PROPERTIES
  RunsEnd
  ProposalIsDecided
CHECK_DEADLOCK FALSE
