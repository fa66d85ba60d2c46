SPECIFICATION Spec
CONSTANTS
  w1 = w1
  w2 = w2
  p1 = p1
  p2 = p2
  Callers = {w1}
  Pages = {p1}
  MaxAttempts = 2
  MaxEvents = 2
  MaxFaults = 0
INVARIANTS
  ShownIsComplete
CHECK_DEADLOCK FALSE
