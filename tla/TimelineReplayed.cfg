SPECIFICATION FairSpec
CONSTANTS
  w1 = w1
  w2 = w2
  p1 = p1
  p2 = p2
  Callers = {w1, w2}
  Pages = {p1}
  MaxAttempts = 2
  MaxEvents = 3
  MaxFaults = 2
INVARIANTS
  TimelineTypeOK
  AcknowledgedIsKept
  ShownInOrder
PROPERTIES
  Replays
  EventsArrive
CHECK_DEADLOCK FALSE
