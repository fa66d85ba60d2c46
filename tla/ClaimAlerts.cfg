SPECIFICATION Spec
CONSTANTS
  n1 = n1
  n2 = n2
  m1 = m1
  w1 = w1
  w2 = w2
  w3 = w3
  p1 = p1
  NoProvider = NoProvider
  Nothing = Nothing
  c1 = c1
  c2 = c2
  Consumers = {c1}
  Notifications = {n1, n2, m1}
  Manual = {m1}
  ns = ns
  Namespaces = {ns}
  Workloads = {w1, w2, w3}
  Executable = {w3}
  Volatile <- MCVolatile
  MaxAttempts = 2
  Dependencies <- MCDependencies
  Workload <- MCWorkload
  State <- MCState
  Provider <- MCProvider
  Time <- MCTime
  CorrelationWindow = 2
  MaxIncidents = 3
  MaxFaults = 1
INVARIANTS
  OneIncidentPerAlert
CHECK_DEADLOCK FALSE
