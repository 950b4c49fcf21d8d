SPECIFICATION Spec
CONSTANTS
  a = a
  b = b
  c1 = c1
  c2 = c2
  Nobody = Nobody
  HostNames = {a, b}
  Callers = {c1, c2}
  Routes <- MCRoutes
  Replies <- MCReplies
  MaxAttempts = 2
  Threshold = 2
INVARIANTS
  OneGatePerHost
  OutageIsolated
PROPERTIES
  SteadyHostServed
  SelectorAnswers
