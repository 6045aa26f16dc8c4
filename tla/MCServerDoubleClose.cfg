SPECIFICATION Spec
CONSTANTS
  c1 = c1
  c2 = c2
  c3 = c3
  none = none
  Conns = {c1, c2}
  NoConn = none
  Fds = {4}
  Paths <- MCPaths
  Root = "/"
  Methods <- MCMethods
  Routes <- MCRoutes
  Request <- MCRequest
  FailingCalls = {}
CHECK_DEADLOCK FALSE
INVARIANTS
  TouchesNoOther
