SPECIFICATION ServeSpec
CONSTANTS
  SvRequests = {r1}
  SvConns = {c1}
INVARIANTS DrainedBeforeExit
CHECK_DEADLOCK FALSE
