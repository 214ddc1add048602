SPECIFICATION Spec
CONSTANTS
  Clients = {c1, c2}
  NoConn = NoConn
  MaxOut = 1
  TailChunks = 1
  Queries = {}
  Unreliable = {}
  Faults = {}
INVARIANT DeliveredOnce
CHECK_DEADLOCK FALSE
