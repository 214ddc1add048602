SPECIFICATION Spec
CONSTANTS
  Clients = {c1, c2}
  NoConn = NoConn
  MaxOut = 2
  TailChunks = 1
  Queries = {1}
  Unreliable = {}
  Faults = {}
INVARIANTS TypeOK SupersededIsClosed OwnerHoldsEpoch NoLostOutput AnsweredOnceUnlessLate FinalScreen
PROPERTY ImplementsOwner
SYMMETRY Symmetry
CHECK_DEADLOCK FALSE
