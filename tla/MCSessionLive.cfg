SPECIFICATION FairSpec
CONSTANTS
  Clients = {c1, c2}
  NoConn = NoConn
  MaxOut = 0
  TailChunks = 1
  Queries = {}
  Unreliable = {c1}
  Faults = {"down"}
PROPERTIES SupersededLeaves DestroyEndsProcess DroppedGivesBack
CHECK_DEADLOCK FALSE
