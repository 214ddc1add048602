SPECIFICATION Spec
CONSTANTS
  Rivals = {r1}
  NoChan = NoChan
  AutoReconnect = TRUE
  MaxLinks = 1
  MaxAttaches = 2
INVARIANTS TypeOK BridgeIsRegistered
CHECK_DEADLOCK FALSE
