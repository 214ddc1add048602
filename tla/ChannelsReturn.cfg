SPECIFICATION Spec
CONSTANTS
  Rivals = {r1}
  NoChan = NoChan
  AutoReconnect = FALSE
  MaxLinks = 2
  MaxAttaches = 2
PROPERTIES PreemptedStaysAway
CHECK_DEADLOCK FALSE
