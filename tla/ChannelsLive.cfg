SPECIFICATION FairSpec
CONSTANTS
  Rivals = {}
  NoChan = NoChan
  AutoReconnect = FALSE
  MaxLinks = 2
  MaxAttaches = 2
PROPERTIES LostLinkFrees AttachIsAnswered
CHECK_DEADLOCK FALSE
