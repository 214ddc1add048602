CONSTANTS
  a1 = a1
  a2 = a2
  r1 = r1
  Relays = {a1, a2}
  Rests = {r1, r2}
  Sizes <- MCSizes
  DefaultSize <- MCDefaultSize
  Texts = {blank, ready}
  Blank = blank
  Hit = ready
  FixedSize = FALSE
  MaxChunks = 1
  MaxResizes = 2
SPECIFICATION MCSpec
CHECK_DEADLOCK FALSE
INVARIANTS MonitorInStep SizesAgree NotLeftShort ExitMissesNothing
PROPERTIES MonitorCatchesUp
