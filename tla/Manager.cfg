SPECIFICATION FairSpec
CONSTANTS
  Ids = {s1, s2}
  Deletes = {d1, d2}
  Sweeper = Sweeper
  MaxSession = 1
  IdleTimeout = TRUE
  MaxCreated = 2
INVARIANTS TypeOK DeleteStopsProcess
PROPERTIES LiveDroppedOnlyByLateDelete DeadLeavesRegistry
CHECK_DEADLOCK FALSE
