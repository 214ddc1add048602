SPECIFICATION Spec
CONSTANTS
  Ids = {s1}
  Deletes = {d1}
  Sweeper = Sweeper
  MaxSession = 0
  IdleTimeout = FALSE
  MaxCreated = 2
INVARIANT LiveIsRegistered
CHECK_DEADLOCK FALSE
