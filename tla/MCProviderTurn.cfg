SPECIFICATION Spec
CONSTANTS
  Setups <- AllSetups
  MaxTurns = 3
  MaxThreads = 4
  MaxRetries = 1
  MaxFaults = 3
INVARIANTS
  RestartsBounded
  ThreadsKept
  EventsBalanced
CHECK_DEADLOCK FALSE
