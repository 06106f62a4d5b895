SPECIFICATION Spec
CONSTANTS
  Targets <- BothTargets
  NoTarget = NoTarget
  Setups <- AllSetups
  MaxMessages = 2
  MaxCrashes = 1
  MaxFailures = 1
INVARIANTS
  RecordedOnce
  StartDelivers
PROPERTIES
  ServesQueues
CHECK_DEADLOCK FALSE
