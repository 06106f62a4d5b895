SPECIFICATION FairSpec
CONSTANTS
  Setups <- AllSetups
  MaxInputs = 2
  MaxReplies = 2
  MaxCrashes = 1
  MaxFailures = 1
  MaxErrors = 1
  AutoRecover = TRUE
INVARIANTS
  CursorNeverAhead
  EachInputOnce
  EffectsBounded
PROPERTIES
  HistoryKept
  TimersFire
  OrphansResolved
CHECK_DEADLOCK FALSE
