SPECIFICATION Spec
CONSTANTS
  a = a
  b = b
  Callers <- Both
  Setups <- AllSetups
  MaxCalls = 3
  MaxSockets = 2
  MaxAsks = 1
  MaxCloses = 1
INVARIANTS
  OwnAnswers
  NoTurnMissed
PROPERTIES
  EveryCallEnds
CHECK_DEADLOCK FALSE
