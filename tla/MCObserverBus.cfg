SPECIFICATION Spec
CONSTANTS
  p = p
  q = q
  Observers <- Both
  Events <- TwoEvents
  Setups <- AllSetups
  MaxEmissions = 3
  MaxFailures = 1
  MaxChanges = 2
INVARIANTS
  WrittenOnce
  InOrder
PROPERTIES
  EmissionsEnd
CHECK_DEADLOCK FALSE
