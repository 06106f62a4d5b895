CONSTANTS
  Backends <- AllSetups
  Cells = {"outbox", "timers"}
  MaxInputs = 2
  MaxRecords = 1
  MaxJobs = 4
SPECIFICATION StoreSpec
CHECK_DEADLOCK FALSE
INVARIANTS
  TornReadSafe
  ListedAsStored
PROPERTY
  ActsAtomically
