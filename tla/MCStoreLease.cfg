SPECIFICATION Spec
CONSTANTS
    Apps = {blue, green}
    NoApp = NoApp
    Ttl = 2
    MaxTime = 4
    MaxToken = 3
    Atomic = TRUE
INVARIANTS
    SingleWriter
CHECK_DEADLOCK FALSE
