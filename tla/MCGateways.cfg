SPECIFICATION GatewaysSpec
CONSTANTS
    ann = ann
    bob = bob
    here = here
    there = there
    c1 = c1
    c2 = c2
    c3 = c3
    Events <- AllEvents
    Tasks <- AllTasks
    Keys <- AllKeys
    Setups <- AllSetups
    Calls = {c1, c2, c3}
    NoTask = NoTask
    Undefined = Undefined
    MaxFailures = 1
INVARIANTS
    MapDrains
    ConfirmedAreHandled
    StopQuiesces
    ProgressOnce
PROPERTIES
    ImplementsLanes
    UpdatesAreHandled
CHECK_DEADLOCK FALSE
