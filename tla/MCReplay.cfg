SPECIFICATION Spec
CONSTANTS
    Holds <- MCHolds
    Rewrite <- MCRewrite
    Opened <- MCOpened
    Squashed <- MCSquashed
    Score <- MCScore
    Handler <- MCHandler
    Wrapper <- MCWrapper
    Accepts <- MCAccepts
    Returned <- MCReturned
    AppMiddleware <- MCAppMiddleware
    MaxLoopIterations = 10
    Programs <- MCPrograms
    Graph <- MCGraph
    Answers <- MCAnswers
    Inputs <- MCInputs
    MaxInputs <- MCMaxInputs
    MaxAttempts = 3
    Lag = 0
    Recorded <- MCRecorded
    Faults = 1
    Replays <- MCReplays
INVARIANTS
    SelfCheck
    ServedOnce
CHECK_DEADLOCK FALSE
