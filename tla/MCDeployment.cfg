SPECIFICATION DeploySpec
CONSTANTS
    MaxDeploys = 3
    None = None
    Setups <- MCSetups
INVARIANTS
    NothingLeftBehind
PROPERTIES
    NoStealing
    BlueServesAgain
CHECK_DEADLOCK FALSE
