SPECIFICATION Spec
CONSTANTS
    Responses <- MCResponses
    Setups <- MCSetups
INVARIANTS
    ProviderSeesSession
    AnsweredCalls
    StreamAsWritten
CHECK_DEADLOCK FALSE
