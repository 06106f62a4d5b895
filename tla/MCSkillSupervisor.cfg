SPECIFICATION Spec
CONSTANTS
    v1 = v1
    v2 = v2
    v3 = v3
    m1 = m1
    m2 = m2
    m3 = m3
    Versions <- MCVersions
    Manifests <- MCManifests
    Turns = {t1, t2}
    Authors = {a1, a2}
    None = None
    Setups <- MCSetups
INVARIANTS
    
    GatedAsWritten
PROPERTIES
    RestartIsFaithful
    FailingStaysOut
CHECK_DEADLOCK FALSE
