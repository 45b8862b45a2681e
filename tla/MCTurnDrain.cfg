SPECIFICATION Spec
CONSTANTS
    m3 = m3
    Third = m3
    Msgs = {m1, m2, m3}
    MaxTurns = 2
    MaxRetries = 0
    MaxSteps = 1
    MaxHits = 1
    MaxExpired = 0
    Stubborn = FALSE
    StorageFails = TRUE
SYMMETRY Symmetry
PROPERTY
    DrainedIsPersisted
CHECK_DEADLOCK FALSE
