SPECIFICATION Spec
CONSTANTS
    m3 = m3
    Third = m3
    Msgs = {m1, m2, m3}
    MaxTurns = 2
    MaxRetries = 0
    MaxSteps = 1
    MaxHits = 1
    MaxExpired = 0
    Stubborn = TRUE
    StorageFails = FALSE
SYMMETRY Symmetry
INVARIANT
    OneDriver
CHECK_DEADLOCK FALSE
