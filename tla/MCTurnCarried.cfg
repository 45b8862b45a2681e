SPECIFICATION Spec
CONSTANTS
    m3 = m3
    Third = m3
    Msgs = {m1, m2, m3, m4}
    MaxTurns = 4
    MaxRetries = 0
    MaxSteps = 1
    MaxHits = 1
    MaxExpired = 0
    Stubborn = FALSE
    StorageFails = FALSE
SYMMETRY Symmetry
INVARIANT
    CarriedNotDropped
CHECK_DEADLOCK FALSE
