SPECIFICATION Spec
CONSTANTS
    m3 = m3
    Third = m3
    Msgs = {m1, m2, m3}
    MaxTurns = 3
    MaxRetries = 0
    MaxSteps = 2
    MaxHits = 2
    MaxExpired = 0
    Stubborn = FALSE
    StorageFails = TRUE
SYMMETRY Symmetry
INVARIANTS
    SingleFlight
    OneDriver
    DoneLosesNothing
    WithdrawnIsGone
    StoppedOnceIsAnswered
PROPERTIES
    ImplementsSlot
CHECK_DEADLOCK FALSE
