SPECIFICATION FairSpec
CONSTANTS
    m3 = m3
    Third = m3
    Msgs = {m1, m2, m3}
    MaxTurns = 4
    MaxRetries = 2
    MaxSteps = 1
    MaxHits = 1
    MaxExpired = 1
    Stubborn = TRUE
    StorageFails = TRUE
ACTION_CONSTRAINT
    LoadBound
INVARIANTS
    AnsweredStays
PROPERTIES
    TurnsEnd
    RequestsEnd
CHECK_DEADLOCK FALSE
