SPECIFICATION ServicesSpec
CONSTANTS
    h1 = h1
    h2 = h2
    Host = {h1, h2}
    Runs = {}
    Boxed = {}
    Mixes = {{}, {h1, h2}}
    Cap = 1
    MaxStops = 2
    Reused = {h1, h2}
    Kids = {k1, k2}
    Calls = {c1, c2}
    Slots = 1
    MaxTurns = 2
    Clients = {s1}
    MaxEvents = 4
    MaxReopens = 3
    Wraps = {w1, w2}
    Questions = {q1}
    MaxContinues = 2
    ConfirmEvents = 21
    ConfirmTurns = 2
    EarlyFailure = FALSE
INVARIANTS
    ReportedOnce
    NoneForgotten
    EndLeavesNone
    StreamIsExact
PROPERTIES
    PumpSeesTheEnd
    CollectReturns
    StreamsEnd
    ConfirmTurnsEnd
CHECK_DEADLOCK FALSE
