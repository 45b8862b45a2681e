SPECIFICATION Spec
CONSTANTS
    Wraps = {w1, w2}
    Questions = {q1}
    MaxContinues = 2
    MaxEvents = 9
    MaxTurns = 5
    EarlyFailure = FALSE
PROPERTY ResolvedStays
CHECK_DEADLOCK FALSE
