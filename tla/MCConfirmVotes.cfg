SPECIFICATION Spec
CONSTANTS
    Wraps = {w1, w2}
    Questions = {q1}
    MaxContinues = 2
    MaxEvents = 9
    MaxTurns = 5
    EarlyFailure = TRUE
INVARIANT
    VotesSurvive
CHECK_DEADLOCK FALSE
