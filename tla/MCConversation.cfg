SPECIFICATION ConversationSpec
CONSTANTS
    Wraps = {w1, w2}
    Questions = {q1}
    MaxContinues = 2
    MaxEvents = 9
    MaxTurns = 4
    EarlyFailure = FALSE
    MaxInvs = 3
    MaxCheckpoints = 2
    MaxRewinds = 2
    MaxMishaps = 1
SYMMETRY Symmetry
CONSTRAINT NotStrayed
INVARIANTS
    RunsOnce
    VotesSurvive
    FilesMatchChat
    ModesAreOrdered
PROPERTIES
    SilentRoundIsOwed
    RunsAsVoted
    UndoneStaysUndone
    RunsOnlyWhatIsNotDenied
CHECK_DEADLOCK FALSE
