SPECIFICATION CompactionSpec
CONSTANTS
    Plain = {}
    Gated = {}
    Asked = {}
    MaxEvents = 9
    MaxRuns = 4
    KeepTail = 3
    ForcedTail = 2
    MidTail = 1
    MidHead = 4
    ManualHead = 2
    Threshold = 0
    PressureLine = 4
    RejectLine = 5
    TokensPerUnit = {2}
    AppendsFail = FALSE
INVARIANTS
    RejectRecovers
CHECK_DEADLOCK FALSE
