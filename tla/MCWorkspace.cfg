SPECIFICATION WorkspaceSpec
CONSTANTS
    Drivers = {d1, d2}
    Compactors = {c1}
    MaxLines = 5
    MaxBirths = 3
    MaxFaults = 2
    Users = {u1, u2}
    Requests = {p1, p2}
    MaxTokens = 3
    MaxChanges = 2
    Plain = {k1}
    Gated = {g1}
    Asked = {q1}
    MaxEvents = 8
    MaxRuns = 4
    KeepTail = 3
    ForcedTail = 2
    MidTail = 1
    MidHead = 2
    ManualHead = 2
    Threshold = 2
    PressureLine = 2
    RejectLine = 3
    TokensPerUnit = {2}
    AppendsFail = TRUE
    b1 = b1
    b2 = b2
    h1 = h1
    h2 = h2
    r1 = r1
    r2 = r2
    Host = {h1, h2}
    Runs = {r1, r2}
    Boxed = {b1, b2}
    Mixes = {{}, {h1, h2}, {r1, r2}, {b1, b2}}
    Cap = 1
    MaxStops = 2
    Reused = {h1, b1}
    Topics = {1, 2}
    Texts = {x1, x2}
    Turns = {m1, m2}
    Sweepers = {w1}
    Bar = 2
    EpisodicCap = 1
    MaxCaptures = 3
    MaxSweeps = 1
    MaxKills = 1
INVARIANTS
    FactsSurvive
    NoRebirth
    LoadsWhatWasKept
    OneLivePerChain
    DisabledHasNoSession
    ParkedCallStays
    NoHiddenHost
    QuitLeavesNoHost
    RunRecordsClose
PROPERTIES
    FinishedForGood
CHECK_DEADLOCK FALSE
