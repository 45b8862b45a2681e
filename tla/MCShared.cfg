SPECIFICATION SharedSpec
CONSTANTS
    Slugs = {1, 2}
    Users = {1, 2}
    Texts = {t1}
    Citing = {1}
    Runners = {r1, r2}
    Compactors = {r2}
    Quorum = 2
    MaxNotes = 2
    MaxCompacts = 1
    MaxTrouble = 2
    Tools = {b1, b2, b3}
    Loops = {l1, l2}
    Backends = {"docker", "daytona", "service"}
    MaxTries = 2
    MaxOutages = 2
    MaxDrops = 1
INVARIANTS
    ArchivedIsKept
    CallsShareOneBox
PROPERTIES
    NotesSettle
    BringUpEnds
CHECK_DEADLOCK FALSE
