SPECIFICATION WikiSpec
CONSTANTS
    Slugs = {1}
    Users = {1, 2}
    Texts = {t1}
    Citing = {1}
    Runners = {r1}
    Compactors = {}
    Quorum = 2
    MaxNotes = 2
    MaxCompacts = 0
    MaxTrouble = 2
PROPERTIES
    AcceptedIsMerged
CHECK_DEADLOCK FALSE
