SPECIFICATION FairBringSpec
CONSTANTS
    Tools = {b1, b2}
    Loops = {l1}
    Backends = {"service"}
    MaxTries = 1
    MaxOutages = 0
    MaxDrops = 0
PROPERTIES
    LockHeldBriefly
CHECK_DEADLOCK FALSE
