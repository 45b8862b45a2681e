SPECIFICATION StoreSpec
CONSTANTS
    Drivers = {d1}
    Compactors = {}
    MaxLines = 4
    MaxBirths = 1
    MaxFaults = 1
INVARIANTS
    StaysLoadable
CHECK_DEADLOCK FALSE
