SPECIFICATION StoreSpec
CONSTANTS
    Drivers = {d1}
    Compactors = {}
    MaxLines = 3
    MaxBirths = 2
    MaxFaults = 0
PROPERTIES
    DeadRunsStayOut
CHECK_DEADLOCK FALSE
