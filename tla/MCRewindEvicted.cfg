SPECIFICATION RewindSpec
CONSTANTS
    MaxInvs = 3
    MaxCheckpoints = 2
    MaxRewinds = 2
    MaxMishaps = 0
INVARIANT MenuListsSurvivors
CHECK_DEADLOCK FALSE
