SPECIFICATION RewindSpec
CONSTANTS
    MaxInvs = 3
    MaxCheckpoints = 4
    MaxRewinds = 2
    MaxMishaps = 0
INVARIANT FilesAndChatTogether
CHECK_DEADLOCK FALSE
