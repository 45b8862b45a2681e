SPECIFICATION RewindSpec
CONSTANTS
    MaxInvs = 3
    MaxCheckpoints = 2
    MaxRewinds = 2
    MaxMishaps = 1
INVARIANT WholeTurnUndone
CHECK_DEADLOCK FALSE
