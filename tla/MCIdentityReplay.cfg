SPECIFICATION IdentitySpec
INVARIANTS ReplayKillsChain
CHECK_DEADLOCK FALSE
CONSTANTS
    Users = {"u1"}
    Requests = {"p1", "p2"}
    MaxTokens = 2
    MaxChanges = 3
