SPECIFICATION IdentitySpec
INVARIANTS DisabledStaysOut
CHECK_DEADLOCK FALSE
CONSTANTS
    Users = {"u1", "u2"}
    Requests = {"p1", "p2"}
    MaxTokens = 2
    MaxChanges = 3
