\* The 35 seconds of grace meet a library request that exchanges its NPSSO first.
SPECIFICATION Spec
CONSTANTS
    c1 = c1
    c2 = c2
    Slots = {c1, c2}
    Environments <- Library
    Loads <- MCLoads
    Deadline <- SecondsDeadline
    Grace = 35
    DotAt <- MCDotAt
    DefaultPort = 3000
    MaxSafeInteger = 999
    DefaultPageSize = 4
    MaxPageSize = 12
    SearchMaxPageSize = 3
    MaxTermLength = 2
CHECK_DEADLOCK FALSE
INVARIANT GraceCoversTheLongestRequest
