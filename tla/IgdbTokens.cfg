SPECIFICATION Spec
CONSTANTS
    Finds = {f1, f2}
    TokenTtl = 2
    FailureTtl = 1
    MaxRequests = 3
    MaxNow = 2
SYMMETRY Symmetry
CHECK_DEADLOCK FALSE
INVARIANTS TypeOK RefreshesAreShared OutcomeIsHeld
PROPERTY RefusedTokenIsDropped
