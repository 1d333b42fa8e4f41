SPECIFICATION Spec
CONSTANTS
    c1 = c1
    c2 = c2
    Slots = {c1, c2}
    Environments <- MCEnvironments
    Loads <- MCLoads
    Deadline <- MCDeadline
    Grace = 3
    DotAt <- MCDotAt
    DefaultPort = 3000
    MaxSafeInteger = 999
    DefaultPageSize = 4
    MaxPageSize = 12
    SearchMaxPageSize = 3
    MaxTermLength = 2
CHECK_DEADLOCK FALSE
INVARIANTS TypeOK LinesBelongToTheirRequest EveryRequestIsAccountedFor AnswersFollowTheContract
PROPERTY StopsInTime
