SPECIFICATION FairSpec
CONSTANTS
    Timeout = 2
    Retries = 2
    RetryAfterMax = 3
    Second = 2
    ManualRedirects = FALSE
    Bodies <- MCBodies
    RetryAfters <- MCRetryAfters
CHECK_DEADLOCK FALSE
INVARIANTS WithinBudget LastAttemptDecides OutageIsNotData PartialAnswerIsKept
PROPERTY CallsEnd
