SPECIFICATION Spec
CONSTANTS
    Lookups = {l1}
    Feeds <- MCFeeds
    SuccessTtl <- MCSuccessTtl
    FailureTtl <- MCFailureTtl
    MissTtl = 1
    MaxNow = 2
    MaxChanges = 1
INVARIANTS TypeOK ListedGameIsFound NotFoundIsAnswered
