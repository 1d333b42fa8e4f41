SPECIFICATION Spec
CONSTANTS
    a = a
    b = b
    PREFETCH_ORDER <- MCOrder
    SignedInTabs <- MCSignedInTabs
    Accounts <- MCAccounts
    NoAccount = NoAccount
    List = List
    MaxMoves = 3
SYMMETRY Symmetry
CHECK_DEADLOCK FALSE
PROPERTY SignInResetsWhatIsOffScreen
