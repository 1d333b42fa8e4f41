\* A late 401 for a former NPSSO meets the cookie of a new one.
SPECIFICATION Spec
CONSTANTS
    fits = fits
    tooLarge = tooLarge
    Npssos <- MCNpssos
    Requests = {r1, r2}
    FullPages <- MCFullPages
    MaxPages = 2
    MaxRuns = 2
PROPERTIES SignedInUntilRejected
