\* Two concurrent requests of two accounts in one browser.
SPECIFICATION FairSpec
CONSTANTS
    fits = fits
    tooLarge = tooLarge
    Npssos <- MCNpssos
    Requests = {r1, r2}
    FullPages <- MCFullPages
    MaxPages = 2
    MaxRuns = 2
INVARIANTS TypeOK CookieWasAccepted OwnAccountOnly WholeLibrary
PROPERTIES OutageKeepsCookie SharesOnlyRunningExchanges RequestsAreAnswered
