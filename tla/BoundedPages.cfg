SPECIFICATION PagesSpec
CONSTANTS
    ProductIds <- MCProducts
    Ps5Games <- MCPs5Games
    Ps5Titles <- MCPs5Titles
    NoCard = "none"
    End = End
    Openings <- MCOpenings
    Size = 2
    RawPageBound = 2
    MaxCandidates = 2
    Limit = 2
    EntryTimeout = 2
    TotalTimeout = 4
    MaxFaults = 2
CHECK_DEADLOCK FALSE
INVARIANTS PagesTypeOK PagesShowEveryGame EmptyGenreIsReal EnrichedUnlessTooManySlow
PROPERTY ViewSettles
