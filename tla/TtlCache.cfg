\* Three keys share two slots: pending entries are evicted, expire and are
\* filled anew while their old lookups still run.
SPECIFICATION Spec
CONSTANTS
    Keys = {k1, k2, k3}
    Callers = {c1, c2}
    Outcomes = {"ok", "uncached", "forever"}
    Ttl <- MCTtl
    MaxInstant = 6
    Capacity = 2
    MaxNext = 4
    MaxNow = 1
SYMMETRY Symmetry
CHECK_DEADLOCK FALSE
INVARIANTS TypeOK RecencyMatchesEntries WithinCapacity EntryFollowsItsLookup
PROPERTIES EntriesLeaveForAReason ImplementsContract
