SPECIFICATION FairSpec
CONSTANTS
    Syncs = {s1, s2}
    PageSize = 2
    TopUpPages = 1
    BackfillPages = 1
    MaxEntries = 1
    MaxEvents = 2
    MaxTxs = 4
    MaxFaults = 1
CONSTRAINT Bounded
INVARIANTS TypeOK GapsAreAhead
PROPERTIES EverythingIndexed
