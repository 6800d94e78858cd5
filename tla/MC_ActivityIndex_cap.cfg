SPECIFICATION Spec
CONSTANTS
    Syncs = {s1}
    PageSize = 2
    TopUpPages = 2
    BackfillPages = 1
    MaxEntries = 2
    MaxEvents = 2
    MaxTxs = 5
    MaxFaults = 0
INVARIANTS CompleteMeansAll
