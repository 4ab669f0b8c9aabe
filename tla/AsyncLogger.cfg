CONSTANTS
    Producers = {p1, p2}
    RING_CAPACITY = 2
    Reorder = TRUE
    MaxLogs = 4
    MaxStarts = 2
SPECIFICATION FairSpec
INVARIANTS
    OwnedUntilOverrun
    PrintedInClaimOrder
    NothingLost
    FlushedOnStop
PROPERTIES
    StopReturnsInTime
