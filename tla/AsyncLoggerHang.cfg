CONSTANTS
    Producers = {p1}
    RING_CAPACITY = 2
    Reorder = FALSE
    MaxLogs = 4
    MaxStarts = 1
SPECIFICATION FairSpec
PROPERTY
    StopReturns
