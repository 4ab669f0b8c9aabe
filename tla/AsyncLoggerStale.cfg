CONSTANTS
    Producers = {p1}
    RING_CAPACITY = 2
    Reorder = TRUE
    MaxLogs = 4
    MaxStarts = 1
SPECIFICATION FairSpec
PROPERTIES
    NoStaleText
