CONSTANTS
    Producers = {p1, p2}
    RING_CAPACITY = 2
    Reorder = FALSE
    MaxLogs = 4
    MaxStarts = 1
SPECIFICATION Spec
INVARIANTS
    SlotOwnership
