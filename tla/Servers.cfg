CONSTANTS
    Clients = {c1, c2}
    Fds = {4, 5}
    Listen = 3
    None = none
    MaxBytes = 2
    max_events = 2
    MaxFaults = 1
    PoolSize = 1
    BufferSize = 2
    RecvSize = 1
    MaxRounds = 3
SPECIFICATION FairSpec
INVARIANTS
    OwnSocket
    EchoedInFull
    ActiveCount
    NoOrphan
    EventFresh
PROPERTIES
    LeaversClosed
CHECK_DEADLOCK FALSE
