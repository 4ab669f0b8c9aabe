CONSTANTS
    Clients = {c1, c2, c3}
    Fds = {4, 5}
    Listen = 3
    None = none
    MaxBytes = 2
    TotalBytes = 2
    max_events = 2
    MaxFaults = 1
    BUFFER_SIZE = 2
SPECIFICATION MCSpec
INVARIANTS
    TablesAgree
    BatchFresh
    EchoAccounting
PROPERTIES
    GoneIsClosed
    ClientsAccepted
    StopEnds
