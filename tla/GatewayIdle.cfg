CONSTANTS
    Clients = {c1}
    Fds = {4}
    Listen = 3
    None = none
    MaxBytes = 1
    max_events = 2
    MaxFaults = 0
    BUFFER_SIZE = 2
SPECIFICATION FairSpec
PROPERTY
    SilentIsPurged
