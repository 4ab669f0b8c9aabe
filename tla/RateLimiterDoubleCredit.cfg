CONSTANTS
    Threads = {t1, t2}
    Capacity = 1
    Rate = 1
    Micro = 2
    TicksPerUs = 1
    IntMax = 1000
    MaxClock = 2
    MaxCalls = 3
SPECIFICATION Spec
INVARIANT
    AdmissionBound
