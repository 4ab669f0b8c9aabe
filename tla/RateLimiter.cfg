CONSTANTS
    Threads = {t1, t2}
    Capacity = 1
    Rate = 2
    Micro = 2
    TicksPerUs = 2
    IntMax = 100
    MaxClock = 5
    MaxCalls = 3
SPECIFICATION FairSpec
INVARIANTS
    SoleCallerBound
    ContentionBound
    LossBounded
PROPERTIES
    DeniedOnlyWhenEmpty
    CallsReturn
