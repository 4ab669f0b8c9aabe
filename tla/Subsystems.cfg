CONSTANTS
    Width = 3
    NextHops = {h1, h2}
    NoRoute = none
    MaxRoutes = 3
    Objects = {o1, o2, o3}
    Descriptors = {3, 4, 5}
    MsgLen = 3
    PipeSize = 2
    MaxInterrupts = 2
    Recorders = {t1, t2}
    Amounts = {2}
    MaxCalls = 1
    MaxSnapshots = 2
    Senders = {s1, s2}
    Sizes = {0, 2, 3}
    RecvLimit = 2
    QueueSize = 2
    MaxArrivals = 3
    MaxUdpErrors = 1
    Sessions = {10, 11}
    NonceLength = 1
    SecretSize = 2
    secret <- SHARED_SECRET
    TicksPerSecond = 2
    AuthTimeout = 1
    MaxAuthClock = 4
    Mentioned = {"port", "thread_pool_size"}
    Numbers = {0, 5}
    Malformed = malformed
    Absent = absent
    Default = 2
    PortModulus = 4
    SizeModulus = 8
    MaxPool = 4
    ByteBase = 4
    LengthBytes = 2
    MAX_PAYLOAD_SIZE = 2
    MaxStream = 7
    MaxFrame = 96
    IdleFds = {10, 11}
    ClockTicks = 2
    IdleTimeout = 1
    MaxIdleClock = 5
    BenchClients = {b1, b2, b3}
    NUM_OPERATIONS_PER_CLIENT = 2
    BenchWorkers = 2
    Workers = {w1, w2}
    Tasks = {t1, t2, t3}
    Owner = owner
    None = none
    MaxSpurious = 1
SPECIFICATION FairSpec
INVARIANTS
    LookupIsLongestMatch
    OneOwner
    DeliveredOnce
    NoCallLost
    EachAnswered
    FirstTokenDecides
    
    DecodeInvertsEncode
    ReadsInsideFrame
    ExpiredAreSilent
    ReportIsFinal
    ExactlyOnce
    NoLostWakeup
PROPERTIES
    ImplementsTaskService
    AcceptedRuns
    DestructorReturns
    EverythingReturns
CHECK_DEADLOCK FALSE
