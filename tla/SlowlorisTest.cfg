CONSTANTS
    IdleFds = {10, 11, 12, 13, 14}
    Sender = 10
    ClockTicks = 2
    IdleTimeout = 1
    SleepTicks = 3
    MaxIdleClock = 4
SPECIFICATION TestSpec
INVARIANT
    SenderRemains
