SPECIFICATION Spec
CONSTANTS
    Timeout = 6
    Default = 6
    RecvMs = 5
    ClockCap = 40
    Slept <- PspSlept
INVARIANTS
    TimeoutOnTime
CHECK_DEADLOCK FALSE
