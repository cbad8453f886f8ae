SPECIFICATION Spec
CONSTANTS
    WaitMax = 1
    PressMax = 1
    LeftoverMax = 1
    AppearMax = 2
    CloseMax = 3
    HostMax = 2
    ListRows = 2
    Profiles <- Two
    TriesMax = 1
    Timeout = 1
    Default = 1
    RecvMs = 0
    ClockCap = 0
    Slept <- PspSlept
    DrainMax = 2
    ReadMax = 2
    LineMax = 2
    SpinMax = 2
INVARIANTS
    PressActsOnce
CHECK_DEADLOCK FALSE
