SPECIFICATION Spec
CONSTANTS
    Timeout = 0
    Default = 6
    RecvMs = 2
    ClockCap = 40
    Slept <- MCSlept
INVARIANTS
    TypeOK
    SecretOnlyAfterYes
    RefusalReported
    TimeoutIsTimeout
    NothingLeaks
PROPERTIES
    OpenReturns
CHECK_DEADLOCK FALSE
