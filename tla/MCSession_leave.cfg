SPECIFICATION Spec
CONSTANTS
    WaitMax = 1
    PressMax = 1
    LeftoverMax = 1
    AppearMax = 1
    CloseMax = 2
    HostMax = 1
    ListRows = 1
    Profiles <- Two
    TriesMax = 1
    Timeout = 1
    Default = 1
    RecvMs = 0
    ClockCap = 0
    Slept <- PspSlept
    DrainMax = 2
    ReadMax = 2
    LineMax = 2
    SpinMax = 2
INVARIANTS
    TypeOK
    SessionHasSocket
    NothingLeftOpen
    PasswordsWiped
    NothingAfterTorn
    DialogPutDown
    CutOffOnlyLeaving
    CursorShown
    ProfilesTried
    NoHalfOpen
PROPERTIES
    ExitLeaves
    KeyboardComesOrNot
CHECK_DEADLOCK FALSE
