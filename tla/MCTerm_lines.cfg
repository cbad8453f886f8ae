SPECIFICATION Spec
CONSTANTS
    Screens <- Lines
    MaxCols = 3
    MaxRows = 3
    MaxParams = 3
    ParamCap = 50
    TabStop = 2
INVARIANTS
    InBounds
    TypeOK
PROPERTIES
    LinesArrive
    OutsideStaysPut
CHECK_DEADLOCK FALSE
