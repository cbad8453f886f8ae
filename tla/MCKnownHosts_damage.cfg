SPECIFICATION Spec
CONSTANTS
    s1 = s1
    s2 = s2
    k1 = k1
    k2 = k2
    Cut = Cut
    None = None
    Absent = Absent
    KnownMax = 1
    MaxLen = 3
    Server <- MCServer
    Key <- MCKey
    OnCard <- AnyCard
    Faults <- AllFaults
INVARIANTS
    TypeOK
    AcceptedWasConfirmed
PROPERTIES
    NoTear
    SaveResult
