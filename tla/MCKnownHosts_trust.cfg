SPECIFICATION Spec
CONSTANTS
    s1 = s1
    s2 = s2
    k1 = k1
    k2 = k2
    Cut = Cut
    None = None
    Absent = Absent
    KnownMax = 2
    MaxLen = 5
    Server <- MCServer
    Key <- MCKey
    OnCard <- Present
    Faults <- SaveFaults
INVARIANTS
    NoFalseAlarm
    KeepsInFile
    KeepsInMemory
    NoDuplicates
    FileIsMemory
    ForgetLasts
PROPERTIES
    LoadIsWhole
