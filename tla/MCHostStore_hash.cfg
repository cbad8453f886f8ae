SPECIFICATION Spec
CONSTANTS
    home = home
    work = work
    hash = hash
    bad = bad
    None = None
    Absent = Absent
    HostsMax = 2
    MaxLen = 7
    Name <- MCName
    Comment <- MCComment
    Unusable <- MCBad
    Typed <- WithHash
    Legacy <- NoLegacy
    OnCard <- Empty
    Faults <- NoFaults
INVARIANTS
    SavedListKept
