SPECIFICATION Spec
CONSTANTS
    home = home
    work = work
    hash = hash
    bad = bad
    None = None
    Absent = Absent
    HostsMax = 2
    MaxLen = 7
    Name <- MCName
    Comment <- MCComment
    Unusable <- MCBad
    Typed <- Plain
    Legacy <- MCLegacy
    OnCard <- MCOnCard
    Faults <- AllFaults
INVARIANTS
    TypeOK
    SavedListKept
PROPERTIES
    LoadsSavedList
