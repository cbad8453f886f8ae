SPECIFICATION Spec
CONSTANTS
    a = a
    b = b
    Absent = Absent
    MaxLen = 4
    Chunk <- MCChunk
    Texts <- MCTexts
    OnCard <- MCOnCard
    Faults <- SaveFaults
INVARIANTS
    TypeOK
PROPERTIES
    NoTear
    SaveResult
    ImplementsAtomicFile
