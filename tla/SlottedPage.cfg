SPECIFICATION Spec
CONSTANTS
    a = a
    b = b
    c = c
    d = d
    DataSize = 12
    SlotSize = 2
    Byte <- MCByte
    Records <- MCRecords
INVARIANTS
    TypeOK
    SpaceAccounted
    RecordsTile
    EmptyIsFresh
PROPERTIES
    ImplementsRecordMap
