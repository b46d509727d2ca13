SPECIFICATION Spec
CONSTANTS
    r1 = r1
    r2 = r2
    r3 = r3
    Inserters = {i1}
    Scanners = {s1}
    Markers = {s1}
    Readers = {h1}
    Records = {r1, r2, r3}
    Filters <- All
    Lengths <- FitOrTooLong
    RecLen = 2
    SlotSize = 1
    DataSize = 3
    MaxPageNo = 4
    NoRecord = NoRecord
SYMMETRY SymmetryAll
PROPERTIES
    ImplementsRecordMap
    ScanComplete
