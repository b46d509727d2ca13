SPECIFICATION SpecStage4
CONSTANTS
    r1 = r1
    r2 = r2
    r3 = r3
    Inserters = {i1}
    Scanners = {s1}
    Markers = {}
    Readers = {h1}
    Records = {r1, r2, r3}
    Filters <- All
    Lengths <- FitOrNot
    RecLen = 2
    SlotSize = 1
    DataSize = 3
    MaxPageNo = 4
    NoRecord = NoRecord
SYMMETRY SymmetryAll
PROPERTY ImplementsRecordMap
