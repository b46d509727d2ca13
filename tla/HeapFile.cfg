SPECIFICATION Spec
CONSTANTS
    r1 = r1
    r2 = r2
    r3 = r3
    Inserters = {i1}
    Scanners = {s1, s2}
    Markers = {}
    Readers = {}
    Records = {r1, r2, r3}
    Filters <- All
    Lengths <- FitOrNot
    RecLen = 2
    SlotSize = 1
    DataSize = 6
    MaxPageNo = 3
    NoRecord = NoRecord
SYMMETRY SymmetryAll
INVARIANTS
    TypeOK
    PinsAreHandles
    NoChangeLost
    ChainSound
    RecCntCorrect
PROPERTIES
    ScanComplete
