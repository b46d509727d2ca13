SPECIFICATION Spec
CONSTANTS
    NumBufs = 2
    Files = {f1}
    MaxPageNo = 3
    Clients = {c1, c2, c3}
    Data = {a}
    Blank = Blank
    Missing = Missing
    NoPage = NoPage
    NoFrame = NoFrame
    NoPin = NoPin
SYMMETRY Symmetry
INVARIANTS
    TypeOK
    HashedIffInPool
    PinsAreHolders
    CleanIsOnDisk
PROPERTIES
    FlushIsComplete
    ExceededOnlyIfAllPinned
    SecondChance
    ImplementsPagePool
