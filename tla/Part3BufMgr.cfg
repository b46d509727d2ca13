SPECIFICATION Spec3
CONSTANTS
    NumBufs = 2
    Files = {f1, f2, f3}
    MaxPageNo = 1
    Clients = {c1, c2, c3}
    Data = {a}
    Blank = Blank
    Missing = Missing
    NoPage = NoPage
    NoFrame = NoFrame
    NoPin = NoPin
SYMMETRY Symmetry
PROPERTIES
    ImplementsPagePool
