SPECIFICATION Spec
CONSTANTS
    Names = {f1, f2}
    Clients = {c1, c2}
    Data = {a}
    Blank = Blank
    MaxPageNo = 3
    Absent = Absent
    Headless = Headless
    Addresses = {1, 2}
    HashOf <- OneChain
    NoFile = NoFile
    NoWrite = NoWrite
SYMMETRY Symmetry
INVARIANTS
    TypeOK
    OpenCntIsClients
    HeaderSound
