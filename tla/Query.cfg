SPECIFICATION Spec
CONSTANTS
    left = left
    right = right
    id = id
    weight = weight
    ref = ref
    Tmp = Tmp
    Schema <- Attributes
    Half = 8
    FloatBits <- Floats
    Values <- Literals
    InsertLists <- Lists
    Projections <- AttrLists
    JoinMethods = {"NLJoin", "HashJoin"}
    NoWhere = NoWhere
    NoStatement = NoStatement
    Empty = Empty
    MaxTuples = 2
    Capacity = 3
CHECK_DEADLOCK FALSE
INVARIANTS
    TypeOK
    SelectExact
    JoinExact
    DeleteExact
    InsertByName
PROPERTIES
    StatementEnds
