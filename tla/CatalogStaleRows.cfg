SPECIFICATION Spec
CONSTANTS
    Users = {ra, rb}
    Tmp = Tmp
    x = x
    y = y
    long = long
    Attribute <- Attributes
    LongNames = {long}
    NoAttr = NoAttr
    PageSize = 3
    MaxTuple = 2
    MaxAttrs = 2
    MaxOpen = 1
SYMMETRY Symmetry
INVARIANT RowsFitLayout
