CONSTANTS
    Statements <- MCStatements
    StrLen <- MCStrLen
    MaxNode = 100
    MaxChar = 5000
    MaxIdLen = 50
    MaxAttrs = 40
    MaxStringLen = 255
    MaxName = 32
    Garbled = Garbled
    MaxValue = 255
    MaxFrame = 265
    SixDecimals <- MCSixDecimals
    NoStatement = NoStatement
SPECIFICATION Spec
INVARIANTS TypeOK QueryCall UpdateCall StopsForCause
CHECK_DEADLOCK FALSE
