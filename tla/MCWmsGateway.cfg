SPECIFICATION Spec
CONSTANTS
    Operators = {"o1", "o2"}
    NoOperator = "none"
    NoKey = NoKey
    AnyVersion = AnyVersion
    Keys <- MCKeys
    Sessions <- MCSessions
    FirstRow <- MCFirstRow
    Threshold = 2
    Window = 1
    MaxTrouble = 2
INVARIANTS AnsweredIsApplied StartedByHolder
 
CHECK_DEADLOCK FALSE
