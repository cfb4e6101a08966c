SPECIFICATION Spec
CONSTANTS
    Operators = {"o1", "o2"}
    NoOperator = "none"
    Tasks <- MCTasks
    Order <- MCOrder
    FirstRow <- MCFirstRow
    Items = {"i"}
    Places = {"A", "B", "C"}
    Locations = {"A", "B", "C"}
    Capacity <- MCCapacity
    Compatible <- MCCompatible
    FirstUsed <- MCFirstUsed
    FirstStock <- MCFirstStock
    Keys <- MCKeys
    Handlers = {h1, h2}
    Commands <- MCCommands
    AnyItem = "any"
    NoTask = "-"
    NoRoute = NoRoute
    NoResult = NoResult
    NoRequest = NoRequest
INVARIANTS LedgerExplainsStock CompletedIsMoved OneMovePerKey VersionNamesRow 
PROPERTIES EveryTransactionEnds
CHECK_DEADLOCK FALSE
