SPECIFICATION Spec
CONSTANTS
    Operators = {"o1", "o2"}
    NoOperator = "none"
    NotCounted = NotCounted
    Receipts = {"r"}
    ReceiptDoc <- MCReceiptDoc
    FirstReceipt <- MCFirstReceipt
    Counts = {"c"}
    CountExpected <- MCCountExpected
    FirstCount <- MCFirstCount
    Packages = {"k1", "k2"}
    FirstShipment <- MCFirstShipment
    Items = {"i"}
    FirstBalance <- MCFirstBalance
    Keys <- MCKeys
    Handlers = {h1, h2}
    Readers = {p1}
    Commands <- MCCommands
    MaxVersion = 3
    Absent = Absent
    NoFlight = NoFlight
    Loading = Loading
    NoResult = NoResult
INVARIANTS BookedIsReceived ClosedIsJustified
PROPERTIES ViewCatchesUp
CHECK_DEADLOCK FALSE
