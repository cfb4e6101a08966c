SPECIFICATION Spec
CONSTANTS
    Relays = {"r1", "r2"}
    Key <- Apart
    BatchSize = 2
    MaxAttempts = 2
    WriterAttempts = 2
    MaxFaults = 2
    OrderedReturning = TRUE
INVARIANTS TypeOK RetiredIsAccounted 
PROPERTIES EveryRowRetired
CHECK_DEADLOCK FALSE
