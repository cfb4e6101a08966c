SPECIFICATION Spec
CONSTANTS
    Relays = {"r1"}
    Key <- Together
    BatchSize = 2
    MaxAttempts = 2
    WriterAttempts = 1
    MaxFaults = 0
    OrderedReturning = TRUE
INVARIANT NoOvertaking
CHECK_DEADLOCK FALSE
