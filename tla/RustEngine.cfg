SPECIFICATION FairSpec
CONSTANTS
    PortCount = 6
    Workers = 2
INVARIANTS
    SuccessIsComplete
    OutputFailureIsTold
PROPERTIES
    NoSpawnAfterCancel
    ImplementsStream
CHECK_DEADLOCK FALSE
