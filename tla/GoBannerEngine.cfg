SPECIFICATION FairSpec
CONSTANTS
    PortCount = 8
    MaxWorkers = 2
INVARIANTS
    StreamsAgree
PROPERTIES
    ImplementsStream
    NoGoroutineLeaks
CHECK_DEADLOCK FALSE
