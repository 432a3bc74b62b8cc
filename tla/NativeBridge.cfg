SPECIFICATION FairSpec
CONSTANTS
    PortCount = 2
    PipeSize = 1
INVARIANTS
    SuccessIsWhole
    NothingLeftBehind
    CancellationIsPrompt

    
CHECK_DEADLOCK FALSE
