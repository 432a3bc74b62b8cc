SPECIFICATION FairSpec
CONSTANTS
    a1 = a1
    a2 = a2
    a3 = a3
    s1 = s1
    s2 = s2
    Address = {a1, a2, a3}
    Resolution = {{a1}, {a1, a2}, {a2, a3}}
    Stem <- SharedStem
    None = None
    Foreign = Foreign
    MaxParsed = 2
    TargetWorkers = 2
    BannerGrab = TRUE
    MaxFaults = 1
    MaxInterrupts = 1
    MaxNumber = 4
INVARIANTS
    BatchTellsAll
    QuietAfterReturn
    CancelSparesOnlyTheLate
PROPERTIES
    CallReturns
CHECK_DEADLOCK FALSE
