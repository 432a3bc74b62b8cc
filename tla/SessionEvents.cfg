SPECIFICATION EventsSpec
CONSTANTS
    t1 = t1
    t2 = t2
    i1 = i1
    i2 = i2
    i3 = i3
    WorkItem <- Items3
    Open = {i1}
    Thread <- Threads
    Share <- Shares
    Callback = t1
    MaxRuns = 2
    MaxFaults = 2
    MaxInterrupts = 2
INVARIANTS AnnouncedIsDurable ExitMatchesLog
PROPERTY ConfirmedInOrder
CHECK_DEADLOCK FALSE
