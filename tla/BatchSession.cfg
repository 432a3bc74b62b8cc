SPECIFICATION FairSpec
CONSTANTS
    s1 = s1
    e1 = e1
    e2 = e2
    e3 = e3
    p1 = p1
    p2 = p2
    Session = {s1}
    Endpoint = {e1, e2, e3}
    Port = {p1}
    BannerGrab = TRUE
    MaxClock = 0
    TargetWorkers = 2
    MaxDisturbances = 2
    MaxSequence = 30
    None = None
INVARIANTS
    FailureIsIsolated
    OutcomeIsDurable
PROPERTIES
    ImplementsLedger
    SessionCompletes
CHECK_DEADLOCK FALSE
