SPECIFICATION FairSpec
CONSTANTS
    s1 = s1
    e1 = e1
    p1 = p1
    p2 = p2
    p3 = p3
    Session = {s1}
    Endpoint = {e1}
    Port = {p1, p2, p3}
    BannerGrab = TRUE
    MaxClock = 0
    BatchSize = 2
    MaxDisturbances = 3
    MaxSequence = 30
    None = None
INVARIANTS
    DroppedBatchSurfaces
    CancellationKeepsResults
    OutcomeIsDurable
PROPERTIES
    ImplementsLedger
    SessionCompletes
CHECK_DEADLOCK FALSE
