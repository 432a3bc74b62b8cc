SPECIFICATION Spec
CONSTANTS
    c1 = c1
    c2 = c2
    legacy = legacy
    e1 = e1
    e2 = e2
    p1 = p1
    p2 = p2
    Client = {c1, c2}
    Session <- MCSession
    Endpoint = {e1}
    Port = {p1, p2}
    BannerGrab = TRUE
    MaxClock = 0
    BatchSize = 2
    MaxSequence = 4
    None = None
    LegacySources <- V1Sources
SYMMETRY Symmetry
VIEW WithoutReply
INVARIANTS
    LoadRefusesOnlyOvertaken
    ReadBackFindsSuccessor
    MigratedWorkIsKept
PROPERTIES
    SequenceCountsWork
    ImplementsLedger
CHECK_DEADLOCK FALSE
