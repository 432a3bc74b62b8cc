SPECIFICATION Spec
CONSTANTS
    c1 = c1
    c2 = c2
    e1 = e1
    p1 = p1
    p2 = p2
    Client = {c1, c2}
    Session = {c1, c2}
    Endpoint = {e1}
    Port = {p1}
    BannerGrab = TRUE
    MaxClock = 4
    MaxSequence = 4
    None = None
SYMMETRY ClientSymmetry
INVARIANTS
    CurrentIsComplete
    PublisherIsAlone
    ReturnedIsDurable
PROPERTY ImplementsLedger
CHECK_DEADLOCK FALSE
