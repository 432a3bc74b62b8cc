SPECIFICATION Spec
CONSTANTS
    c1 = c1
    c2 = c2
    e1 = e1
    p1 = p1
    p2 = p2
    Client = {c1}
    Session = {c1, c2}
    Endpoint = {e1}
    Port = {p1}
    BannerGrab = TRUE
    MaxClock = 5
    MaxSequence = 4
    None = None
PROPERTY InterruptionDiscardsOnlyItsTransaction
CHECK_DEADLOCK FALSE
