SPECIFICATION FairSpec
CONSTANTS
    Peers = {p1, p2}
    Buckets = {b1, b2}
    NoBucket = NoBucket
    MaxSessions = 1
    MaxPending = 2
    MaxLate = 1
    MaxPages = 1
    Upsets = {"timeout","disconnect","oversized"}
INVARIANTS SessionInv SessionAdvances PendingIsOwed
PROPERTY SessionEnds
