SPECIFICATION Spec
CONSTANTS
    Nodes = {1, 2, 3}
    Conns = {c1, c2}
    Routes <- DirectOrRelayed
    NoPrefix = NoPrefix
    NoLink = NoLink
    NoAddress = NoAddress
    MaxPerPrefix = 1
    MaxRelayed = 1
    MaxPerPeer = 2
    MaxDials = 2
    Upsets = {"break", "block", "deny"}
INVARIANTS TableInv NoGhost DeniedIsPending StaysLinked
SYMMETRY ConnSymmetry
CHECK_DEADLOCK FALSE
