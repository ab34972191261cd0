SPECIFICATION Spec
CONSTANTS
    Nodes = {1, 2}
    Conns = {c1, c2}
    Routes <- Direct
    NoPrefix = NoPrefix
    NoLink = NoLink
    NoAddress = NoAddress
    MaxPerPrefix = 2
    MaxRelayed = 1
    MaxPerPeer = 2
    MaxDials = 1
    Upsets = {}
INVARIANT LiveIsTracked
CHECK_DEADLOCK FALSE
