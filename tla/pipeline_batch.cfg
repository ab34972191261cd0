SPECIFICATION Spec
CONSTANTS
    self1 = self1 self2 = self2 alice = alice x = x y = y f1 = f1 f2 = f2
    Origins <- MCOrigins
    Bodies = {x, y, f1, f2}
    MaxSeq = 2
    Window = 1
    NoPeer = NoPeer
    NoIdentity = NoIdentity
    Peers = {p1}
    Identities = {self1}
    Files = {}
    RemoteRecords <- ThreeRemote
    MaxMessages = 1
    MaxResponse = 2
    QueueCap = 1
    MaxBatch = 2
    SignCap = 1
    LoadOutcomes <- ReadsFail
    Upsets = {"unblock","upkeep","remove","crash"}
INVARIANTS DiskInv TablesAgree SeenIsBacked
CHECK_DEADLOCK FALSE
