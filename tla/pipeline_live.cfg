SPECIFICATION FairSpec
CONSTANTS
    self1 = self1 self2 = self2 alice = alice x = x y = y f1 = f1 f2 = f2
    Origins <- MCOrigins
    Bodies = {x, y, f1, f2}
    MaxSeq = 2
    Window = 1
    NoPeer = NoPeer
    NoIdentity = NoIdentity
    Peers = {p1}
    Identities = {self1, self2}
    Files = {f1}
    RemoteRecords <- OneRemote
    MaxMessages = 2
    MaxResponse = 0
    QueueCap = 1
    MaxBatch = 1
    SignCap = 1
    LoadOutcomes <- IdsAreRead
    Upsets = {"reset","refuse","crash","shutdown","evict"}
INVARIANTS VouchedIsDurable StoredIsKnown PendingInFlight
PROPERTIES VerdictIsFinal LedgerSpec PublishedAsSelf MessageAnswered FlagAnswered
CHECK_DEADLOCK FALSE
