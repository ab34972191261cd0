SPECIFICATION PartsSpec
CONSTANTS
    Origins = {alice}
    Bodies = {x}
    MaxSeq = 3
    Window = 1
    Upsets = {"evict", "remove", "restart"}
    p1 = p1
    p2 = p2
    Callers = {p1, p2}
    NoSource = NoSource
    Source <- OneHost
    Capacity <- SmallCapacity
    WindowLimit <- SmallWindows
    Period = 2
    Sizes = {1}
    BlockTicks = 1
    MaxTasks = 2
    MaxForgets = 1
    Observers = {o1, o2, o3}
    Addresses = {public, private, circuit}
    PublicAddresses = {public}
    PrivateAddresses = {private}
    CircuitAddresses = {circuit}
    Contributors = 3
    Ttl = 2
    Procs = {proc1, proc2, proc3}
    NoProc = NoProc
    Stale = Stale
    MaxKeys = 3
    MaxCalls = 1
    Mishaps = {"reset", "crash", "timeout", "error"}
INVARIANTS WindowIsSound MemoryBehindDisk BucketIsMeter WindowBound ExternalIsBacked StoreTypeOK OneIdentity ResetIsNew
PROPERTIES JudgementStands CallEnds
CHECK_DEADLOCK FALSE
