SPECIFICATION FairSpec
CONSTANTS
    Origins = {"p", "q"}
    Bodies = {"file"}
    MaxSeq = 3
    Window = 2
    Buckets = {1, 2, 3, 4}
    Store <- Days
    Record <- DayRecords
    Initial = {2}
    MaxBuckets = 3
    PageSize = 3
    MaxRequested = 2
    MaxPending = 2
    QueueCap = 2
    SourceLimit = 2
    MaxErrors = 2
INVARIANTS ExchangeInv
PROPERTIES SessionIsComplete Converges
