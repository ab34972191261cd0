SPECIFICATION FairSpec
CONSTANTS
    Origins = {"p"}
    Bodies = {"file"}
    MaxSeq = 4
    Window = 8
    Buckets = {1, 2}
    Store <- BusyDay
    Record <- BusyRecords
    Initial = {}
    MaxBuckets = 2
    PageSize = 4
    MaxRequested = 2
    MaxPending = 2
    QueueCap = 2
    SourceLimit = 2
    MaxErrors = 0
PROPERTY BringsEverything
