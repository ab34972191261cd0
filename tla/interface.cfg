SPECIFICATION InterfaceSpec
CONSTANTS
    Files = {f}
    NoFile = NoFile
    PageSize = 1
    CommandCap = 1
    EventCap = 1
    MaxClicks = 3
    MaxRows = 2
INVARIANTS ScannerInv ToldInStep RemovedIsGone
PROPERTIES EmptyMeansClean ScanEnds
