\* A caller that flushes connected sessions only.
CONSTANTS
    MaxRequests = 5
    ReqLen = 3
    FlushStates = {"connected"}
    Capacity = 15
SPECIFICATION FairSpec
INVARIANTS
    TypeOK
    StreamIsConsecutive
    UncorkedWaitsBehindUnsent
    WatchedWhileUnsent
PROPERTIES
    ImplementsFifo
    FlushedIsSent
