\* Buffers that have to grow.
CONSTANTS
    MaxRequests = 5
    ReqLen = 1
    FlushStates = {"connected"}
    Capacity = 2
SPECIFICATION Spec
INVARIANTS
    TailFits
