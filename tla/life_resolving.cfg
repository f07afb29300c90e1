\* close() while the name is resolved.
CONSTANTS
    GeneralTimeout = 3
    Delays = {2}
    CsKinds = {"host"}
    CallbackApi = {}
    FlushStates = {}
    InstantConnect = FALSE
    SocketFailures = FALSE
    MaxAddresses = 2
    MaxDepth = 3
SPECIFICATION Spec
INVARIANTS
    ClosedStaysClosed
