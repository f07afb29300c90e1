\* socket() may fail, connection strings may be wrong, no connect() succeeds at once.
CONSTANTS
    GeneralTimeout = 3
    Delays = {2, 4}
    CsKinds = {"host", "unix", "bad"}
    CallbackApi = {"close", "set_cs", "flush"}
    FlushStates = {"disconnected", "address_resolving", "connecting", "features_request", "authentication", "connected"}
    InstantConnect = FALSE
    SocketFailures = TRUE
    MaxAddresses = 2
    MaxDepth = 3
SPECIFICATION FairSpec
PROPERTIES
    HandshakeEnds
