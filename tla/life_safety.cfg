\* Callbacks that make any call; a network that heals.
CONSTANTS
    GeneralTimeout = 3
    Delays = {2, 4}
    CsKinds = {"host", "unix"}
    CallbackApi = {"open", "close", "set_cs", "flush"}
    FlushStates = {"disconnected", "address_resolving", "connecting", "features_request", "authentication", "connected"}
    InstantConnect = TRUE
    SocketFailures = FALSE
    MaxAddresses = 2
    MaxDepth = 3
SPECIFICATION HealingSpec
INVARIANTS
    TypeOK
    SocketAgreesWithState
    SessionIsTold
    NotAbandoned

    
