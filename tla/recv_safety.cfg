\* A caller that is done with its input before the connection is opened again.
CONSTANTS
    MaxResponses = 3
    Sizes = {2, 3}
    HeadLen = 2
    GreetingLen = 2
    BusyAcrossReconnect = FALSE
SPECIFICATION FairSpec
INVARIANTS
    TypeOK
    RestIsPartial
    NothingWithheld
    PassedInOrder
    GreetingIsGenuine
PROPERTIES
    InputIsLent
    ArrivedIsHanded
