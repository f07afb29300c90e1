CONSTANTS
    MaxResponses = 2
    Sizes = {2, 3}
    HeadLen = 2
    GreetingLen = 2
    BusyAcrossReconnect = FALSE
SPECIFICATION Spec
INVARIANTS
    OnlyPartialDropped
