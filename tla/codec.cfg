\* Buffers written by up to five calls; those written by up to four are read.
CONSTANTS
    FixMax = 2
    ShortMax = 3
    Scalars = {0, 1}
    Cards = {1, 3}
    MaxOpen = 3
    Capacity = 24
    Reserve = 24
    Growing = FALSE
    UndoFinalize = FALSE
    TooDeep = FALSE
    MaxMessages = 2
    MaxCalls = 5
    MaxCallsRead = 4
    MaxIndex = 3
    SpanSizes = {2}
    UseCuts = FALSE
SPECIFICATION Spec
CHECK_DEADLOCK FALSE
INVARIANTS
    TypeOK
    FinishedAreWhole
    MessagesAreFramed
    PositionIsRight
    ElementIsRight
    FindIsRight
    SpanIsRight
    MessagesComeThrough
