\* Integers of two and three bits (halves 2 and 4); two values, three reads.
CONSTANTS
    Halves = {2, 4}
    WidestHalf = 4
    MaxItems = 2
    MaxReads = 3
SPECIFICATION Spec
CHECK_DEADLOCK FALSE
INVARIANTS
    NumbersComeThrough
    FieldsLineUp
    EqualsAgreesWithRead
