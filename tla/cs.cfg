\* Every string of up to four tokens, behind a few heads.
CONSTANTS
    MaxLen = 4
    Texts <- MCTexts
    Env <- MCEnv
    Numerals <- MCNumerals
SPECIFICATION FairSpec
CHECK_DEADLOCK FALSE
INVARIANTS
    ParsedAsMeant
PROPERTIES
    ParseEnds
