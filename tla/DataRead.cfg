SPECIFICATION Spec
CONSTANTS
    Size = 8
    UnitStart = 2
    UnitEnd = 6
    Chunk = 3
    MaxReads = 3
INVARIANTS
    TypeOK
    PositionIsCursor
    ReadsWhatItAsked
    SumIsPrefix
    VerdictIsOfWholeUnit
CHECK_DEADLOCK FALSE
