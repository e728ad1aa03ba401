SPECIFICATION FFSpec
CONSTANTS
    First = 1
    End = 5
    UsizeMax = 99
    Workers = {w1, w2}
INVARIANTS
    FFTypeOK
    SkipsOnlyPastAFailure
    ReturnsFirstFailure
PROPERTIES
    ImplementsSerialMap
CHECK_DEADLOCK FALSE
