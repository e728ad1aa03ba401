SPECIFICATION Spec
CONSTANTS
    KeyTexts = {"A", "B", "HISTORY"}
    HierTexts = {"X"}
    CommTexts = {"", "HISTORY", "CONTINUE"}
    MaxRecords = 3
    MaxSource = 2
INVARIANTS
    TypeOK
    IndexPointsAtFirst
    IndexOfFindsFirst
CHECK_DEADLOCK FALSE
