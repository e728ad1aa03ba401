SPECIFICATION Spec
CONSTANTS
    KeyTexts = {"A", "B"}
    HierTexts = {}
    CommTexts = {"", "CONTINUE"}
    MaxRecords = 3
    MaxSource = 0
INVARIANTS
    RoundTripPreservesModel
CHECK_DEADLOCK FALSE
