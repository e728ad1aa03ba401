SPECIFICATION Spec
CONSTANTS
    B = 3
    Files <- MCFiles
    Headers <- MCHeaders
    MaxFile = 15
    MaxFaults = 0
INVARIANTS
    EditKeepsHdus
CHECK_DEADLOCK FALSE
