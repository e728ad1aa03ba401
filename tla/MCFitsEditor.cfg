SPECIFICATION Spec
CONSTANTS
    B = 3
    Files <- MCFiles
    Headers <- MCHeaders
    MaxFile = 15
    MaxFaults = 1
INVARIANTS
    TypeOK
    ListIsScan
    ChecksumStaysValid
    SecondFileIsSplice
    AppendContinuesWhole
PROPERTIES
    OnlyTheHeaderChanges
CHECK_DEADLOCK FALSE
