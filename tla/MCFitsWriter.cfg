SPECIFICATION Spec
CONSTANTS
    B = 3
    RawHeaders <- MCRawHeaders
    MaxLen = 4
    MaxHdus = 3
    MaxSpare = 1
INVARIANTS
    TypeOK
    UsableFileIsWhole
    ScanFindsCommitted
PROPERTIES
    OverwritesOnlySignatures
    FailedIsFinal
    ImplementsHduLog
CHECK_DEADLOCK FALSE
