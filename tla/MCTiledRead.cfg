SPECIFICATION Spec
CONSTANTS
    DataBits = 2
    CoeffBits = 12
    IntMax = 15
    Grain = 4
    Random <- MCRandom
    StartSpan = 3
    NotFinite = NotFinite
    Block = 2
    PMax = 400
    QMax = 500
    UsizeMax = 1000
    Workers = {w1, w2}
    WaveBytes = 16
    Units <- MCUnits
    Prefix <- MCPrefix
INVARIANTS
    ReadIsCrop
    FirstBadTile
    SetsStayReserved
    BuffersWithinPromise
PROPERTY ReadProgresses
