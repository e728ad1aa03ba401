SPECIFICATION Spec
CONSTANTS
    DataBits = 2
    CoeffBits = 12
    IntMax = 15
    Grain = 4
    Random <- MCRandom
    StartSpan = 3
    NotFinite = NotFinite
    Block = 2
    PMax = 400
    QMax = 500
    UsizeMax = 1000
    MaxFields = 8
    ChunkBytes = 11
    DefaultTileBytes = 40
    SearchLevels = 3
    MaxInverseWork = 4000
    MaxTableAxes = 7
    WordBytes = 3
    BlockBytes = 6
    Files <- MCFiles
    Damages <- MCDamages
    RowRanges <- MCRowRanges
    Selections <- MCSelections
    CellsRead <- MCCellsRead
    WcsHeaders <- MCWcsHeaders
    Probes <- MCProbes
INVARIANTS
    TableReadIsBuilt
    ArraysLieInTheHeap
    SumIsOfWholeUnit
    AsciiReadsAsBuilt
    TabularInverts
