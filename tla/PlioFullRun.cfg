CONSTANTS
    DataBits = 2
    CoeffBits = 12
    IntMax = 15
    Grain = 4
    Random <- MCRandom
    StartSpan = 3
    NotFinite = NotFinite
    Jobs <- MCJobs
    Samples <- MCSamples
    FloatJobs <- MCFloatJobs
    MaxTiles = 2
SPECIFICATION Spec
INVARIANT
    PlioRoundTrip
CHECK_DEADLOCK FALSE
