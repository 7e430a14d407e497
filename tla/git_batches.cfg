SPECIFICATION FairSpec
CONSTANTS
    h1 = h1
    h2 = h2
    Batch = {b1, b2}
    Hash = {h1, h2}
    Payloads <- Overlapping
    Existing = {h2}
    ChunkCount = 1
    SizeOf <- Sizes
    Settings <- AllSettings
    Faults <- AllFaults
    NoUsage = NoUsage
    NoAnalysis = NoAnalysis
    Idle = Idle
    None = None
INVARIANTS
    IndexSinceCommit
    CommitsWhole
    VectorsExplained
    CapRespected
PROPERTIES
    Publication
    BatchesEnd
CHECK_DEADLOCK FALSE
