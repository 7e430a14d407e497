SPECIFICATION Spec
CONSTANTS
    w1 = w1
    n1 = n1
    n2 = n2
    q1 = q1
    q2 = q2
    Workspace = {w1}
    Here = w1
    Namespace = {n1, n2}
    Restricted = {n2}
    WorkspaceOf <- InHere
    Query = {q1}
    Similarity <- MCSimilarity
    Threshold = 2
    CandidateFloor = 1
    Ttl = 0
    MaxEntries = 2
    Chat = {x1, x2}
    Kinds = {"document", "owner_answer"}
    Settings <- FeatureSettings
    MaxVersions = 2
    MaxGen = 2
    MaxClock = 1
    MaxDay = 0
    NoKey = NoKey
    NoIndex = NoIndex
    NoView = NoView
    NoHit = NoHit
SYMMETRY Symmetry
INVARIANTS
    Bm25Current
PROPERTIES
    HitsRevalidated
    RetrievalComplete
CHECK_DEADLOCK FALSE
