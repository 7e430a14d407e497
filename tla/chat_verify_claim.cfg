SPECIFICATION Spec
CONSTANTS
    w1 = w1
    n1 = n1
    n2 = n2
    q1 = q1
    q2 = q2
    Workspace = {w1}
    Here = w1
    Namespace = {n1}
    Restricted = {}
    WorkspaceOf <- InHere
    Query = {q1, q2}
    Similarity <- MCSimilarity
    Threshold = 2
    CandidateFloor = 1
    Ttl = 0
    MaxEntries = 2
    Chat = {x1, x2, x3}
    Kinds = {"document"}
    Settings <- VerifyingSettings
    MaxVersions = 2
    MaxGen = 2
    MaxClock = 0
    MaxDay = 1
    NoKey = NoKey
    NoIndex = NoIndex
    NoView = NoView
    NoHit = NoHit
SYMMETRY Symmetry
PROPERTIES
    VerifiedHitsExist
CHECK_DEADLOCK FALSE
