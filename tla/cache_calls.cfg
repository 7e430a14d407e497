SPECIFICATION Spec
CONSTANTS
    w1 = w1
    w2 = w2
    n1 = n1
    n2 = n2
    n3 = n3
    q1 = q1
    q2 = q2
    Workspace = {w1, w2}
    Namespace = {n1, n2, n3}
    WorkspaceOf <- TwoWorkspaces
    Query = {q1, q2}
    Similarity <- MCSimilarity
    Threshold = 2
    Ttl = 0
    MaxEntries = 2
    NoKey = NoKey
    Client = {x1}
    Floors = {1, 2}
    MaxStores = 3
    MaxClock = 1
    MaxGen = 1
    SweepThresholds = {1, 2, 3}
    Labellings <- AllLabellings
SYMMETRY Symmetry
INVARIANTS
    RecommendationHolds
    NothingOutlivesInvalidation
PROPERTIES
    LookupCorrect
    EvictsLeastRecent
