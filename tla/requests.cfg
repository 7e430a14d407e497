SPECIFICATION RequestsSpec
CONSTANTS
    e1 = e1
    e2 = e2
    MaxRequests = 2
    Kinds = {"document", "git", "answer", "chat", "usage"}
    MaxPool = 2
    Workers = 2
    MaxCommits = 2
    Export = {e1, e2}
    Size <- Sizes
    Hole = Hole
    None = None
INVARIANTS
    RerunRepairs
    CrowdedWaits
PROPERTIES
    EverythingEnds
CHECK_DEADLOCK FALSE
