SPECIFICATION Spec
CONSTANTS
    Doc = {d1, d2}
    Run = {r1, r2, r3}
    Tag = {}
    MaxChunks = 2
    ContextEnabled = TRUE
    Faults <- MostFaults
    NoTag = NoTag
    Idle = Idle
SYMMETRY Symmetry
INVARIANTS
    RowsHaveVectors
    HitsResolveHome
    InFlightExact
    DocumentsWhole
PROPERTIES
    Replacement
CHECK_DEADLOCK FALSE
