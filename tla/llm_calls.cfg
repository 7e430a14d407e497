SPECIFICATION AnalysesSpec
CONSTANTS
    c1 = c1
    c2 = c2
    Call = {c1, c2}
    Kinds = {"text", "grounding", "structured", "stream"}
    MaxPieces = 2
    None = None
SYMMETRY Symmetric
INVARIANTS
    RecordedOnce
    AnswersAttributed
    MissingIsUrgent
CHECK_DEADLOCK FALSE
