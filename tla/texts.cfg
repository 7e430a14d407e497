SPECIFICATION TextsSpec
CONSTANTS
    MaxSize = 10
    Overlap = 3
    Lengths = {1, 8, 18}
    DocTypes = {"text", "markdown", "python", "java", "git_diff", "sql"}
    MaxPieces = 4
    BatchSize = 2
    None = None
    Budget = 10
    Tokens = {0, 1, 2, 4, 7, 10, 11}
    MaxTurns = 3
INVARIANTS
    NothingLost
    OffsetsTell
    RowsHaveTheirVectors
    KeepsLongestEnd
CHECK_DEADLOCK FALSE
