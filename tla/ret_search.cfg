SPECIFICATION Spec
CONSTANTS
    Chunk = {1, 2, 3, 4}
    VectorRankings <- MCVectorRankings
    KeywordRankings <- MCKeywordRankings
    Answers <- MCAnswers
    Settings <- MCSettings
    Candidates = 3
    FinalTopK = 2
    OverfetchFactor = 1
    MaxFactor = 4
    MaxRefetch = 1
    RrfK = 60
INVARIANTS
    OnlyAllowed
    ShortMeansExhausted
    BothRankingsRespected
    EvalTellsVerdict
CHECK_DEADLOCK FALSE
