SPECIFICATION AnswersFairSpec
CONSTANTS
    Doc = {d1}
    Run = {r1, r2}
    Tag = {}
    MaxChunks = 1
    ContextEnabled = FALSE
    Faults <- CleanFaults
    NoTag = NoTag
    Idle = Idle
    Answer = {a1, a2}
    Confirmation = {c1}
    MaxAnswerChunks = 2
    AnswerFaults = {"embed", "stage", "add", "usage", "commit"}
    None = None
INVARIANTS
    IndexExplained
    IndexSinceCommit
PROPERTIES
    StatusSettles
    AnswersEnd
CHECK_DEADLOCK FALSE
