SPECIFICATION FairSpec
CONSTANTS
    Count = 4
    Concurrency = 2
    MaxRetries = 2
INVARIANTS
    WithinConcurrency
PROPERTIES
    ContextsEnd
CHECK_DEADLOCK FALSE
