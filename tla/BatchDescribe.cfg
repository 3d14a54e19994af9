SPECIFICATION Spec
CONSTANTS
    N = 3
    Chunks <- OneRequest
    Attempts = 2
    Concurrency = 2
    Saves = TRUE
    Interval = 1
    Flaky <- First
    Broken <- Second
    None = None
    MaxRuns = 2
INVARIANTS TypeOK RequestsBounded UnsavedBounded QuietWhenDone
PROPERTY EveryTaskEnds
CHECK_DEADLOCK FALSE
