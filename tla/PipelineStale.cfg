SPECIFICATION Spec
CONSTANTS
    f1 = f1
    f2 = f2
    v1 = v1
    v2 = v2
    v3 = v3
    None = None
    Functions <- TwoFunctions
    Versions <- TwoVersions
    Short = {}
    FunctionBatchSize = 1
    EdgeBatchSize = 1
    Interval = 1
    CheckpointEnabled = TRUE
    Flaky = {}
    MayRaise = FALSE
    MaxRuns = 3
SYMMETRY Symmetry
INVARIANTS
    EmbeddingsFollowSource
CHECK_DEADLOCK FALSE
