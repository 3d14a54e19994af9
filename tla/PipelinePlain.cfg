SPECIFICATION Spec
CONSTANTS
    f1 = f1
    f2 = f2
    v1 = v1
    v2 = v2
    v3 = v3
    None = None
    Functions <- TwoFunctions
    Versions <- WithShort
    Short <- OnlyShort
    FunctionBatchSize = 1
    EdgeBatchSize = 1
    Interval = 1
    CheckpointEnabled = FALSE
    Flaky <- OneFunction
    MayRaise = FALSE
    MaxRuns = 3
SYMMETRY Symmetry
INVARIANTS
    StaleIsMarked
CHECK_DEADLOCK FALSE
