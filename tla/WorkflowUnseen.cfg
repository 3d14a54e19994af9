SPECIFICATION Spec
CONSTANTS
    Tasks <- MCTasks
    Base = "main"
    BranchOf <- MCBranchOf
    Codes <- MCCodes
    Faulty <- MCFaulty
    Fix <- MCFix
    Bare = "bare"
    Original = "original"
    None = None
    MaxCycles = 3
    Meddling = TRUE
    MaxRuns = 3
INVARIANT JudgeSawTheChange
CHECK_DEADLOCK FALSE
