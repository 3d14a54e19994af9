SPECIFICATION Spec
CONSTANTS
    Tasks <- MCTasks
    Base = "main"
    BranchOf <- MCBranchOf
    Codes <- MCCodes
    Faulty <- MCFaulty
    Fix <- MCFix
    Bare = "bare"
    Original = "original"
    None = None
    MaxCycles = 3
    Meddling = TRUE
    MaxRuns = 3
INVARIANTS TypeOK CommitsLandOnTaskBranch CommitsAreValidated DirtyMeansInterrupted FeedbackIsCurrent
PROPERTY RunEnds
CHECK_DEADLOCK FALSE
