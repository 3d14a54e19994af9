SPECIFICATION FairSpec
CONSTANTS
    k = k
    c = c
    NoTask = NoTask
    Tasks <- AllTasks
    CronTasks <- ScheduledRuns
    QueryResources <- QueryOpens
    PipelineResources <- PipelineOpens
INVARIANTS
    TypeOK
    NothingLeftRunning
    ReleasedWhenDone
    SlackTellsTheRun
    NoticeBringsRun
PROPERTIES
    ImplementsTaskService
    AcksHonoured
    ProcessEnds
CHECK_DEADLOCK FALSE
