SPECIFICATION FairSpec
CONSTANTS
    q = q
    a1 = a1
    a2 = a2
    a3 = a3
    NoTask = NoTask
    Tasks <- ThreeActive
    Passive <- Queries
    MayRaise <- Failing
    MaxConsumers = 3
    Stops = {s1, s2}
INVARIANTS
    TypeOK
    MutualExclusion
    Conservation
    OneConsumer
    NothingDropped
    OrderlyShutdown
PROPERTIES
    ImplementsTaskService
    QueueIsServed
    StopEnds
CHECK_DEADLOCK FALSE
