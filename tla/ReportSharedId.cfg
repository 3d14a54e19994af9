SPECIFICATION Spec
CONSTANTS
    d1 = d1
    d2 = d2
    d3 = d3
    d4 = d4
    d5 = d5
    d6 = d6
    x = x
    q = q
    None = None
    Torn = Torn
    Definitions <- SixDefinitions
    Foreign <- OneForeign
    Queries <- OneQuery
    File <- Files
    Name <- Called
    Position <- Places
    Kind <- Kinds
    TestFiles <- Tests
    IgnoreCallbacks = FALSE
    IdRank <- Ranks
    CodeScore <- Code
    DescScore <- Desc
    CodeWeight = 7
    DescWeight = 3
    TopN = 3
    SearchTop = 2
    Threshold = 80
    ClusterThreshold = 90
    BinHigh = 95
    BinMid = 90
    BinLow = 80
    Sources <- SomeSources
    Flaky <- OneFlaky
    MaxReports = 4
    MaxClock = 3
INVARIANT VectorOfItsSource
CONSTRAINT Focus
CHECK_DEADLOCK FALSE
