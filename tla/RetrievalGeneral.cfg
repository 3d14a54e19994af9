SPECIFICATION MCSpec
CONSTANTS
    p = p
    q = q
    a = a
    b = b
    e = e
    f1 = f1
    f2 = f2
    f3 = f3
    x = x
    n1 = n1
    n2 = n2
    n3 = n3
    n4 = n4
    Procs <- TwoProcs
    Commits <- TwoCommits
    Edits <- OneEdit
    Codeless <- NoCode
    LocalDir = LocalDir
    Files <- ThreeFiles
    OtherPaths <- Spellings
    FileAt <- RealFiles
    PathOrder <- Order
    NoFile = NoFile
    Nodes <- FourNodes
    NodeFile <- Sources
    Links <- TheLinks
    MaxHits = 1
    MaxSeeds = 2
    MaxRanked = 3
    MaxFiles = 2
    MaxTokens = 3
    MaxRelated = 1
    Requests <- AllRequests
    GraphNodes <- NodesOf
    Binary <- OneBinary
    NoResult = NoResult
INVARIANTS
    TypeOK
    GraphIsTrusted
    ContextIsSound
CONSTRAINT OneProcess
CHECK_DEADLOCK FALSE
