CONSTANTS
    p1 = p1
    p2 = p2
    p3 = p3
    c1 = c1
    c2 = c2
    d1 = d1
    d2 = d2
    Pushes = {p1, p2, p3}
    Plan <- MCPlan
    Days <- MCDays
    ChunkObjects = 2
    Part = 2
    Permits = 1
    MaxCrashes = 1
    NoSession = NoSession
    Calls = {c1, c2}
    Size <- MCSize
    RefsSize <- MCRefsSize
    Deployment <- MCDeployment
    InlineMax = 2
    MaxPackBytes = 4
    PayloadMax = 8
    Nothing = Nothing
    main = main
    topic = topic
    funny = funny
    Names = {main, topic}
    Funny = funny
    DefaultBranch = main
    Pushed <- MCPushed
    Paths <- MCPaths
    MaxMoves = 2
    MaxJudgements = 2
    Histories <- MCHistories
    Pushers = {p1}
    MaxPushes = 3
    MaxDeltas = 2
    MaxDeclined = 1
    MaxTreeChain = 1
    MaxBlobChain = 2
    InFlight = 2
    KindOf <- MCKindOf
    Links <- MCLinks
    Forebears <- MCForebears
    Brings <- MCBrings
    NoBase = NoBase
    MaxAppendAttempts = 3
SPECIFICATION MCSpec
INVARIANTS StagingIsExact RecordedIsStored OutcomeIsTheWorkers StagedIsCollected
INVARIANTS HookDecides ReportIsTrue
INVARIANTS ImagesAreServable ConnectedPushesLand DeltasLeadBack ResolveIsComplete
INVARIANTS NumbersResolve
CHECK_DEADLOCK FALSE
