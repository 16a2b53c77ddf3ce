SPECIFICATION MCSpec
CONSTANTS
    InitialWidth = 1
    Growth = 2
    MaxWidth = 2
    Histories <- MCHistories
    Deepens <- MCDeepens
    Filters <- MCFilters
    MaxFetches = 2
    Requests <- MCRequests
    Foreign <- MCForeign
    OthersMove = 1
    N = 4
    MaxParents = 3
    Budget = 4
    PageBand = 1
    WalkCap = 2
    MaxWalks = 2
    MaxBits = 2
    AllKeys <- MCAllKeys
    AskedPrefixes <- MCPrefixes
    Collation <- MCCollation
    MaxKeyBytes = 3
    RepositoryLimit = 2
    MaxChanges = 2
    Shapes <- MCShapes
    EntryLimits = {1, 3, 4, 20}
    ReadLimits = {1, 2, 9}
    BatchChanges = 2
    CommitLimit = 2
    ChunkBytes = 3
    MaxDeltaChain = 3
    Placements <- MCPlacements
    Gap = 1
    Span = 5
    NoWord = 999
    FirstSeq = 995
    PushShapes <- MCPushShapes
    MaxClusters = 2
    ScanBand = 1
    RelocationGap = 1
    MaxHops = 4
    MaxWrites = 3
    MaxMerges = 2
    Contents <- MCContents
    Images <- MCImages
    Bodies <- MCBodies
    Block = 2
    MaxCandidates = 2
    MaxInsert = 3
    MaxObject = 16
    MaxPackObjects = 4
    MaxSideband = 4
    Digest = 2
    MaxPack = 14
INVARIANTS ReceiversAreWhole OutcomesAreTrue PassedBasesAreSent WalksAgreeWithTheGraph ProofsAreSound
INVARIANTS ListingsAreComplete AnswersAreHonest ReadsAreTrue IndexesReadBack FormatsReadBack PackStreamsAreExact
CHECK_DEADLOCK FALSE
