SPECIFICATION FairSpec
CONSTANTS
    Pushes = {p1, p2}
    c1 = c1
    c2 = c2
    c3 = c3
    t1 = t1
    main = main
    v1 = v1
    head = head
    Null = Null
    MaxAttempts = 2
    Refs <- MCRefs
    Branches <- MCBranches
    Invalid <- MCInvalid
    Shallow <- MCShallow
    Oids <- MCOids
    Commits <- MCCommits
    Deps <- MCDeps
    Offers <- MCOffers
    Calls <- MCCalls
INVARIANTS SeqsAreTopological RecordedIsClosed LandedIsServable LandedAsJudged
PROPERTY EveryPushIsAnswered
CHECK_DEADLOCK FALSE
