SPECIFICATION FairSpec
CONSTANTS
    Txns = {t1, t2}
    A = A
    B = B
    Null = Null
    Free = Free
    Invalid <- MCInvalid
    Shallow <- MCShallow
    Refs <- MCRefs
    Branches <- MCBranches
    Oids <- MCOids
    Requests <- MCRequests
INVARIANTS NoLostUpdate BranchesNumbered LocksInNameOrder
PROPERTIES EveryCallReturns Refinement
CHECK_DEADLOCK FALSE
