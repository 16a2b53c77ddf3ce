SPECIFICATION Spec
CONSTANTS
    Histories <- MCTwoRoots
    Pushers = {p1, p2}
    MaxPushes = 2
    MaxDeltas = 1
    MaxDeclined = 0
    MaxTreeChain = 1
    MaxBlobChain = 1
    InFlight = 1
INVARIANT PassedDeltasAreAcyclic
CHECK_DEADLOCK FALSE
