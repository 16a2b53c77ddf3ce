SPECIFICATION RaceSpec
CONSTANTS
    c1 = c1
    c2 = c2
    c3 = c3
    p1 = p1
    p2 = p2
    p3 = p3
    p4 = p4
    Commits = {c1, c2, c3}
    MaxSeg = 6
    Pushes = {p1, p2, p3, p4}
    PackOf <- RacingPacks
    Gatherers = {g1}
    Readers = {}
    SmallBytes = 2
    MaxOutputBytes = 4
    MaxInputs = 2
INVARIANT ObjectsReadBack
CHECK_DEADLOCK FALSE
