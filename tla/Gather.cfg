SPECIFICATION Spec
CONSTANTS
    c1 = c1
    c2 = c2
    c3 = c3
    p1 = p1
    p2 = p2
    p3 = p3
    p4 = p4
    Commits = {c1, c2, c3}
    MaxSeg = 5
    Pushes = {p1, p2, p3}
    PackOf <- OncePacks
    Gatherers = {g1, g2}
    Readers = {r1}
    SmallBytes = 3
    MaxOutputBytes = 4
    MaxInputs = 2
SYMMETRY Renamings
INVARIANTS ImagesReadBack ReadersFindTheirBytes
CHECK_DEADLOCK FALSE
