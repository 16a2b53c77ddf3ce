SPECIFICATION Spec
CONSTANTS
    a = a
    b = b
    c = c
    w1 = w1
    w2 = w2
    w3 = w3
    Writes = {w1, w2, w3}
    Value <- MCValue
    KeyOf <- MCKeyOf
    Ranges <- MCRanges
    Readers = {r1}
    Compactors = {k1, k2}
    MaxId = 4
    TopTier = 1
    Fanout = 2
    MaxInputs = 3
    MaxInputBytes = 4
    Graduation = 3
    InlineCeiling = 1
SYMMETRY Symmetric
INVARIANT RowsAreStored
PROPERTY Refinement
CHECK_DEADLOCK FALSE
