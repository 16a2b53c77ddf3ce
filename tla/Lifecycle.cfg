SPECIFICATION LiveSpec
CONSTANTS
    Keys = {"k"}
    MaxRepo = 2
    Callers = {c1}
    Pushes = {p1}
    Maintainers = {m1, m2}
    StoreReportsAbsent = FALSE
INVARIANTS RestorableIsWhole ErasedPrefixIsEmpty
PROPERTIES EraseStrandsNothingNamed LapsedIsErased
