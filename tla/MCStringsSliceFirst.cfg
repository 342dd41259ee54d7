SPECIFICATION StringsSpec
CONSTANTS
    Missing = Missing
    Word = Word
    Vars = {a, b}
    Literals <- MCLiterals
    MaxLen = 3
    Ptrs = {p, q, r}
    MaxTemps = 1
    Granule = 2
    HaveAlloc = FALSE
    KeepSlices = TRUE
    SliceFirst = TRUE
    BothEmpty = FALSE
SYMMETRY Interchangeable
INVARIANT ValueSemantics
CHECK_DEADLOCK FALSE
