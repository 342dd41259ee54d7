SPECIFICATION StringsSpec
CONSTANTS
    Missing = Missing
    Word = Word
    Vars = {a, b}
    Literals <- MCLiterals
    MaxLen = 3
    Ptrs = {p, q, r}
    MaxTemps = 1
    Granule = 2
    HaveAlloc = FALSE
    KeepSlices = TRUE
    SliceFirst = FALSE
    BothEmpty = FALSE
SYMMETRY Interchangeable
INVARIANTS
    ValueSemantics
    CountsMatchReferences
    MemorySafe
    SharesCounted
    SameString
    ElementsReached
\* A call of a function is made once; a fault ends a program.
CHECK_DEADLOCK FALSE
