SPECIFICATION HeapsSpec
CONSTANTS
    HeapStart = 1
    HeapSize = 7
    Header = 1
    Sizes = {1, 2, 3}
    MaxRefs = 2
    Word = {1}
    WholeBlocks = TRUE
INVARIANTS
    TypeOK
    NoOverlap
    LeakCheckExact
    CountsPositive
    SlotsSound
    SlotsLeakCheckExact
    RefusedOnlyWhenFull
PROPERTIES
    ImplementsObjects
    SlotsImplementObjects
