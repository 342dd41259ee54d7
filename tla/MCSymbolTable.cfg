SPECIFICATION Spec
CONSTANTS
    Names = {10, 11}
    Types <- ByteAndWord
    NumBuckets = 2
    MaxLevels = 3
    MaxDepth = 2
    MaxSymbols = 4
INVARIANTS
    TableMatchesScopes
    FrameSound
PROPERTIES
    ImplementsEnvironment
