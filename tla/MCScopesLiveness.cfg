SPECIFICATION FairScopes
CONSTANTS
    Blocks = {b1}
    Empty = Empty
    Wild = Wild
    MaxFrames = 3
    MaxLevel = 1
    MaxSlots = 1
    Programs <- Sound
PROPERTIES
    CallersHandleErrors
    UnwindingEnds
