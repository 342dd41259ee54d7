SPECIFICATION ScopesSpec
CONSTANTS
    Blocks = {b1, b2}
    Empty = Empty
    Wild = Wild
    MaxFrames = 2
    MaxLevel = 3
    MaxSlots = 3
    Programs <- SoundOrFaulty
SYMMETRY BlocksAreAlike
INVARIANTS
    AssertionsHold
    OwnersCounted
    StackAsCompiled
    ErrorsStay
    HandlersFollowBlocks
\* A program at the bounds has no next statement.
CHECK_DEADLOCK FALSE
