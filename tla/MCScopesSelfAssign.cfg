SPECIFICATION ScopesSpec
CONSTANTS
    Blocks = {b1}
    Empty = Empty
    Wild = Wild
    MaxFrames = 1
    MaxLevel = 1
    MaxSlots = 2
    Programs <- SelfAssigning
INVARIANT NoAssertion
\* A program at the bounds has no next statement.
CHECK_DEADLOCK FALSE
