SPECIFICATION ArmSpec
CONSTANTS
    ByteBits = 6
    Tasks <- TaskFamilies
INVARIANTS ProgramsAgree CodeRoundTrips ConstantsRight PoolsInReach
\* A program, a round trip and a section come to their end.
CHECK_DEADLOCK FALSE
