SPECIFICATION RoutinesSpec
CONSTANTS
    W = 4
    ByteBits = 2
    Scale = 2
    MaxReal = 15
    Quirks = {}
INVARIANTS
    OperatorsAgree QuotientRight SameNumbers MemoryRight
    NumbersRoundTrip ValRight
PROPERTIES RoutinesEnd FullPeriod
\* A division or a conversion is over when it has its result.
CHECK_DEADLOCK FALSE
