SPECIFICATION Spec
CONSTANTS
    IntRegs = 4
    RealRegs = 3
    ArgRegs = 2
    MaxSteps = 40
    Programs <- Families
INVARIANTS
    AllocationSucceeds
    OperandsRight
    ArgumentsArrive
\* The code ends, and so does an allocation that fails.
CHECK_DEADLOCK FALSE
