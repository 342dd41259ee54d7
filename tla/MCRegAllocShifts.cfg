SPECIFICATION Spec
CONSTANTS
    IntRegs = 4
    RealRegs = 3
    ArgRegs = 2
    MaxSteps = 40
    Programs <- Shifts
INVARIANT OperandsRight
\* The code ends, and so does an allocation that fails.
CHECK_DEADLOCK FALSE
