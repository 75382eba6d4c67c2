SPECIFICATION Spec
CONSTANTS
    Size = 5
    MaxBytes = 24
INVARIANTS InOrder Accounted
PROPERTY ImplementsFifo
CHECK_DEADLOCK FALSE
