SPECIFICATION FairSpec
CONSTANTS
    N = 2
    MaxStops = 1
PROPERTY ExitNoticed
CHECK_DEADLOCK FALSE
