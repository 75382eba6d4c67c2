SPECIFICATION FairSpec
CONSTANTS
    N = 2
    MaxStops = 2
INVARIANTS WaitFindsChild NoneReapedInLoop
PROPERTIES ResumedTogether 
CHECK_DEADLOCK FALSE
