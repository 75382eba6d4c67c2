SPECIFICATION Spec
CONSTANTS
    MaxSessions = 1
    MaxConns = 2
    MaxUid = 2
    MaxChunks = 1
    MaxDups = 1
    MayLose = TRUE
    MayReorder = TRUE
    MaySendFail = FALSE
    PeerEnds = {"shutdown"}
CONSTRAINT FewPackets
INVARIANTS ServerAssertHolds NoCrossTalk
PROPERTY NeverRedialled
CHECK_DEADLOCK FALSE
