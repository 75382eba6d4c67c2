SPECIFICATION FairSpec
CONSTANTS
    MaxSessions = 1
    MaxConns = 1
    MaxUid = 2
    MaxChunks = 2
    MaxDups = 0
    MayLose = FALSE
    MayReorder = FALSE
    MaySendFail = TRUE
    PeerEnds = {"shutdown", "close", "reset"}
INVARIANTS TypeOK StreamIntact TablesAgree PacketsDecode
PROPERTIES ImplementsPipes ClosePropagates BytesArrive
CHECK_DEADLOCK FALSE
