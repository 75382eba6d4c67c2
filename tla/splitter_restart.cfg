SPECIFICATION Spec
CONSTANTS
    MaxSessions = 2
    MaxConns = 2
    MaxUid = 2
    MaxChunks = 1
    MaxDups = 0
    MayLose = FALSE
    MayReorder = FALSE
    MaySendFail = TRUE
    PeerEnds = {"shutdown"}
INVARIANTS UpstreamIsolated AllWatched
CHECK_DEADLOCK FALSE
