SPECIFICATION FairSpec
CONSTANTS
    Size = 3
    MaxBytes = 2
    SendRoom = 1
    PeerEnds = {"shutdown", "close", "reset"}
INVARIANTS RelayedInOrder StillTrueWhenUsed NothingLeftBehind
PROPERTIES RelayEnds BytesRelayed
CHECK_DEADLOCK FALSE
