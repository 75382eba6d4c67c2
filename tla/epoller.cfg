SPECIFICATION FairSpec
CONSTANTS
    Roles = {"client", "server"}
    MaxFd = 2
    MaxConns = 3
    MaxPackets = 5
INVARIANTS ServerNeverBlocked 
 
CHECK_DEADLOCK FALSE
