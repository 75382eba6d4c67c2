SPECIFICATION Spec
CONSTANTS
    Roles = {"client"}
    MaxFd = 2
    MaxConns = 2
    MaxPackets = 3
INVARIANT NeverBlocked
CHECK_DEADLOCK FALSE
