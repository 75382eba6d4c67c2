SPECIFICATION FairSpec
CONSTANTS
    Conn = {1, 2}
    Silent = {1}
    Ending = {2}
    Uploads = {2}
    Downloads = {1}
    MaxUnits = 2
    ReadLimit = 2
    RcvRoom = 2
    SndRoom = 1
    UdpRoom = 1
    SocketLimits = {1, 2}
INVARIANTS Conserved 
PROPERTY EveryoneServed
CHECK_DEADLOCK FALSE
