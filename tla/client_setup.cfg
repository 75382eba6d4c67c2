SPECIFICATION FairSpec
CONSTANTS
    Me = me
    Clients = {me, other}
    MaxOctet = 4
    Occupied = {{}, {2}}
    Users = {"root", "user"}
    MaxAttempts = 3
    MaxFaults = 1
    MaxSignals = 1
INVARIANTS TypeOK NothingLeft  NeverRoot AddressesDistinct
PROPERTIES CommandStarts ClientEnds
CHECK_DEADLOCK FALSE
