SPECIFICATION FairSpec
CONSTANTS
    Pushers = {p1, p2}
    MaxPush = 3
    InitSize = 2
    MaxEntries = 0
    RecvMax = 2
    SockCap = 2
CHECK_DEADLOCK FALSE
PROPERTIES
    AllDelivered
