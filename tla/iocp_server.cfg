SPECIFICATION Spec
CONSTANTS
    ColPerRow = 1
    Rows = 3
    SeqMod = 3
    NULL = NULL
    MaxSessions = 2
    MaxConnections = 2
    ReqQueueSize = 1
    Threads = {w1}
    MaxMsgs = 1
    MaxEvents = 2
CHECK_DEADLOCK FALSE
INVARIANTS
    OneUser
    NoStaleEvent
    OnlyMissedStranded
    MessageNotFreedEarly
