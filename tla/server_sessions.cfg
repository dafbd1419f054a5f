SPECIFICATION Spec
CONSTANTS
    ColPerRow = 1
    Rows = 3
    SeqMod = 3
    NULL = NULL
    MaxSessions = 2
    MaxConnections = 2
    ReqQueueSize = 1
    Threads = {w1}
    MaxMsgs = 1
    MaxCloses = 1
    PeerUnits = 0
    ReqLen = 1
    Backpressure = TRUE
    CloseWhileStarting = FALSE
CHECK_DEADLOCK FALSE
INVARIANTS
    MessageAccounting
    NoDanglingSession
