SPECIFICATION FairSpec
CONSTANTS
    ColPerRow = 1
    Rows = 2
    SeqMod = 3
    NULL = NULL
    MaxSessions = 1
    MaxConnections = 2
    ReqQueueSize = 4
    Threads = {w1}
    MaxMsgs = 1
    MaxCloses = 0
    PeerUnits = 1
    ReqLen = 1
    Backpressure = TRUE
    CloseWhileStarting = FALSE
CHECK_DEADLOCK FALSE
PROPERTIES
    HangupProcessed
