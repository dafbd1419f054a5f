SPECIFICATION Spec
CONSTANTS
    ColPerRow = 1
    Rows = 3
    SeqMod = 3
    NULL = NULL
    MaxSessions = 2
    MaxConnections = 2
    ReqQueueSize = 4
    Threads = {w1, w2}
    MaxMsgs = 0
    MaxCloses = 1
    PeerUnits = 0
    ReqLen = 1
    Backpressure = FALSE
    CloseWhileStarting = TRUE
SYMMETRY Symmetry
CHECK_DEADLOCK FALSE
INVARIANTS
    CloseNotForgotten
