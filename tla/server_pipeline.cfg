SPECIFICATION Spec
CONSTANTS
    ColPerRow = 1
    Rows = 2
    SeqMod = 3
    NULL = NULL
    MaxSessions = 1
    MaxConnections = 2
    ReqQueueSize = 4
    Threads = {w1, w2}
    MaxMsgs = 2
    MaxCloses = 1
    PeerUnits = 2
    ReqLen = 1
    Backpressure = TRUE
    CloseWhileStarting = FALSE
SYMMETRY Symmetry
CHECK_DEADLOCK FALSE
INVARIANTS
    HandlerExclusive
    NotStranded
    CloseNotForgotten
