SPECIFICATION LifecycleSpec
CONSTANTS
    Threads = {t1, t2, t3}
    MaxThreads = 2
    Dispatchers = {c1, c2}
    MaxJobs = 4
    Clients = {c1, c2}
    MaxTasks = 3
    InitCount = 2
    LFThreads = {t1, t2}
    MaxLFEvents = 3
    MaxLoopEvents = 3
    PushTimers = {m1, m2}
    PushFds = {f1, f2}
    PushWorkers = {w1, w2}
    MaxKeys = 2
    Pushers = {p1, p2}
    MaxPush = 3
    InitSize = 2
    MaxEntries = 0
    RecvMax = 2
    SockCap = 8
CHECK_DEADLOCK FALSE
INVARIANTS
    PoolSafe
    LeaderHasNothingToDo
    ArgOutlivesTasks
    TimerHasOneOwner
    NoLostWakeup
PROPERTIES
    DispatchedRuns
    DestructorReturns
    TasksInOrder
    ImplementsChannel
    AllDelivered
    ShutdownStopsLoop
    LFDestructorReturns
    ShutdownEndsLoop
