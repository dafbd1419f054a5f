SPECIFICATION ProtocolsSpec
CONSTANTS
    Parts = {"table", "heap", "buffer", "decoder", "smtp", "http", "transmit", "tls", "matrix", "tunnel"}
    ColPerRow = 2
    Rows = 3
    SeqMod = 2
    Sessions = {s1, s2}
    MaxAbandon = 1
    NULL = NULL
    HeapItems = {1, 2, 3, 4, 5, 6}
    DeadlinesOf <- MCDeadlinesOf
    FirstReserve = 2
    Buffers = {1, 2}
    Pieces <- MCPieces
    MaxText = 4
    MinAlloc = 2
    MaxRead = 2
    PrintRoom = 2
    LineStreams <- MCLineStreams
    Mails <- MCMails
    ChunkMin = 5
    MayBeFull = FALSE
    MaxCalls = 5
    RequestStreams <- MCRequestStreams
    Answers <- MCAnswers
    Layouts <- MCLayouts
    MaxMsgs = 4
    MaxIov = 2
    RecordSizes = {1, 2, 3}
    MaxRecords = 2
    ReceiveSize = 2
    MaxTlsMsgs = 2
    PeerStreams <- MCPeerStreams
    HandshakeLength = 2
    InsockSize = 2
    MaxBufSize = 2
    FullBeforeRecord = FALSE
    TunnelWorkers = {w1, w2}
    MaxTunnelData = 2
SYMMETRY Symmetry
CHECK_DEADLOCK FALSE
INVARIANTS
    FreeListExact
    AssertionsHold
    ExhaustedOnlyWhenFull
    StaleSidIgnored
    CurrentSidResolves
    BufferExact
    LinesExact
    MailExact
    SmtpDialogue
    RequestsExact
    ResponsesFramed
    OutputExact
    TlsExact
    TunnelExact
PROPERTIES
    ImplementsTimers
