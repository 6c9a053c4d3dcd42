SPECIFICATION MCSpec
CONSTANTS
    Dynamic = TRUE
    PageSz = 4
    Segments <- ElfSegments
    MaxSegs = 2
    ArgLens = {5, 30}
    MaxStrings = 2
    StackSize = 480
    RelrWidth = 4
    MaxRelr = 3
    RETRY_TICKS = 2
    MAX_RETRIES = 2
    RX_BUF = 2
    Loops = 3
    LocalBytes = 3
    RemoteBytes = 2
    MaxSegment = 2
    Resets = TRUE
    RetryTicks = 1
    MaxRetries = 1
    EventRing = 4
    Leases <- DhcpLeases
    Remotes <- Peers
    Socks = {1, 2}
    Ports = {1, 2}
    Patience = 1
    MaxDatagrams = 4
    NicRing = 3
    MaxTx = 4
    MaxRx = 4
    Procs = {1, 2}
    Ids = {0, 1}
    Exes = {1}
    Regs <- Variables
    Texts <- Values
    Width = 2
    StrLen = 3
    Caps = {4, 7, 8, 9, 10, 11}
    Pids = {1, 2}
    MaxCount = 3
    Nodes = {1, 2, 3, 4}
    DirNames = {"a", "b"}
    MaxDepth = 3
    PathArgs <- SomePaths
INVARIANTS ExecOK NetOK StreamsOK NicOK CredsOK SysctlOK RelativeOK
PROPERTY PendingEnds
CHECK_DEADLOCK FALSE
