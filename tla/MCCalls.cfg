SPECIFICATION MCSpec
CONSTANTS
    Slots = {p1, p2}
    InitProc = p1
    Idle = idle
    None = null
    TimeSlice = 1
    TickMs = 4
    SleepMs <- MCSleepMs
    Masks = {{15}}
    Ignorable = {15}
    WaitArgs <- MCWaitArgs
    PidMax = 4
    Codes = {0}
    Sigs = {2, 15}
    SOCKET_MAX = 3
    UNIX_PENDING_MAX = 2
    UNIX_RX_BUF = 2
    CopyMax = 2
    Programs = {1, 2}
    Paths = {x}
    NULL = NULL
    Habits = {"exit", "drop", "fault"}
INVARIANT SocketsOK
PROPERTIES DeliveryComplete ImplementsLife EofFinal
