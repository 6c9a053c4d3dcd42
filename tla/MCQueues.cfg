SPECIFICATION MCSpec
CONSTANTS
    Slots = {p1, p2, p3, p4}
    Idle = idle
    InitProc = p1
    TimeSlice = 2
    TickMs = 4
    SleepMs <- MCSleepMs
    Events = {a, b, c}
    Blank = a
    RingSize = 4
    Ports = {{a}, {b, c}, {a, b, c}}
    Items = {a, b}
    Zero = a
    Cap = 5
    MaxCopy = 4
    SOCKET_MAX = 4
    UNIX_PENDING_MAX = 2
    UNIX_RX_BUF = 1
    CopyMax = 2
    Programs = {1}
    Paths = {x}
    NULL = NULL
    Habits = {"exit", "drop"}
SYMMETRY MCSymmetry
INVARIANTS SchedulerOK SocketsOK
PROPERTIES NoOvertaking WorkConserving GapIsFifo ImplementsFifo
