SPECIFICATION UnixSpec
CONSTANTS
    SOCKET_MAX = 4
    UNIX_PENDING_MAX = 2
    UNIX_RX_BUF = 1
    CopyMax = 2
    Programs = {1, 2}
    Paths = {x}
    NULL = NULL
    Habits = {"drop"}
INVARIANT NoDangling
