SPECIFICATION ProcFairSpec
CONSTANTS
    Slots = {p1, p2, p3}
    InitProc = p1
    Idle = idle
    None = null
    TimeSlice = 1
    TickMs = 4
    SleepMs <- MCSleepMs
    Masks = {}
    Ignorable = {}
    WaitArgs <- MCWaitFew
    PidMax = 5
    Codes = {1}
    Sigs = {}
INVARIANTS ProcOK
PROPERTIES ImplementsLife FairShare WaitReturns
