SPECIFICATION FairSpec
CONSTANTS
    Slots = {p1, p2, p3}
    Idle = idle
    InitProc = p1
    TimeSlice = 2
    TickMs = 4
    SleepMs <- MCSleepMs
PROPERTIES WokenRuns
