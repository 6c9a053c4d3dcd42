SPECIFICATION MCSpec
CONSTANTS
    Dentries = {1, 2, 3, 4}
    Names = {"a", "b"}
    Devices = {"b"}
    Paths <- MCPaths
    Modes <- MCModes
    MaxInodes = 4
    MaxMounts = 2
    MaxLost = 1
    Callers = {0, 1}
    Tags <- BootTags
    MaxTags = 3
    LoadTags = 1
    MaxModules = 2
    Headers <- TarHeaders
    MaxBlocks = 4
    Procs = {p1, p2}
    InitProc = p1
    FileObjs = {f1, f2}
    Tables = {t1, t2}
    Spaces = {s1, s2, s3}
    None = null
    FirstFd = 1
    MaxFds = 3
    CloneFlags <- MCShareAll
    Syscalls <- MCCountedCalls
    MaxCount = 1
    FileIds = {1}
    Opened = {1, 2}
    AppendSet = {2}
    Bytes = {0, 1}
    Junk = 9
    FirstCap = 2
    MaxBytes = 2
    MaxPos = 5
    Keys = {"kr", "kw"}
    Mutating = {"kw"}
    Results = {"allow", "deny"}
    InodeOf <- MCInodes
    MaxEntries = 2
    Ttl = 2
    Patience = 1
    MaxMsgs = 2
    MaxQueries = 2
    MaxTicks = 3
    Slots = {0, 1}
    IpcKeys = {0, 1}
    MsgTypes = {1, 2}
    MaxMessages = 2
    MsgSizes = {2}
    MaxSerial = 3
    Tasks = {1, 2}
    Pages = {1, 2}
    UserPages = 2
    MaxAttach = 2
    ConCap = 3
    EvCap = 2
    MiceCap = 2
    MaxReads = 2
    MaxSent = 2
    Entries = {"a", "b", "c"}
    RecLen <- MCRecLen
    Counts = {1, 2, 3}
    MaxGot = 5
    ChunkSize = 2
    CheckEvery = 2
    MaxOwed = 4
    MaxFile = 9
    Sizes = {0, 1, 3, 6}
INVARIANTS VfsOK ImportOK CountsOK DecisionsOK IpcOK InputOK ListingOK TransferOK
PROPERTY FileOK
CHECK_DEADLOCK FALSE
