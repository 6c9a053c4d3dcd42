SPECIFICATION ResSpec
CONSTANTS
    Procs = {p1, p2}
    InitProc = p1
    FileObjs = {f1, f2}
    Tables = {t1, t2}
    Spaces = {s1, s2, s3}
    None = null
    FirstFd = 1
    MaxFds = 3
    CloneFlags <- MCPlain
    Syscalls <- MCAllCalls
    MaxCount = 1
SYMMETRY MCSymmetry
INVARIANTS FileRefs
CHECK_DEADLOCK FALSE
