SPECIFICATION AcSpec
CONSTANTS
    AcTools = {1, 2}
    Logins = {"a", "b"}
    FirstLogin = "a"
    Uids = {1, 2}
    MaxLines = 3
    MaxRuns = 2
INVARIANT RemovedWhole
CHECK_DEADLOCK FALSE
