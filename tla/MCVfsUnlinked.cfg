SPECIFICATION VfsSpec
CONSTANTS
    Dentries = {1, 2, 3, 4}
    Names = {"a", "b"}
    Devices = {"b"}
    Paths <- MCPaths
    Modes <- MCModes
    MaxInodes = 4
    MaxMounts = 2
    MaxLost = 1
    Callers = {0, 1}
    FileIds = {1}
INVARIANT UnlinkedDestroyed
