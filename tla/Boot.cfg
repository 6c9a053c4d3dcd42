SPECIFICATION BootSpec
CONSTANTS
    DesktopModes = {"tty", "auto", "xdm"}
    XdmThreshold = 3
    MaxFails = 4
    MaxBoots = 6
INVARIANT XdmSuppressed
CHECK_DEADLOCK FALSE
