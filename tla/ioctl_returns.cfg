\* A device with the mGate protocol, whose bridge may take too long to start.
\* Nobody resets or starts a stopped bridge, and there is no error limit: the
\* handler of the protocol is started and stopped in turns, and every ioctl
\* returns.
CONSTANTS
    GateSupported = TRUE
    OnlyLeft = TRUE
    EthernetSides = {}
    MaxModules = 0
    Configs = {cfgA}
    NoConfig = NoConfig
    Unset = Unset
    ErrorLimits = {FALSE}
    Clients = {c1, c2}
    Ops = {"KB_UPDATE_DEVICE_FIRMWARE", "PICONTROL_UPLOAD_FIRMWARE", "KB_CONFIG_STOP", "KB_FIND_VARIABLE"}
    SleepCoversCycle = TRUE
    WaitTimesOut = TRUE
    Nobody = Nobody
SPECIFICATION FairSpec
CHECK_DEADLOCK FALSE
INVARIANTS
    GateBalanced
PROPERTIES
    IoctlReturns
    StartupCompletes
