\* A device with the mGate protocol whose clients stop, start and reset it.
CONSTANTS
    GateSupported = TRUE
    OnlyLeft = TRUE
    EthernetSides = {"left"}
    MaxModules = 1
    Configs = {cfgA, cfgB}
    NoConfig = NoConfig
    Unset = Unset
    ErrorLimits = {TRUE, FALSE}
    Clients = {c1, c2}
    Ops = {"KB_RESET", "KB_CONFIG_STOP", "KB_CONFIG_START", "KB_WAIT_FOR_EVENT"}
    SleepCoversCycle = TRUE
    WaitTimesOut = FALSE
    Nobody = Nobody
SPECIFICATION Spec
SYMMETRY Symmetry
CHECK_DEADLOCK FALSE
PROPERTIES
    LayoutStable
