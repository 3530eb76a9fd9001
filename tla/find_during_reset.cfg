\* KB_FIND_VARIABLE while another client resets the bridge.
CONSTANTS
    GateSupported = FALSE
    OnlyLeft = TRUE
    EthernetSides = {}
    MaxModules = 0
    Configs = {cfgA}
    NoConfig = NoConfig
    Unset = Unset
    ErrorLimits = {FALSE}
    Clients = {c1, c2}
    Ops = {"KB_RESET", "KB_FIND_VARIABLE"}
    SleepCoversCycle = TRUE
    WaitTimesOut = FALSE
    Nobody = Nobody
SPECIFICATION Spec
CHECK_DEADLOCK FALSE
INVARIANTS
    ConfigNotFreedInUse
