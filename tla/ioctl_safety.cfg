\* A device without the mGate protocol, two clients that use the ioctls by
\* which it is reset and updated; one module, on either side.
CONSTANTS
    GateSupported = FALSE
    OnlyLeft = FALSE
    EthernetSides = {}
    MaxModules = 1
    Configs = {cfgA, cfgB}
    NoConfig = NoConfig
    Unset = Unset
    ErrorLimits = {TRUE, FALSE}
    Clients = {c1, c2}
    Ops = {"KB_RESET", "KB_INTERN_SET_SERIAL_NUM", "KB_UPDATE_DEVICE_FIRMWARE", "PICONTROL_UPLOAD_FIRMWARE", "KB_WAIT_FOR_EVENT"}
    SleepCoversCycle = TRUE
    WaitTimesOut = FALSE
    Nobody = Nobody
SPECIFICATION Spec
SYMMETRY Symmetry
CHECK_DEADLOCK FALSE
INVARIANTS
    IndInv
    ConfigFresh
    RetriedBeforeMissing
    CommandCompleted
    FirmwareOnQuietBus
    ResetAnnounced
PROPERTIES
    ServiceImplemented
    LayoutStable
