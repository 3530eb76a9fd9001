SPECIFICATION Spec
CONSTANTS
    KB_PI_LEN = 13
    WideMask = {}
    Files <- MCFiles
    StandaloneFiles <- MCStandaloneFiles
    Buses <- MCBuses
    Module <- MCModule
    Base = "base"
    BaseTerminable = TRUE
    Virtual = {"soft"}
    DriverMax <- MCDriverMax
    MaxCounters = 1
    MaxDev = 5
    MaxErrors = 1
    MaxRetries = 1
    UseDisturbed = FALSE
    Patterns <- MCPatterns
    Written <- MCWritten
    Background <- MCBackground
INVARIANTS
    TableSound
    BusTerminated
    OwnParameters
PROPERTY StoreImplemented
CHECK_DEADLOCK FALSE
