\* Two tables of one module, two tables of two; one channel each.
CONSTANTS
    Tables <- SmallTables
    c1 = c1
    Channel = {c1}
    Pins = Pins
    off = off
    on = on
    Value = {off, on}
    Off = off
    Default = on
    MaxDevices = 2
    MaxErrorCnt = 2
    ErrorLimit2 = 1
    MaxRestarts = 1
SPECIFICATION FairSpec
INVARIANTS
    StopTakesEffect
    OutputsShown
    ActiveConfigured
PROPERTIES
    StopZeroes
CHECK_DEADLOCK FALSE
