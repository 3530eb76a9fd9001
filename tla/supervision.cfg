\* The main application exports its outputs, another one sets none; each may
\* have a watchdog, and may fall silent.
CONSTANTS
    Threads = {t1, t2}
    t1 = t1
    t2 = t2
    InstanceOf <- OwnFile
    Calls <- ExportAndWatchdog
    Durations = {1}
    MaxDuration = 1
    Nobody = Nobody
SPECIFICATION FairSpec
PROPERTIES
    SilenceZeroes
    ExportsSupervised
