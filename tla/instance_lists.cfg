\* The main application and another one, which writes and resets the driver;
\* files are opened and closed all the time.
CONSTANTS
    Threads = {t1, t2}
    t1 = t1
    t2 = t2
    InstanceOf <- OwnFile
    Calls <- ExportAndReset
    Durations = {0, 1}
    MaxDuration = 1
    Nobody = Nobody
SPECIFICATION Spec
INVARIANTS
    ListedAlive
    ClosedLeavesNoOutputs
PROPERTIES
    ExportUndisturbed
