----------------------------- MODULE MCInstances -----------------------------
(* Instances for TLC: which thread uses which open file, and for what.     *)
EXTENDS Instances

CONSTANTS t1, t2

OwnFile == [t \in Threads |-> t]                        \* each has its own

(* The main application, and another one.                                  *)
ExportAndReset ==
    [t \in Threads |-> {"watchdog", "wait"} \cup
        IF t = t1 THEN {"export", "stopIO"} ELSE {"write", "reset"}]
(* t1 is the main application; either may be supervised by a watchdog.      *)
ExportAndWatchdog ==
    [t \in Threads |-> {"watchdog"} \cup IF t = t1 THEN {"export"} ELSE {}]
=============================================================================
