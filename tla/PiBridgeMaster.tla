--------------------------- MODULE PiBridgeMaster ---------------------------
(***************************************************************************)
(* The bridge state machine of piControl: PiBridgeMaster_Run(), which the  *)
(* I/O thread calls once per cycle, and the three operations by which the  *)
(* ioctls control it (Stop, Continue, Reset).                              *)
(*                                                                         *)
(* All four run under piCore_g.lockBridgeState.  The control operations    *)
(* are short and are single actions here.  A cycle of the I/O thread is    *)
(* one action as well, except where it spends milliseconds inside the      *)
(* lock while other threads read or write, WITHOUT that lock, what it      *)
(* works with (the configuration, eRunStatus_s, bEntering_s): there the    *)
(* cycle is split in two, and io says in which part the thread is.         *)
(***************************************************************************)
EXTENDS Naturals

CONSTANTS
    GateSupported,  \* piDev_g.revpi_gate_supported
    OnlyLeft,       \* piDev_g.only_left_pibridge
    EthernetSides,  \* the sides with a switch for PiBridge ethernet modules
    MaxModules,     \* number of I/O modules plugged to the bridge
    Configs,        \* the contents config.rsc may have
    NoConfig,       \* devs, ent, cl and connl are NULL
    Unset,          \* the device table was not compared with any config yet
    ErrorLimits     \* the choices for "i16uRS485ErrorLimit2 > 0" of the user

ASSUME BridgeAssumption ==
    /\ GateSupported \in BOOLEAN
    /\ OnlyLeft \in BOOLEAN
    /\ EthernetSides \subseteq {"right", "left"}
    /\ MaxModules \in Nat
    /\ NoConfig \notin Configs
    /\ Unset \notin Configs \cup {NoConfig}
    /\ ErrorLimits \subseteq BOOLEAN

VARIABLES
    eBridgeState,   \* piCore_g.eBridgeState
    running,        \* PICONTROL_DEV_FLAG_RUNNING
    eRunStatus,     \* eRunStatus_s
    bEntering,      \* bEntering_s
    init_retry,     \* how often the modules may still be initialised anew
    error_cnt,      \* failed configuration dialogues in a row
    devCnt,         \* modules that answered the configuration dialogue
    ethernet,       \* the sides that are in ethernet mode
    missing,        \* PICONTROL_STATUS_MISSING_MODULE
    conf,           \* what piDev_g.devs, ent and cl point to
    tableConf,      \* the config the device table was adjusted to
    bus,            \* the protocol the modules were last switched to
    gate,           \* the packet handler and thread of the mGate protocol
    limit2,         \* the user set an error limit 2
    io,             \* where the I/O thread is in PiBridgeMaster_Run
    i32sRetVal,     \* result of the last firmware command: 0 or not
    executed        \* history: the command executed since the last request

bridgeVars == <<eBridgeState, running, eRunStatus, bEntering, init_retry,
                error_cnt, devCnt, ethernet, missing, conf, tableConf, bus,
                gate, limit2, io, i32sRetVal, executed>>

MAX_CONFIG_RETRIES == 3
MAX_INIT_RETRIES == 1

Sides == {"right", "left"}

(* The states of one side's scan, by side.                                 *)
InitialSlaveDetection ==
    [right |-> "InitialSlaveDetectionRight", left |-> "InitialSlaveDetectionLeft"]
ConfigStart == [right |-> "ConfigRightStart", left |-> "ConfigLeftStart"]
ConfigDialogue == [right |-> "ConfigDialogueRight", left |-> "ConfigDialogueLeft"]
SlaveDetection == [right |-> "SlaveDetectionRight", left |-> "SlaveDetectionLeft"]
AfterSide == [right |-> "InitialSlaveDetectionLeft", left |-> "EndOfConfig"]

TimedStates ==
    {"MasterIsPresentSignalling1", "ConfigRightStart", "SlaveDetectionRight",
     "ConfigLeftStart", "SlaveDetectionLeft"}
ScanStates ==
    TimedStates \cup
    {"Init", "InitialSlaveDetectionRight", "InitialSlaveDetectionLeft",
     "ConfigDialogueRight", "ConfigDialogueLeft"}
FwuStates ==
    {"FWUMode", "ProgramSerialNum", "FWUFlashErase", "FWUFlashWrite", "FWUReset"}
RunStates ==
    ScanStates \cup FwuStates \cup {"EndOfConfig", "Continue", "InitRetry"}

(* Places inside PiBridgeMaster_Run where the thread holds the bridge lock *)
(* for long; "idle" is everywhere outside the lock.                        *)
IoPlaces == {"idle", "adjust", "start", "continue", "gate"} \cup FwuStates

BridgeFlagsOK ==
    /\ running \in BOOLEAN
    /\ bEntering \in BOOLEAN
    /\ missing \in BOOLEAN
    /\ limit2 \in BOOLEAN

BridgeValuesOK ==
    /\ eBridgeState \in {"Init", "Run", "Stop"}
    /\ eRunStatus \in RunStates
    /\ init_retry \in 0..MAX_INIT_RETRIES
    /\ error_cnt \in Nat
    /\ devCnt \in 0..MaxModules
    /\ ethernet \subseteq Sides
    /\ conf \in Configs \cup {NoConfig}
    /\ tableConf \in Configs \cup {NoConfig, Unset}
    /\ bus \in {"Gate", "Data"}
    /\ gate \in {"Down", "Up", "Broken"}
    /\ io \in IoPlaces
    /\ i32sRetVal \in {"ok", "failed"}
    /\ executed \in FwuStates \cup {"none", "twice"}

BridgeTypeOK == BridgeFlagsOK /\ BridgeValuesOK

-----------------------------------------------------------------------------
(* The mGate protocol handler is started and stopped with the bridge.  Its *)
(* functions do not look whether they were called before: starting twice   *)
(* adds the same packet_type again, stopping twice stops a dead thread.    *)
GateInit ==
    gate' = CASE ~GateSupported -> gate
              [] GateSupported /\ gate = "Down" -> "Up"
              [] GateSupported /\ gate # "Down" -> "Broken"
GateFini ==
    gate' = CASE ~GateSupported -> gate
              [] GateSupported /\ gate = "Up" -> "Down"
              [] GateSupported /\ gate # "Up" -> "Broken"

(* lockBridgeState: only the I/O thread keeps it over several actions.     *)
BridgeLockFree == io = "idle"

NextState(status) ==
    /\ eRunStatus' = status
    /\ bEntering' = TRUE

(* RevPiDevice_setStatus(0xff, 0); RevPiDevice_init()                      *)
ClearDevices ==
    /\ missing' = FALSE
    /\ devCnt' = 0
    /\ tableConf' = Unset

(* Mutants, each in front of the definition it takes the place of.         *)
(* Mutant of Stop: the mGate handler is left alone.                        *)
StopKeepsGate ==
    /\ BridgeLockFree
    /\ eBridgeState' = "Stop"
    /\ running' = FALSE
    /\ UNCHANGED <<eRunStatus, bEntering, init_retry, error_cnt, devCnt, ethernet,
                   missing, conf, tableConf, bus, gate, limit2, io, i32sRetVal, executed>>

Stop ==
    /\ BridgeLockFree
    /\ GateFini
    /\ eBridgeState' = "Stop"
    /\ running' = FALSE
    /\ UNCHANGED <<eRunStatus, bEntering, init_retry, error_cnt, devCnt, ethernet,
                   missing, conf, tableConf, bus, limit2, io, i32sRetVal, executed>>

Continue ==
    /\ BridgeLockFree
    /\ GateInit
    /\ eBridgeState' = "Run"
    /\ running' = TRUE
    /\ eRunStatus' = "Continue"
    /\ bEntering' = FALSE
    /\ UNCHANGED <<init_retry, error_cnt, devCnt, ethernet, missing, conf, tableConf,
                   bus, limit2, io, i32sRetVal, executed>>

(* Mutant of Reset: clear_bit() is forgotten.                              *)
ResetKeepsRunning ==
    /\ BridgeLockFree
    /\ eBridgeState' = "Init"
    /\ NextState("Init")
    /\ init_retry' = MAX_INIT_RETRIES
    /\ ClearDevices
    /\ UNCHANGED <<running, error_cnt, ethernet, conf, bus, gate, limit2, io, i32sRetVal,
                   executed>>

Reset ==
    /\ BridgeLockFree
    /\ eBridgeState' = "Init"
    /\ running' = FALSE
    /\ NextState("Init")
    /\ init_retry' = MAX_INIT_RETRIES
    /\ ClearDevices
    /\ UNCHANGED <<error_cnt, ethernet, conf, bus, gate, limit2, io, i32sRetVal, executed>>

-----------------------------------------------------------------------------
(* One cycle of the I/O thread, eBridgeState # piBridgeStop.               *)
Cycle(status) ==
    /\ io = "idle"
    /\ eBridgeState # "Stop"
    /\ eRunStatus = status

(* What no scanning state touches.                                         *)
ScanUnchanged ==
    UNCHANGED <<eBridgeState, running, init_retry, missing, conf, tableConf, bus,
                gate, limit2, io, i32sRetVal, executed>>

RunInit ==
    /\ Cycle("Init")
    /\ ethernet' \in SUBSET EthernetSides
    /\ NextState("MasterIsPresentSignalling1")
    /\ UNCHANGED <<error_cnt, devCnt>>
    /\ ScanUnchanged

(* On entry the state's timer is started; it cannot have expired yet.      *)
RunStartTimer ==
    /\ \E status \in TimedStates : Cycle(status)
    /\ bEntering
    /\ bEntering' = FALSE
    /\ UNCHANGED <<eRunStatus, error_cnt, devCnt, ethernet>>
    /\ ScanUnchanged

RunPresentSignallingDone ==
    /\ Cycle("MasterIsPresentSignalling1")
    /\ ~bEntering
    /\ NextState(InitialSlaveDetection[IF OnlyLeft THEN "left" ELSE "right"])
    /\ UNCHANGED <<error_cnt, devCnt, ethernet>>
    /\ ScanUnchanged

(* The sniff line of a side is high while a module there waits for its     *)
(* configuration; there are never more than the plugged modules.           *)
SniffHigh == devCnt < MaxModules

RunInitialSlaveDetection(side) ==
    /\ Cycle(InitialSlaveDetection[side])
    /\ \/ /\ side \notin ethernet
          /\ SniffHigh
          /\ NextState(ConfigStart[side])
       \/ NextState(AfterSide[side])
    /\ UNCHANGED <<error_cnt, devCnt, ethernet>>
    /\ ScanUnchanged

RunConfigStartDone(side) ==
    /\ Cycle(ConfigStart[side])
    /\ ~bEntering
    /\ NextState(ConfigDialogue[side])
    /\ UNCHANGED <<error_cnt, devCnt, ethernet>>
    /\ ScanUnchanged

(* RevPiDevice_writeNextConfigurationRight/Left: the selected module gets  *)
(* its address and enters the table, or the dialogue fails.                *)
RunConfigDialogue(side) ==
    LET errors == IF bEntering THEN 0 ELSE error_cnt
    IN  /\ Cycle(ConfigDialogue[side])
        /\ \/ /\ devCnt < MaxModules
              /\ devCnt' = devCnt + 1
              /\ error_cnt' = errors
              /\ NextState(SlaveDetection[side])
           \/ /\ error_cnt' = errors + 1
              /\ error_cnt' > MAX_CONFIG_RETRIES
              /\ NextState(AfterSide[side])
              /\ UNCHANGED devCnt
           \/ /\ error_cnt' = errors + 1
              /\ error_cnt' <= MAX_CONFIG_RETRIES
              /\ bEntering' = FALSE
              /\ UNCHANGED <<eRunStatus, devCnt>>
        /\ UNCHANGED ethernet
        /\ ScanUnchanged

RunSlaveDetection(side) ==
    /\ Cycle(SlaveDetection[side])
    /\ ~bEntering
    /\ \/ SniffHigh /\ NextState(ConfigDialogue[side])
       \/ NextState(AfterSide[side])
    /\ UNCHANGED <<error_cnt, devCnt, ethernet>>
    /\ ScanUnchanged

-----------------------------------------------------------------------------
(* EndOfConfig.  RevPiDevice_run() exchanges the process data with every   *)
(* active module.                                                          *)
ExchangeFails ==
    /\ bEntering' = FALSE
    /\ \/ UNCHANGED <<eBridgeState, running, gate>>
       \/ /\ limit2
          /\ GateFini
          /\ eBridgeState' = "Stop"
          /\ running' = FALSE
    /\ UNCHANGED <<eRunStatus, init_retry>>

(* Mutants of InitAgain: without a limit, and without counting.            *)
InitAgainUnlimited ==
    /\ eBridgeState = "Init"
    /\ eBridgeState' = "Init"
    /\ running' = FALSE
    /\ init_retry' = init_retry - 1
    /\ NextState("InitRetry")
    /\ UNCHANGED gate
InitAgainUncounted ==
    /\ eBridgeState = "Init"
    /\ init_retry > 0
    /\ eBridgeState' = "Init"
    /\ running' = FALSE
    /\ NextState("InitRetry")
    /\ UNCHANGED <<init_retry, gate>>

InitAgain ==
    /\ eBridgeState = "Init"
    /\ init_retry > 0       \* and a sniff line is high or missing
    /\ eBridgeState' = "Init"
    /\ running' = FALSE
    /\ init_retry' = init_retry - 1
    /\ NextState("InitRetry")
    /\ UNCHANGED gate

(* Mutant of SetRunning: a missing module is no reason to try again.       *)
SetRunningAnyway ==
    /\ eBridgeState = "Init"
    /\ GateInit
    /\ eBridgeState' = "Run"
    /\ running' = TRUE
    /\ bEntering' = FALSE
    /\ UNCHANGED <<eRunStatus, init_retry>>

SetRunning ==
    /\ eBridgeState = "Init"
    /\ ~(init_retry > 0 /\ missing)
    /\ GateInit
    /\ eBridgeState' = "Run"
    /\ running' = TRUE
    /\ bEntering' = FALSE
    /\ UNCHANGED <<eRunStatus, init_retry>>

KeepRunning ==
    /\ eBridgeState = "Run"
    /\ bEntering' = FALSE
    /\ UNCHANGED <<eBridgeState, running, gate, eRunStatus, init_retry>>

ExchangeSucceeds == InitAgain \/ SetRunning \/ KeepRunning

(* While the bridge runs, the outputs of the process image, the error      *)
(* limits among them, are copied at the end of the cycle (if I/O is not    *)
(* stopped).                                                               *)
CopyImage ==
    \/ UNCHANGED limit2
    \/ eBridgeState' = "Run" /\ limit2' \in ErrorLimits

ExchangeUnchanged ==
    UNCHANGED <<error_cnt, devCnt, ethernet, conf, i32sRetVal, executed>>

(* The first cycle of EndOfConfig compares the found modules with the      *)
(* configuration, if there is one when it begins: it then reads it without *)
(* holding lockIoctl ...                                                   *)
RunAdjust ==
    /\ Cycle("EndOfConfig")
    /\ bEntering
    /\ \/ conf # NoConfig /\ io' = "adjust" /\ UNCHANGED tableConf
       \/ conf = NoConfig /\ io' = "start" /\ tableConf' = NoConfig
    /\ UNCHANGED <<eBridgeState, running, eRunStatus, bEntering, init_retry, missing, bus,
                   gate, limit2>>
    /\ ExchangeUnchanged

(* ... and takes its offsets and default values (of one that was freed     *)
(* meanwhile the model takes nothing) ...                                  *)
RunAdjustDone ==
    /\ io = "adjust"
    /\ tableConf' = conf
    /\ missing' \in IF conf = NoConfig THEN {missing} ELSE BOOLEAN
    /\ io' = "start"
    /\ UNCHANGED <<eBridgeState, running, eRunStatus, bEntering, init_retry, bus, gate,
                   limit2>>
    /\ ExchangeUnchanged

(* ... starts the data exchange, configures the modules and exchanges for  *)
(* the first time.                                                         *)
RunStartExchange ==
    /\ io = "start"
    /\ bus' = "Data"
    /\ ExchangeFails \/ ExchangeSucceeds
    /\ CopyImage
    /\ io' = "idle"
    /\ UNCHANGED <<missing, tableConf>>
    /\ ExchangeUnchanged

RunExchange ==
    /\ Cycle("EndOfConfig")
    /\ ~bEntering
    /\ ExchangeSucceeds
    /\ CopyImage
    /\ UNCHANGED <<missing, tableConf, bus, io>>
    /\ ExchangeUnchanged

RunExchangeError ==
    /\ Cycle("EndOfConfig")
    /\ ~bEntering
    /\ ExchangeFails
    /\ CopyImage
    /\ UNCHANGED <<missing, tableConf, bus, io>>
    /\ ExchangeUnchanged

(* After PiBridgeMaster_Continue(): no scan, the modules found before are  *)
(* switched to data exchange and configured again.                         *)
RunContinue ==
    /\ Cycle("Continue")
    /\ io' = "continue"
    /\ UNCHANGED <<eBridgeState, running, eRunStatus, bEntering, init_retry, missing,
                   tableConf, bus, gate, limit2>>
    /\ ExchangeUnchanged

RunContinued ==
    /\ io = "continue"
    /\ bus' = "Data"
    /\ eRunStatus' = "EndOfConfig"
    /\ bEntering' = FALSE
    /\ io' = "idle"
    /\ CopyImage
    /\ UNCHANGED <<eBridgeState, running, init_retry, missing, tableConf, gate>>
    /\ ExchangeUnchanged

(* Mutant of RunInitRetry: it returns to the exchange without a scan.      *)
RunInitRetryUnscanned ==
    /\ Cycle("InitRetry")
    /\ eBridgeState' = "Init"
    /\ running' = FALSE
    /\ eRunStatus' = "EndOfConfig"
    /\ bEntering' = FALSE
    /\ ClearDevices
    /\ UNCHANGED <<init_retry, error_cnt, ethernet, conf, bus, gate, limit2, io,
                   i32sRetVal, executed>>

(* The time-out of the modules is awaited, then the scan starts anew.      *)
RunInitRetry ==
    /\ Cycle("InitRetry")
    /\ \/ /\ eBridgeState' = "Init"
          /\ running' = FALSE
          /\ NextState("Init")
          /\ ClearDevices
       \/ /\ bEntering
          /\ bEntering' = FALSE
          /\ UNCHANGED <<eBridgeState, running, eRunStatus, missing, devCnt, tableConf>>
    /\ UNCHANGED <<init_retry, error_cnt, ethernet, conf, bus, gate, limit2, io,
                   i32sRetVal, executed>>

-----------------------------------------------------------------------------
(* One cycle of the I/O thread, eBridgeState = piBridgeStop.               *)
StopCycle ==
    /\ io = "idle"
    /\ eBridgeState = "Stop"

StopUnchanged ==
    UNCHANGED <<eBridgeState, running, init_retry, error_cnt, devCnt, ethernet, missing,
                conf, tableConf, gate, limit2>>

StopDataExchange ==
    /\ StopCycle
    /\ eRunStatus = "EndOfConfig"
    /\ io' = "gate"
    /\ UNCHANGED <<eRunStatus, bEntering, bus, i32sRetVal, executed>>
    /\ StopUnchanged

(* piIoComm_gotoGateProtocol() returned; eRunStatus_s is overwritten       *)
(* whatever it holds by now.                                               *)
StoppedDataExchange ==
    /\ io = "gate"
    /\ bus' = "Gate"
    /\ eRunStatus' = "Init"
    /\ io' = "idle"
    /\ UNCHANGED <<bEntering, i32sRetVal, executed>>
    /\ StopUnchanged

StartCommand ==
    /\ StopCycle
    /\ eRunStatus \in FwuStates
    /\ bEntering
    /\ io' = eRunStatus
    /\ executed' = IF executed = "none" THEN eRunStatus ELSE "twice"
    /\ UNCHANGED <<eRunStatus, bEntering, bus, i32sRetVal>>
    /\ StopUnchanged

(* Mutant of FinishCommand: bEntering_s is not cleared.                    *)
FinishCommandSilently ==
    /\ io \in FwuStates
    /\ i32sRetVal' \in {"ok", "failed"}
    /\ io' = "idle"
    /\ UNCHANGED <<eRunStatus, bEntering, bus, executed>>
    /\ StopUnchanged

FinishCommand ==
    /\ io \in FwuStates
    /\ i32sRetVal' \in {"ok", "failed"}
    /\ bEntering' = FALSE
    /\ io' = "idle"
    /\ UNCHANGED <<eRunStatus, bus, executed>>
    /\ StopUnchanged

-----------------------------------------------------------------------------
Scan ==
    \/ RunInit
    \/ RunStartTimer
    \/ RunPresentSignallingDone
    \/ \E side \in Sides :
          \/ RunInitialSlaveDetection(side)
          \/ RunConfigStartDone(side)
          \/ RunConfigDialogue(side)
          \/ RunSlaveDetection(side)

(* What the I/O thread does by itself, and what only clients make it do.   *)
OwnStep ==
    \/ Scan
    \/ RunAdjust
    \/ RunAdjustDone
    \/ RunStartExchange
    \/ RunExchange
    \/ RunExchangeError
    \/ RunInitRetry
    \/ StopDataExchange
    \/ StoppedDataExchange
OrderedStep ==
    \/ RunContinue
    \/ RunContinued
    \/ StartCommand
    \/ FinishCommand

IoThread == OwnStep \/ OrderedStep

(* piIoThread() has called PiBridgeMaster_Reset(); the configuration was   *)
(* read, or could not be read, when the driver was loaded.                 *)
BridgeInit ==
    /\ eBridgeState = "Init"
    /\ running = FALSE
    /\ eRunStatus = "Init"
    /\ bEntering = TRUE
    /\ init_retry = MAX_INIT_RETRIES
    /\ error_cnt = 0
    /\ devCnt = 0
    /\ ethernet = {}
    /\ missing = FALSE
    /\ conf \in Configs \cup {NoConfig}
    /\ tableConf = Unset
    /\ bus = "Gate"
    /\ gate = "Down"
    /\ limit2 = FALSE
    /\ io = "idle"
    /\ i32sRetVal = "ok"
    /\ executed = "none"

-----------------------------------------------------------------------------
(* Properties                                                              *)

(* The bridge runs only with modules that were compared with the           *)
(* configuration since the last reset: nobody skips the initialisation     *)
(* before it was done once.                                                *)
RunsAdjusted == running => tableConf # Unset

(* The bridge runs without a module that is configured only after the scan *)
(* was repeated once.                                                      *)
RetriedBeforeMissing == running /\ missing => init_retry = 0

=============================================================================
