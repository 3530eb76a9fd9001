------------------------ MODULE PiControlIoctl_proofs ------------------------
(***************************************************************************)
(* What TLAPS proves of PiControlIoctl for any number of clients, modules  *)
(* and configurations.                                                     *)
(***************************************************************************)
EXTENDS PiControlIoctl, TLAPS

-----------------------------------------------------------------------------
(* Types                                                                   *)

(* The I/O thread assigns only truth values to the flags.                  *)
LEMMA IoThreadFlags ==
    ASSUME BridgeFlagsOK, IoThread
    PROVE  BridgeFlagsOK'
<1> USE BridgeAssumption DEF BridgeFlagsOK, NextState, ScanUnchanged, ExchangeFails,
        ExchangeSucceeds, InitAgain, SetRunning, KeepRunning, ExchangeUnchanged,
        CopyImage, StopUnchanged
<1>1. CASE Scan
  BY <1>1 DEF Scan, RunInit, RunStartTimer, RunPresentSignallingDone,
     RunInitialSlaveDetection, RunConfigStartDone, RunConfigDialogue, RunSlaveDetection
<1>2. CASE RunAdjust \/ RunAdjustDone \/ RunContinue \/ RunContinued
  BY <1>2 DEF RunAdjust, RunAdjustDone, RunContinue, RunContinued
<1>3. CASE RunStartExchange \/ RunExchange \/ RunExchangeError
  BY <1>3 DEF RunStartExchange, RunExchange, RunExchangeError
<1>4. CASE RunInitRetry
  BY <1>4 DEF RunInitRetry, ClearDevices
<1>5. CASE StopDataExchange \/ StoppedDataExchange \/ StartCommand \/ FinishCommand
  BY <1>5 DEF StopDataExchange, StoppedDataExchange, StartCommand, FinishCommand
<1> QED
  BY <1>1, <1>2, <1>3, <1>4, <1>5 DEF IoThread, OwnStep, OrderedStep

(* It keeps the other types.                                               *)
LEMMA IoThreadValues ==
    ASSUME BridgeValuesOK, IoThread
    PROVE  BridgeValuesOK'
<1> USE BridgeAssumption DEF BridgeValuesOK, NextState, ScanUnchanged, MAX_CONFIG_RETRIES,
        MAX_INIT_RETRIES, RunStates, ScanStates, TimedStates, FwuStates, IoPlaces
<1>1. CASE Scan
  <2>1. CASE RunInit
    BY <2>1 DEF RunInit, Sides
  <2>2. CASE RunStartTimer \/ RunPresentSignallingDone
    BY <2>2 DEF RunStartTimer, RunPresentSignallingDone, InitialSlaveDetection
  <2>3. ASSUME NEW side \in Sides
        PROVE  {ConfigStart[side], ConfigDialogue[side], SlaveDetection[side],
                AfterSide[side]} \subseteq RunStates
    BY DEF Sides, ConfigStart, ConfigDialogue, SlaveDetection, AfterSide
  <2> USE <2>3
  <2> HIDE DEF RunStates, ScanStates, TimedStates, FwuStates, IoPlaces, MAX_INIT_RETRIES
  <2>4. ASSUME NEW side \in Sides, RunInitialSlaveDetection(side)
        PROVE  BridgeValuesOK'
    BY <2>4 DEF RunInitialSlaveDetection
  <2>5. ASSUME NEW side \in Sides, RunConfigStartDone(side)
        PROVE  BridgeValuesOK'
    BY <2>5 DEF RunConfigStartDone
  <2>6. ASSUME NEW side \in Sides, RunConfigDialogue(side)
        PROVE  BridgeValuesOK'
    <3>1. error_cnt' \in Nat
      BY <2>6 DEF RunConfigDialogue
    <3>2. devCnt' \in 0..MaxModules
      BY <2>6 DEF RunConfigDialogue
    <3>3. eRunStatus' \in RunStates
      BY <2>6 DEF RunConfigDialogue
    <3> QED
      BY <2>6, <3>1, <3>2, <3>3 DEF RunConfigDialogue
  <2>7. ASSUME NEW side \in Sides, RunSlaveDetection(side)
        PROVE  BridgeValuesOK'
    BY <2>7 DEF RunSlaveDetection
  <2> QED
    BY <1>1, <2>1, <2>2, <2>4, <2>5, <2>6, <2>7 DEF Scan
<1>2. CASE RunAdjust \/ RunAdjustDone \/ RunContinue \/ RunContinued
  BY <1>2 DEF RunAdjust, RunAdjustDone, RunContinue, RunContinued, ExchangeUnchanged
<1>3. CASE RunStartExchange \/ RunExchange \/ RunExchangeError
  BY <1>3 DEF RunStartExchange, RunExchange, RunExchangeError, ExchangeFails,
     ExchangeSucceeds, InitAgain, SetRunning, KeepRunning, ExchangeUnchanged,
     GateInit, GateFini
<1>4. CASE RunInitRetry
  BY <1>4 DEF RunInitRetry, ClearDevices
<1>5. CASE StopDataExchange \/ StoppedDataExchange \/ StartCommand \/ FinishCommand
  BY <1>5 DEF StopDataExchange, StoppedDataExchange, StartCommand, FinishCommand,
     StopUnchanged
<1> QED
  BY <1>1, <1>2, <1>3, <1>4, <1>5 DEF IoThread, OwnStep, OrderedStep

(* A client inside an ioctl keeps the types of the bridge ...              *)
LEMMA ClientStepFlags ==
    ASSUME BridgeFlagsOK, NEW c \in Clients, ClientStep(c)
    PROVE  BridgeFlagsOK'
<1> USE DEF BridgeFlagsOK, Stop, Continue, Reset, NextState, ClearDevices
<1>1. CASE CallStop(c) \/ CallContinue(c) \/ ConfigStartContinue(c) \/ CallReset(c)
  BY <1>1 DEF CallStop, CallContinue, ConfigStartContinue, CallReset
<1>2. CASE FwuRequest(c) \/ FwuArm(c) \/ FwuReturn(c) \/ FreeConfig(c) \/ ParseConfig(c)
  BY <1>2 DEF FwuRequest, FwuArm, FwuReturn, FreeConfig, ParseConfig
<1>3. CASE UNCHANGED bridgeVars
  BY <1>3 DEF bridgeVars
<1> QED
  BY <1>1, <1>2, <1>3 DEF ClientStep, TakeLockIoctl, ReleaseLockIoctl, CheckRunning,
     Sleep, FwuCheck, FwuPoll, Upload, Started, StartTimesOut, ConfigStartCheck,
     FindVariable, FoundVariable, TakeEvent, WaitInterrupted

(* (the command it hands over is a state of the bridge)                    *)
LEMMA ClientStepValues ==
    ASSUME BridgeValuesOK, PlaceInv, NEW c \in Clients, ClientStep(c)
    PROVE  BridgeValuesOK'
<1> USE BridgeAssumption DEF BridgeValuesOK, RunStates, ScanStates
<1>1. CASE CallStop(c) \/ CallContinue(c) \/ ConfigStartContinue(c)
  BY <1>1 DEF CallStop, CallContinue, ConfigStartContinue, Stop, Continue, GateInit,
     GateFini
<1>2. CASE CallReset(c)
  BY <1>2 DEF CallReset, Reset, NextState, ClearDevices, MAX_INIT_RETRIES
<1>3. CASE FwuRequest(c)
  BY <1>3 DEF FwuRequest, PlaceInv, FwuPlaces
<1>4. CASE FwuArm(c) \/ FwuReturn(c) \/ FreeConfig(c) \/ ParseConfig(c)
  BY <1>4 DEF FwuArm, FwuReturn, FreeConfig, ParseConfig
<1>5. CASE UNCHANGED bridgeVars
  BY <1>5 DEF bridgeVars
<1> QED
  BY <1>1, <1>2, <1>3, <1>4, <1>5 DEF ClientStep, TakeLockIoctl, ReleaseLockIoctl,
     CheckRunning, Sleep, FwuCheck, FwuPoll, Upload, Started, StartTimesOut,
     ConfigStartCheck, FindVariable, FoundVariable, TakeEvent, WaitInterrupted

(* ... and those of the clients.                                           *)
LEMMA ClientStepClientTypes ==
    ASSUME ClientTypeOK, NEW c \in Clients, ClientStep(c)
    PROVE  ClientTypeOK'
<1> USE IoctlAssumption DEF ClientTypeOK, Goto, Return, Locked, Unlocked
<1>1. CASE \/ TakeLockIoctl(c) \/ ReleaseLockIoctl(c) \/ CheckRunning(c)
           \/ CallStop(c) \/ Upload(c) \/ FreeConfig(c) \/ ParseConfig(c)
           \/ CallReset(c) \/ Started(c) \/ StartTimesOut(c) \/ CallContinue(c)
  BY <1>1 DEF TakeLockIoctl, ReleaseLockIoctl, CheckRunning, CallStop, Upload,
     FreeConfig, ParseConfig, CallReset, Started, StartTimesOut, CallContinue
<1>2. CASE \/ ConfigStartCheck(c) \/ ConfigStartContinue(c) \/ FindVariable(c)
           \/ FoundVariable(c) \/ TakeEvent(c) \/ WaitInterrupted(c)
  BY <1>2 DEF ConfigStartCheck, ConfigStartContinue, FindVariable, FoundVariable,
     TakeEvent, WaitInterrupted
<1>3. CASE Sleep(c) \/ FwuCheck(c) \/ FwuReturn(c)
  BY <1>3 DEF Sleep, FwuCheck, FwuReturn, FwuGoesOn, SetSerialNumGoesOn, UpdateGoesOn,
     NextCommand, LastCommand, FwuStates
<1>4. CASE FwuRequest(c) \/ FwuArm(c) \/ FwuPoll(c)
  BY <1>4 DEF FwuRequest, FwuArm, FwuPoll
<1> QED
  BY <1>1, <1>2, <1>3, <1>4 DEF ClientStep

(* A call keeps the types of the clients.                                  *)
LEMMA CallClientTypes ==
    ASSUME ClientTypeOK, NEW c \in Clients, NEW o \in Ops, Call(c, o)
    PROVE  ClientTypeOK'
BY IoctlAssumption DEF ClientTypeOK, Call, Goto, Locked, Unlocked

-----------------------------------------------------------------------------
(* The lock, and where the clients are                                     *)

(* A client moves alone.                                                   *)
LEMMA OthersStay ==
    ASSUME ClientTypeOK, NEW c \in Clients, ClientStep(c),
           NEW d \in Clients, d # c
    PROVE  pc'[d] = pc[d] /\ op'[d] = op[d] /\ cmd'[d] = cmd[d]
<1> USE DEF ClientTypeOK, Goto, Return
<1>1. CASE \/ TakeLockIoctl(c) \/ ReleaseLockIoctl(c) \/ CheckRunning(c)
           \/ CallStop(c) \/ Upload(c) \/ FreeConfig(c) \/ ParseConfig(c)
           \/ CallReset(c) \/ Started(c) \/ StartTimesOut(c) \/ CallContinue(c)
  BY <1>1 DEF TakeLockIoctl, ReleaseLockIoctl, CheckRunning, CallStop, Upload,
     FreeConfig, ParseConfig, CallReset, Started, StartTimesOut, CallContinue
<1>2. CASE \/ ConfigStartCheck(c) \/ ConfigStartContinue(c) \/ FindVariable(c)
           \/ FoundVariable(c) \/ TakeEvent(c) \/ WaitInterrupted(c)
  BY <1>2 DEF ConfigStartCheck, ConfigStartContinue, FindVariable, FoundVariable,
     TakeEvent, WaitInterrupted
<1>3. CASE Sleep(c) \/ FwuCheck(c) \/ FwuReturn(c)
  BY <1>3 DEF Sleep, FwuCheck, FwuReturn, FwuGoesOn, SetSerialNumGoesOn, UpdateGoesOn,
     NextCommand, LastCommand
<1>4. CASE FwuRequest(c) \/ FwuArm(c) \/ FwuPoll(c)
  BY <1>4 DEF FwuRequest, FwuArm, FwuPoll
<1> QED
  BY <1>1, <1>2, <1>3, <1>4 DEF ClientStep

(* A client enters a place that needs lockIoctl only by taking it, and     *)
(* leaves those places only by releasing it.                               *)
LEMMA ClientStepLock ==
    ASSUME ClientTypeOK, LockInv, NEW c \in Clients, ClientStep(c)
    PROVE  LockInv'
<1>1. pc[c] \in Locked <=> lockIoctl = c
  BY DEF LockInv
<1>2. \/ /\ lockIoctl' = lockIoctl
         /\ pc'[c] \in Locked <=> pc[c] \in Locked
      \/ lockIoctl = Nobody /\ lockIoctl' = c /\ pc'[c] \in Locked
      \/ lockIoctl = c /\ lockIoctl' = Nobody /\ pc'[c] \notin Locked
  <2> USE <1>1 DEF ClientTypeOK, Goto, Return, Locked
  <2>1. CASE \/ TakeLockIoctl(c) \/ ReleaseLockIoctl(c)
    BY <2>1 DEF TakeLockIoctl, ReleaseLockIoctl
  <2>2. CASE \/ CheckRunning(c) \/ CallStop(c) \/ Upload(c) \/ FreeConfig(c)
             \/ ParseConfig(c) \/ CallReset(c) \/ Started(c) \/ StartTimesOut(c)
             \/ CallContinue(c)
    BY <2>2 DEF CheckRunning, CallStop, Upload, FreeConfig, ParseConfig, CallReset,
       Started, StartTimesOut, CallContinue
  <2>3. CASE \/ ConfigStartCheck(c) \/ ConfigStartContinue(c) \/ FindVariable(c)
             \/ FoundVariable(c) \/ TakeEvent(c) \/ WaitInterrupted(c)
    BY <2>3 DEF ConfigStartCheck, ConfigStartContinue, FindVariable, FoundVariable,
       TakeEvent, WaitInterrupted
  <2>4. CASE Sleep(c) \/ FwuCheck(c) \/ FwuReturn(c)
    BY <2>4 DEF Sleep, FwuCheck, FwuReturn, FwuGoesOn, SetSerialNumGoesOn, UpdateGoesOn,
       NextCommand, LastCommand
  <2>5. CASE FwuRequest(c) \/ FwuArm(c) \/ FwuPoll(c)
    BY <2>5 DEF FwuRequest, FwuArm, FwuPoll
  <2> QED
    BY <2>1, <2>2, <2>3, <2>4, <2>5 DEF ClientStep
<1> QED
  BY <1>1, <1>2, OthersStay, IoctlAssumption DEF LockInv

(* Without KB_CONFIG_START a client keeps to the places of its ioctl.      *)
LEMMA ClientStepPlace ==
    ASSUME ClientTypeOK, PlaceInv, NEW c \in Clients, ClientStep(c)
    PROVE  PlaceInv'
<1>1. /\ pc'[c] \notin {"configStart", "startBridge"}
      /\ pc'[c] \in {"upload", "free", "parse"} => op'[c] # "KB_INTERN_SET_SERIAL_NUM"
      /\ pc'[c] = "resetTwice" => op'[c] = "KB_INTERN_SET_SERIAL_NUM"
      /\ pc'[c] \in FwuPlaces =>
            /\ op'[c] \in {"KB_INTERN_SET_SERIAL_NUM", "KB_UPDATE_DEVICE_FIRMWARE"}
            /\ cmd'[c] \in FwuStates
  <2> USE DEF ClientTypeOK, PlaceInv, FwuPlaces, Goto, Return
  <2>1. CASE \/ TakeLockIoctl(c) \/ ReleaseLockIoctl(c) \/ CheckRunning(c)
             \/ CallStop(c) \/ Upload(c) \/ FreeConfig(c) \/ ParseConfig(c)
             \/ CallReset(c) \/ Started(c) \/ StartTimesOut(c) \/ CallContinue(c)
    BY <2>1 DEF TakeLockIoctl, ReleaseLockIoctl, CheckRunning, CallStop, Upload,
       FreeConfig, ParseConfig, CallReset, Started, StartTimesOut, CallContinue
  <2>2. CASE \/ ConfigStartCheck(c) \/ ConfigStartContinue(c) \/ FindVariable(c)
             \/ FoundVariable(c) \/ TakeEvent(c) \/ WaitInterrupted(c)
    BY <2>2 DEF ConfigStartCheck, ConfigStartContinue, FindVariable, FoundVariable,
       TakeEvent, WaitInterrupted
  <2>3. CASE Sleep(c) \/ FwuCheck(c) \/ FwuReturn(c)
    BY <2>3 DEF Sleep, FwuCheck, FwuReturn, FwuGoesOn, SetSerialNumGoesOn, UpdateGoesOn,
       NextCommand, LastCommand, FwuStates
  <2>4. CASE FwuRequest(c) \/ FwuArm(c) \/ FwuPoll(c)
    BY <2>4 DEF FwuRequest, FwuArm, FwuPoll
  <2> QED
    BY <2>1, <2>2, <2>3, <2>4 DEF ClientStep
<1> QED
  BY <1>1, OthersStay DEF PlaceInv

-----------------------------------------------------------------------------
(* What the cycles of the I/O thread do, as far as the invariants tell     *)
(* them apart                                                              *)

(* A cycle of the scan moves the bridge only within its initialisation.    *)
LEMMA ScanStep ==
    ASSUME BridgeValuesOK, Scan
    PROVE  /\ io = "idle"
           /\ eBridgeState # "Stop"
           /\ eRunStatus \in ScanStates
           /\ ScanUnchanged
           /\ \/ eRunStatus' \in ScanStates
              \/ eRunStatus' = "EndOfConfig" /\ bEntering' = TRUE
<1> USE DEF Cycle, NextState, ScanStates, TimedStates, BridgeValuesOK
<1>1. CASE RunInit
  BY <1>1 DEF RunInit
<1>2. CASE RunStartTimer
  BY <1>2 DEF RunStartTimer
<1>3. CASE RunPresentSignallingDone
  BY <1>3 DEF RunPresentSignallingDone, InitialSlaveDetection
<1>4. ASSUME NEW side \in Sides,
             \/ RunInitialSlaveDetection(side)
             \/ RunConfigStartDone(side)
             \/ RunSlaveDetection(side)
             \/ RunConfigDialogue(side)
      PROVE  /\ io = "idle" /\ eBridgeState # "Stop" /\ ScanUnchanged
             /\ eRunStatus \in ScanStates
             /\ \/ eRunStatus' \in ScanStates
                \/ eRunStatus' = "EndOfConfig" /\ bEntering' = TRUE
  <2>1. {InitialSlaveDetection[side], ConfigStart[side], ConfigDialogue[side],
         SlaveDetection[side]} \subseteq ScanStates
    BY DEF Sides, InitialSlaveDetection, ConfigStart, ConfigDialogue, SlaveDetection
  <2>2. AfterSide[side] \in ScanStates \cup {"EndOfConfig"}
    BY DEF Sides, AfterSide
  <2> HIDE DEF ScanStates, TimedStates
  <2> QED
    BY <1>4, <2>1, <2>2 DEF RunInitialSlaveDetection, RunConfigStartDone,
       RunSlaveDetection, RunConfigDialogue
<1> HIDE DEF ScanStates, TimedStates, Cycle, NextState
<1> QED
  BY <1>1, <1>2, <1>3, <1>4 DEF Scan

Exchange == RunStartExchange \/ RunExchange \/ RunExchangeError

(* An exchange keeps the table, and ends the initialisation or fails.      *)
LEMMA ExchangeStep ==
    ASSUME CycleInv, Exchange
    PROVE  /\ eRunStatus = "EndOfConfig"
           /\ io = "start" \/ (io = "idle" /\ ~bEntering)
           /\ io' = "idle"
           /\ UNCHANGED <<tableConf, conf, executed>>
           /\ running' <=> eBridgeState' = "Run"
           /\ eBridgeState # "Stop"
           /\ \/ eBridgeState' \in {eBridgeState, "Run", "Stop"} /\ bEntering' = FALSE
                 /\ eRunStatus' = eRunStatus
              \/ eBridgeState = "Init" /\ eBridgeState' = "Init"
                 /\ eRunStatus' = "InitRetry"
<1> USE DEF Exchange, CycleInv, Cycle, ExchangeUnchanged, RunStartExchange, RunExchange,
        RunExchangeError
<1>1. eRunStatus = "EndOfConfig" /\ eBridgeState # "Stop" /\ io' = "idle"
  OBVIOUS
<1>2. io = "start" \/ (io = "idle" /\ ~bEntering)
  OBVIOUS
<1>3. UNCHANGED <<tableConf, conf, executed>>
  OBVIOUS
<1>4. ExchangeFails \/ InitAgain \/ SetRunning \/ KeepRunning
  BY DEF ExchangeSucceeds
<1> HIDE DEF Exchange, RunStartExchange, RunExchange, RunExchangeError
<1>5. running' <=> eBridgeState' = "Run"
  BY <1>4 DEF ExchangeFails, InitAgain, SetRunning, KeepRunning
<1>6. \/ eBridgeState' \in {eBridgeState, "Run", "Stop"} /\ bEntering' = FALSE
         /\ eRunStatus' = eRunStatus
      \/ eBridgeState = "Init" /\ eBridgeState' = "Init" /\ eRunStatus' = "InitRetry"
  BY <1>4 DEF ExchangeFails, InitAgain, SetRunning, KeepRunning, NextState
<1> QED
  BY <1>1, <1>2, <1>3, <1>5, <1>6

-----------------------------------------------------------------------------
(* The I/O thread keeps the invariants                                     *)

(* What the I/O thread found under the lock stays so until it is done.     *)
LEMMA IoThreadCycle ==
    ASSUME BridgeTypeOK, CycleInv, EnteringInv, IoThread
    PROVE  CycleInv'
<1> USE DEF CycleInv, FwuStates
<1>1. CASE Scan
  BY <1>1, ScanStep DEF BridgeTypeOK, ScanUnchanged
<1>2. CASE RunAdjust \/ RunAdjustDone
  BY <1>2 DEF RunAdjust, RunAdjustDone, Cycle
<1>3. CASE Exchange
  BY <1>3, ExchangeStep
<1>4. CASE RunContinue \/ RunContinued
  BY <1>4 DEF RunContinue, RunContinued, Cycle
<1>5. CASE RunInitRetry
  BY <1>5 DEF RunInitRetry, Cycle, NextState
<1>6. CASE StopDataExchange \/ StoppedDataExchange
  BY <1>6 DEF StopDataExchange, StoppedDataExchange, StopCycle, StopUnchanged
<1>7. CASE StartCommand \/ FinishCommand
  BY <1>7 DEF StartCommand, FinishCommand, StopCycle, StopUnchanged
<1> QED
  BY <1>1, <1>2, <1>3, <1>4, <1>5, <1>6, <1>7 DEF IoThread, OwnStep, OrderedStep, Exchange

(* It does not return to the data exchange of a stopped bridge.            *)
LEMMA IoThreadStop ==
    ASSUME BridgeTypeOK, CycleInv, StopInv, EnteringInv, IoThread, UNCHANGED clientVars
    PROVE  StopInv'
<1> USE DEF StopInv, clientVars
<1>1. CASE Scan
  BY <1>1, ScanStep DEF BridgeTypeOK, ScanUnchanged, EnteringInv, ScanStates, TimedStates
<1>2. CASE RunAdjust \/ RunAdjustDone
  BY <1>2 DEF RunAdjust, RunAdjustDone, Cycle, CycleInv
<1>3. CASE Exchange
  BY <1>3, ExchangeStep
<1>4. CASE RunContinue \/ RunContinued
  BY <1>4 DEF RunContinue, RunContinued, Cycle, CycleInv
<1>5. CASE RunInitRetry
  BY <1>5 DEF RunInitRetry, Cycle, NextState, EnteringInv
<1>6. CASE StopDataExchange \/ StoppedDataExchange
  BY <1>6 DEF StopDataExchange, StoppedDataExchange, StopCycle, StopUnchanged, CycleInv
<1>7. CASE StartCommand \/ FinishCommand
  BY <1>7 DEF StartCommand, FinishCommand, StopCycle, StopUnchanged, FwuStates
<1> QED
  BY <1>1, <1>2, <1>3, <1>4, <1>5, <1>6, <1>7 DEF IoThread, OwnStep, OrderedStep, Exchange

(* It adjusts the device table only to what the driver holds.              *)
LEMMA IoThreadTable ==
    ASSUME BridgeTypeOK, CycleInv, EnteringInv, BusInv, TableInv, IoThread,
           UNCHANGED clientVars
    PROVE  TableInv'
<1> USE DEF TableInv, ConfigReplaced, clientVars
<1>1. CASE Scan
  BY <1>1, ScanStep DEF BridgeTypeOK, ScanUnchanged, ScanStates, TimedStates
<1>2. CASE RunAdjust \/ RunAdjustDone
  BY <1>2, BridgeAssumption DEF RunAdjust, RunAdjustDone, ExchangeUnchanged, Cycle,
     CycleInv, BridgeTypeOK, BridgeValuesOK
<1>3. CASE Exchange
  BY <1>3, ExchangeStep
<1>4. CASE RunContinue \/ RunContinued
  BY <1>4 DEF RunContinue, RunContinued, ExchangeUnchanged, Cycle, CycleInv, BusInv
<1>5. CASE RunInitRetry
  BY <1>5 DEF RunInitRetry, Cycle, NextState, ClearDevices
<1>6. CASE StopDataExchange \/ StoppedDataExchange
  BY <1>6 DEF StopDataExchange, StoppedDataExchange, StopCycle, StopUnchanged, CycleInv
<1>7. CASE StartCommand \/ FinishCommand
  BY <1>7 DEF StartCommand, FinishCommand, StopCycle, StopUnchanged, CycleInv, FwuStates
<1> QED
  BY <1>1, <1>2, <1>3, <1>4, <1>5, <1>6, <1>7 DEF IoThread, OwnStep, OrderedStep, Exchange

(* It leaves the modules in the protocol the bridge state expects.         *)
LEMMA IoThreadBus ==
    ASSUME BridgeTypeOK, CycleInv, EnteringInv, BusInv, IoThread
    PROVE  BusInv'
<1> USE DEF BusInv
<1>1. CASE Scan
  BY <1>1, ScanStep DEF BridgeTypeOK, ScanUnchanged, ScanStates, TimedStates
<1>2. CASE RunAdjust \/ RunAdjustDone
  BY <1>2 DEF RunAdjust, RunAdjustDone
<1>3. CASE Exchange
  BY <1>3, ExchangeStep
<1>4. CASE RunContinue \/ RunContinued
  BY <1>4 DEF RunContinue, RunContinued, Cycle, CycleInv
<1>5. CASE RunInitRetry
  BY <1>5 DEF RunInitRetry, Cycle, NextState
<1>6. CASE StopDataExchange \/ StoppedDataExchange
  BY <1>6 DEF StopDataExchange, StoppedDataExchange, StopCycle, StopUnchanged
<1>7. CASE StartCommand \/ FinishCommand
  BY <1>7 DEF StartCommand, FinishCommand, StopCycle, StopUnchanged
<1> QED
  BY <1>1, <1>2, <1>3, <1>4, <1>5, <1>6, <1>7 DEF IoThread, OwnStep, OrderedStep, Exchange

(* Only the client that polls bEntering_s can have started a command.      *)
LEMMA IoThreadEntering ==
    ASSUME BridgeTypeOK, LockInv, PlaceInv, CycleInv, StopInv, EnteringInv, IoThread,
           UNCHANGED clientVars
    PROVE  EnteringInv'
(* While the bridge is not stopped nobody waits for a command.             *)
<1>1. ASSUME eBridgeState # "Stop",
             executed' = executed,
             io' \notin FwuStates,
             eBridgeState' = "Run" =>
                 ~bEntering' /\ eRunStatus' \in {"EndOfConfig", "Continue"},
             eRunStatus' = "Continue" => ~bEntering',
             eBridgeState' = "Stop" => ~bEntering'
      PROVE  EnteringInv'
  <2>1. \A c \in Clients : pc[c] \notin FwuPlaces
    BY <1>1 DEF StopInv
  <2>2. executed = "none"
    BY <2>1 DEF EnteringInv, FwuPlaces
  <2> QED
    BY <1>1, <2>1, <2>2 DEF EnteringInv, FwuPlaces, clientVars
<1>2. CASE Scan
  <2> USE <1>2, ScanStep DEF BridgeTypeOK
  <2>1. eBridgeState = "Init" /\ eBridgeState' = "Init"
    BY DEF EnteringInv, BridgeValuesOK, ScanUnchanged, ScanStates, TimedStates
  <2>2. eRunStatus' # "Continue"
    BY DEF ScanStates, TimedStates
  <2> QED
    BY <1>1, <2>1, <2>2 DEF ScanUnchanged, FwuStates
<1>3. CASE RunAdjust \/ RunAdjustDone \/ RunContinue \/ RunContinued
  <2>1. /\ eBridgeState # "Stop"
        /\ eRunStatus \in {"EndOfConfig", "Continue"}
        /\ UNCHANGED <<eBridgeState, executed>>
        /\ io' \in {"adjust", "start", "continue", "idle"}
        /\ \/ eRunStatus' = eRunStatus /\ bEntering' = bEntering
           \/ eRunStatus' = "EndOfConfig" /\ bEntering' = FALSE
    BY <1>3 DEF RunAdjust, RunAdjustDone, RunContinue, RunContinued, ExchangeUnchanged,
       Cycle, CycleInv
  <2> QED
    BY <1>1, <2>1 DEF EnteringInv, FwuStates
<1>4. CASE Exchange
  BY <1>1, <1>4, ExchangeStep DEF FwuStates
<1>5. CASE RunInitRetry
  <2>1. eBridgeState = "Init" /\ io' = "idle"
    BY <1>5 DEF RunInitRetry, Cycle, EnteringInv, BridgeTypeOK, BridgeValuesOK
  <2>2. /\ eBridgeState' = "Init"
        /\ eRunStatus' \in {"Init", "InitRetry"}
        /\ executed' = executed
    BY <1>5, <2>1 DEF RunInitRetry, Cycle, NextState
  <2> QED
    BY <1>1, <2>1, <2>2 DEF FwuStates
(* While it is stopped, the client at fwuPoll does.                        *)
<1>6. CASE StopDataExchange \/ StoppedDataExchange
  <2>1. /\ UNCHANGED <<eBridgeState, bEntering, executed>>
        /\ eBridgeState = "Stop"
        /\ eRunStatus = "EndOfConfig"
        /\ io \notin FwuStates
        /\ io' \in {"gate", "idle"}
        /\ eRunStatus' # "Continue"
    BY <1>6 DEF StopDataExchange, StoppedDataExchange, StopCycle, StopUnchanged, CycleInv,
       FwuStates
  <2>2. \A c \in Clients : pc[c] \notin FwuPlaces
    BY <2>1 DEF StopInv
  <2> QED
    BY <2>1, <2>2 DEF EnteringInv, FwuPlaces, FwuStates, clientVars
<1>7. CASE StartCommand
  <2>1. PICK c \in Clients : pc[c] = "fwuPoll"
    BY <1>7 DEF StartCommand, StopCycle, EnteringInv
  <2>2. \A d \in Clients : d # c => pc[d] \notin Locked
    BY <2>1 DEF LockInv, Locked
  <2>3. /\ UNCHANGED <<eBridgeState, eRunStatus, bEntering>>
        /\ eBridgeState = "Stop"
        /\ eRunStatus = cmd[c]
        /\ io' = cmd[c]
        /\ bEntering
        /\ executed' = cmd[c]
    BY <1>7, <2>1 DEF StartCommand, StopCycle, StopUnchanged, EnteringInv, FwuStates
  <2> QED
    BY <2>1, <2>2, <2>3 DEF EnteringInv, Locked, clientVars
<1>8. CASE FinishCommand
  BY <1>8 DEF FinishCommand, StopUnchanged, EnteringInv, CycleInv, PlaceInv, FwuPlaces,
     FwuStates, clientVars
<1> QED
  BY <1>2, <1>3, <1>4, <1>5, <1>6, <1>7, <1>8 DEF IoThread, OwnStep, OrderedStep, Exchange

(* The last scan is repeated before a missing module is put up with.       *)
LEMMA IoThreadRetry ==
    ASSUME BridgeTypeOK, CycleInv, StopInv, EnteringInv, RetryInv, IoThread,
           UNCHANGED clientVars
    PROVE  RetryInv'
<1> USE DEF RetryInv, clientVars
<1>1. CASE Scan
  BY <1>1, ScanStep DEF BridgeTypeOK, ScanUnchanged
<1>2. CASE RunAdjust \/ RunContinue \/ RunContinued
  BY <1>2 DEF RunAdjust, RunContinue, RunContinued
<1>3. CASE RunAdjustDone
  <2>1. eBridgeState = "Init" /\ running' = running
    BY <1>3 DEF RunAdjustDone, CycleInv, EnteringInv, BridgeTypeOK, BridgeValuesOK
  <2> QED
    BY <2>1 DEF CycleInv, StopInv
<1>4. CASE Exchange
  <2>1. missing' = missing
    BY <1>4 DEF Exchange, RunStartExchange, RunExchange, RunExchangeError
  <2>2. ExchangeFails \/ InitAgain \/ SetRunning \/ KeepRunning
    BY <1>4 DEF Exchange, RunStartExchange, RunExchange, RunExchangeError,
       ExchangeSucceeds
  <2>3. CASE ExchangeFails \/ KeepRunning
    BY <2>1, <2>3 DEF ExchangeFails, KeepRunning
  <2>4. CASE InitAgain
    BY <2>1, <2>4 DEF InitAgain, CycleInv, StopInv
  <2>5. CASE SetRunning
    <3>1. init_retry \in 0..1
      BY DEF BridgeTypeOK, BridgeValuesOK, MAX_INIT_RETRIES
    <3>2. ~missing \/ ~(init_retry > 0)
      BY <2>5 DEF SetRunning
    <3>3. missing => init_retry = 0
      BY <3>1, <3>2
    <3> QED
      BY <2>1, <2>5, <3>3 DEF SetRunning
  <2> QED
    BY <2>2, <2>3, <2>4, <2>5
<1>5. CASE RunInitRetry
  BY <1>5 DEF RunInitRetry, ClearDevices
<1>6. CASE StopDataExchange \/ StoppedDataExchange \/ StartCommand \/ FinishCommand
  BY <1>6 DEF StopDataExchange, StoppedDataExchange, StartCommand, FinishCommand,
     StopUnchanged
<1> QED
  BY <1>1, <1>2, <1>3, <1>4, <1>5, <1>6 DEF IoThread, OwnStep, OrderedStep, Exchange

-----------------------------------------------------------------------------
(* The clients keep the invariants                                         *)

(* Nobody else is where lockIoctl is held.                                 *)
LEMMA Exclusion ==
    ASSUME LockInv, NEW c \in Clients, pc[c] \in Locked, NEW d \in Clients, d # c
    PROVE  pc[d] \notin Locked
BY DEF LockInv

(* What a client leaves alone, whatever it does, unless it calls one of    *)
(* the bridge's operations.                                                *)
Operates(c) ==
    CallStop(c) \/ CallContinue(c) \/ CallReset(c) \/ ConfigStartContinue(c)

(* Apart from four operations a client only writes what it owns.           *)
LEMMA ClientStepBridge ==
    ASSUME NEW c \in Clients, ClientStep(c), ~Operates(c)
    PROVE  /\ UNCHANGED <<eBridgeState, running, io, bus, tableConf, missing, init_retry>>
           /\ eRunStatus' = eRunStatus \/ FwuRequest(c)
           /\ bEntering' = bEntering \/ FwuArm(c)
           /\ executed' = executed \/ FwuReturn(c)
           /\ conf' = conf \/ FreeConfig(c) \/ ParseConfig(c)
<1>1. CASE FwuRequest(c) \/ FwuArm(c) \/ FwuReturn(c) \/ FreeConfig(c) \/ ParseConfig(c)
  BY <1>1 DEF FwuRequest, FwuArm, FwuReturn, FreeConfig, ParseConfig
<1>2. CASE UNCHANGED bridgeVars
  BY <1>2 DEF bridgeVars
<1> QED
  BY <1>1, <1>2 DEF Operates, ClientStep, TakeLockIoctl, ReleaseLockIoctl, CheckRunning,
     Sleep, FwuCheck, FwuPoll, Upload, Started, StartTimesOut, ConfigStartCheck,
     FindVariable, FoundVariable, TakeEvent, WaitInterrupted

(* The operations wait for lockBridgeState.                                *)
LEMMA ClientStepCycle ==
    ASSUME CycleInv, StopInv, PlaceInv, NEW c \in Clients, ClientStep(c)
    PROVE  CycleInv'
<1>1. CASE ~Operates(c)
  BY <1>1, ClientStepBridge DEF CycleInv, FwuRequest, FwuArm, FwuPlaces, StopInv,
     PlaceInv, FwuStates
<1>2. CASE Operates(c)
  BY <1>2 DEF Operates, CallStop, CallContinue, CallReset, ConfigStartContinue, Stop,
     Continue, Reset, BridgeLockFree, CycleInv, FwuStates, NextState
<1> QED
  BY <1>1, <1>2

(* The others are not where lockIoctl is needed, and stay there.           *)
LEMMA OthersUnlocked ==
    ASSUME ClientTypeOK, LockInv, NEW c \in Clients, ClientStep(c), pc[c] \in Locked,
           NEW d \in Clients, d # c
    PROVE  pc'[d] \notin Locked
BY OthersStay, Exclusion

(* msleep() ends only after the I/O thread left the data exchange.         *)
LEMMA ClientStepStop ==
    ASSUME SleepCoversCycle, ClientTypeOK, LockInv, PlaceInv, CycleInv, StopInv,
           NEW c \in Clients, ClientStep(c)
    PROVE  StopInv'
<1>1. CASE Operates(c)
  <2>1. pc[c] \in Locked
    BY <1>1 DEF Operates, CallStop, CallContinue, CallReset, ConfigStartContinue, Locked,
       PlaceInv
  <2>2. \A d \in Clients : d # c => pc'[d] \notin Locked
    BY <2>1, OthersUnlocked
  <2>3. CASE CallStop(c)
    <3>1. pc'[c] \in {"free", "unlock", "sleep"} /\ eBridgeState' = "Stop"
      BY <2>3 DEF CallStop, Stop, Goto, ClientTypeOK
    <3> QED
      BY <2>2, <3>1 DEF StopInv, FwuPlaces, Locked
  <2>4. CASE ~CallStop(c)
    <3>1. pc'[c] \in {"unlock", "reset", "wait", "user"}
      BY <1>1, <2>4 DEF Operates, CallContinue, CallReset, ConfigStartContinue, Goto,
         Return, ClientTypeOK
    <3> QED
      BY <2>2, <3>1 DEF StopInv, FwuPlaces, Locked
  <2> QED
    BY <2>3, <2>4
<1>2. CASE ~Operates(c)
  <2>1. UNCHANGED <<eBridgeState, io>>
    BY <1>2, ClientStepBridge
  <2>2. ASSUME NEW d \in Clients, d # c
        PROVE  /\ pc'[d] = "stop" => eBridgeState \in {"Run", "Stop"}
               /\ pc'[d] \in FwuPlaces \cup {"sleep", "upload", "continue"} =>
                     eBridgeState = "Stop"
               /\ pc'[d] \in FwuPlaces \cup {"upload", "continue"} =>
                     eRunStatus' # "EndOfConfig" /\ io # "gate"
    <3>1. pc'[d] = pc[d]
      BY <2>2, OthersStay
    <3>2. CASE FwuRequest(c)
      BY <3>1, <3>2, <2>2, Exclusion DEF FwuRequest, FwuPlaces, Locked
    <3>3. CASE ~FwuRequest(c)
      BY <3>1, <3>3, <1>2, ClientStepBridge DEF StopInv
    <3> QED
      BY <3>2, <3>3
  <2>3. /\ pc'[c] = "stop" => eBridgeState \in {"Run", "Stop"}
        /\ pc'[c] \in FwuPlaces \cup {"sleep", "upload", "continue"} =>
              eBridgeState = "Stop"
        /\ pc'[c] \in FwuPlaces \cup {"upload", "continue"} =>
              eRunStatus' # "EndOfConfig" /\ io # "gate"
    <3> USE DEF ClientTypeOK, Goto, Return, FwuPlaces
    <3>1. CASE TakeLockIoctl(c) \/ ReleaseLockIoctl(c) \/ CheckRunning(c)
      BY <3>1 DEF TakeLockIoctl, ReleaseLockIoctl, CheckRunning, CycleInv
    <3>2. CASE Sleep(c)
      BY <3>2 DEF Sleep, DataExchangeLeft, StopInv, bridgeVars
    <3>3. CASE FwuCheck(c) \/ FwuReturn(c)
      <4>1. pc[c] \in FwuPlaces /\ eRunStatus' = eRunStatus
        BY <3>3 DEF FwuCheck, FwuReturn, bridgeVars
      <4> QED
        BY <3>3, <4>1 DEF FwuCheck, FwuReturn, FwuGoesOn, SetSerialNumGoesOn,
           UpdateGoesOn, NextCommand, LastCommand, StopInv
    <3>4. CASE FwuRequest(c)
      BY <3>4 DEF FwuRequest, StopInv, PlaceInv, FwuStates
    <3>5. CASE FwuArm(c) \/ FwuPoll(c)
      BY <3>5 DEF FwuArm, FwuPoll, StopInv, bridgeVars
    <3>6. CASE \/ Upload(c) \/ FreeConfig(c) \/ ParseConfig(c) \/ Started(c)
               \/ StartTimesOut(c)
      BY <3>6 DEF Upload, FreeConfig, ParseConfig, Started, StartTimesOut
    <3>7. CASE \/ ConfigStartCheck(c) \/ FindVariable(c) \/ FoundVariable(c)
               \/ TakeEvent(c) \/ WaitInterrupted(c)
      BY <3>7 DEF ConfigStartCheck, FindVariable, FoundVariable, TakeEvent,
         WaitInterrupted
    <3> QED
      BY <1>2, <3>1, <3>2, <3>3, <3>4, <3>5, <3>6, <3>7 DEF ClientStep, Operates
  <2> QED
    BY <2>1, <2>2, <2>3 DEF StopInv
<1> QED
  BY <1>1, <1>2

(* No client continues a bridge whose modules exchange data.               *)
LEMMA ClientStepBus ==
    ASSUME ClientTypeOK, PlaceInv, CycleInv, StopInv, EnteringInv, BusInv,
           NEW c \in Clients, ClientStep(c)
    PROVE  BusInv'
<1>1. CASE CallStop(c)
  BY <1>1 DEF CallStop, Stop, BusInv, StopInv, EnteringInv
<1>2. CASE CallContinue(c)
  BY <1>2 DEF CallContinue, Continue, BusInv, StopInv
<1>3. CASE CallReset(c)
  BY <1>3 DEF CallReset, Reset, NextState, BusInv
<1>4. CASE ConfigStartContinue(c)
  BY <1>4 DEF ConfigStartContinue, PlaceInv
<1>5. CASE ~Operates(c)
  <2>1. UNCHANGED <<eBridgeState, bus>>
    BY <1>5, ClientStepBridge
  <2>2. CASE FwuRequest(c)
    BY <2>1, <2>2 DEF FwuRequest, BusInv, StopInv, PlaceInv, FwuPlaces, FwuStates
  <2>3. CASE ~FwuRequest(c)
    BY <1>5, <2>1, <2>3, ClientStepBridge DEF BusInv
  <2> QED
    BY <2>2, <2>3
<1> QED
  BY <1>1, <1>2, <1>3, <1>4, <1>5 DEF Operates

(* Between the new configuration and the reset the lock is held.           *)
LEMMA ClientStepTable ==
    ASSUME BridgeTypeOK, ClientTypeOK, LockInv, PlaceInv, CycleInv, StopInv, TableInv,
           NEW c \in Clients, ClientStep(c)
    PROVE  TableInv'
<1>1. CASE CallReset(c)
  BY <1>1 DEF CallReset, Reset, NextState, ClearDevices, BridgeLockFree, TableInv
<1>2. CASE CallStop(c)
  <2>1. ~ConfigReplaced
    BY <1>2, IoctlAssumption DEF CallStop, ConfigReplaced, LockInv, Locked
  <2> QED
    BY <1>2, <2>1 DEF CallStop, Stop, StopInv, BridgeLockFree, TableInv
<1>3. CASE CallContinue(c)
  <2>1. ~ConfigReplaced
    BY <1>3, IoctlAssumption DEF CallContinue, ConfigReplaced, LockInv, Locked
  <2> QED
    BY <1>3, <2>1 DEF CallContinue, Continue, StopInv, BridgeLockFree, TableInv
<1>4. CASE ConfigStartContinue(c)
  BY <1>4 DEF ConfigStartContinue, PlaceInv
<1>5. CASE FreeConfig(c) \/ ParseConfig(c)
  <2>1. ConfigReplaced'
    BY <1>5, IoctlAssumption DEF FreeConfig, ParseConfig, Goto, ClientTypeOK,
       ConfigReplaced, LockInv, Locked
  <2> QED
    BY <1>5, <2>1 DEF FreeConfig, ParseConfig, TableInv
<1>6. CASE ~Operates(c) /\ ~FreeConfig(c) /\ ~ParseConfig(c)
  <2>1. UNCHANGED <<eBridgeState, io, tableConf, conf>>
    BY <1>6, ClientStepBridge
  <2>2. ConfigReplaced => ConfigReplaced'
    <3>1. SUFFICES ASSUME ConfigReplaced PROVE ConfigReplaced'
      OBVIOUS
    <3>2. lockIoctl \in Clients /\ pc[lockIoctl] \in {"parse", "reset"}
      BY <3>1 DEF ConfigReplaced, ClientTypeOK
    <3>3. c # lockIoctl
      BY <1>6, <3>2 DEF Operates, ClientStep, TakeLockIoctl, ReleaseLockIoctl,
         CheckRunning, Sleep, FwuCheck, FwuRequest, FwuArm, FwuPoll, FwuReturn, Upload,
         Started, StartTimesOut, ConfigStartCheck, FindVariable, FoundVariable,
         TakeEvent, WaitInterrupted
    <3>4. pc'[lockIoctl] = pc[lockIoctl]
      BY <3>2, <3>3, OthersStay
    <3>5. LockInv'
      BY ClientStepLock
    <3>6. lockIoctl' = lockIoctl
      BY <3>2, <3>4, <3>5 DEF LockInv, Locked
    <3> QED
      BY <3>2, <3>4, <3>6, IoctlAssumption DEF ConfigReplaced
  <2>3. CASE FwuRequest(c)
    BY <2>1, <2>2, <2>3 DEF FwuRequest, TableInv, StopInv, FwuPlaces, CycleInv
  <2>4. CASE ~FwuRequest(c)
    <3>1. eRunStatus' = eRunStatus /\ (bEntering' = bEntering \/ bEntering' = TRUE)
      BY <1>6, <2>4, ClientStepBridge DEF FwuArm
    <3> QED
      BY <2>1, <2>2, <3>1 DEF TableInv
  <2> QED
    BY <2>3, <2>4
<1> QED
  BY <1>1, <1>2, <1>3, <1>4, <1>5, <1>6 DEF Operates

(* Each client hands its own command over, and takes its own result.       *)
LEMMA ClientStepEntering ==
    ASSUME BridgeTypeOK, ClientTypeOK, LockInv, PlaceInv, CycleInv, StopInv, EnteringInv,
           NEW c \in Clients, ClientStep(c)
    PROVE  EnteringInv'
<1>1. CASE pc[c] \in Locked
  (* Then only c can be at fwuPoll or fwuReturn, before and after.         *)
  <2>1. \A d \in Clients : d # c => pc[d] \notin Locked /\ pc'[d] \notin Locked
    BY <1>1, Exclusion, OthersUnlocked
  <2>2. ASSUME pc'[c] \notin {"fwuArm", "fwuPoll", "fwuReturn"},
               executed' = "none",
               io' \notin FwuStates,
               eBridgeState' = "Run" =>
                   ~bEntering' /\ eRunStatus' \in {"EndOfConfig", "Continue"},
               eRunStatus' = "Continue" => ~bEntering',
               eBridgeState' = "Stop" => ~bEntering'
        PROVE  EnteringInv'
    BY <2>1, <2>2 DEF EnteringInv, Locked
  <2>3. CASE pc[c] \notin {"fwuPoll", "fwuReturn"}
    <3>1. /\ executed = "none"
          /\ io \notin FwuStates
          /\ eBridgeState = "Stop" => ~bEntering
      BY <2>1, <2>3 DEF EnteringInv, Locked
    <3>2. CASE Operates(c)
      <4>1. pc'[c] \notin {"fwuArm", "fwuPoll", "fwuReturn"}
        BY <3>2 DEF Operates, CallStop, CallContinue, CallReset, ConfigStartContinue,
           Goto, Return, ClientTypeOK
      <4>2. UNCHANGED <<executed, io>>
        BY <3>2 DEF Operates, CallStop, CallContinue, CallReset, ConfigStartContinue,
           Stop, Continue, Reset
      <4>3. /\ eBridgeState' = "Run" =>
                   ~bEntering' /\ eRunStatus' \in {"EndOfConfig", "Continue"}
            /\ eRunStatus' = "Continue" => ~bEntering'
            /\ eBridgeState' = "Stop" => ~bEntering'
        <5>1. CASE CallStop(c)
          BY <3>1, <5>1 DEF CallStop, Stop, StopInv, EnteringInv
        <5>2. CASE ~CallStop(c)
          BY <3>2, <5>2 DEF Operates, CallContinue, CallReset, ConfigStartContinue,
             Continue, Reset, NextState
        <5> QED
          BY <5>1, <5>2
      <4> QED
        BY <2>2, <3>1, <4>1, <4>2, <4>3
    <3>3. CASE FwuRequest(c)
      <4>1. /\ pc[c] = "fwuRequest"
            /\ eBridgeState = "Stop"
            /\ cmd[c] \in FwuStates
            /\ pc'[c] = "fwuArm"
            /\ eRunStatus' = cmd[c]
            /\ UNCHANGED <<eBridgeState, bEntering, io, executed, cmd>>
        BY <3>3 DEF FwuRequest, Goto, ClientTypeOK, StopInv, PlaceInv, FwuPlaces
      <4> QED
        BY <2>1, <3>1, <4>1 DEF EnteringInv, Locked, FwuStates
    <3>4. CASE FwuArm(c)
      <4>1. /\ pc[c] = "fwuArm"
            /\ eBridgeState = "Stop"
            /\ io = "idle" \/ io \in {"adjust", "start", "continue", "gate"}
            /\ io # "gate"
            /\ cmd[c] \in FwuStates
            /\ eRunStatus = cmd[c]
            /\ pc'[c] = "fwuPoll"
            /\ bEntering' = TRUE
            /\ UNCHANGED <<eBridgeState, eRunStatus, io, executed, cmd>>
        BY <3>1, <3>4 DEF FwuArm, Goto, ClientTypeOK, StopInv, PlaceInv, FwuPlaces,
           EnteringInv, BridgeTypeOK, BridgeValuesOK, IoPlaces
      <4>2. io = "idle"
        BY <4>1 DEF CycleInv
      <4> QED
        BY <2>1, <3>1, <4>1, <4>2 DEF EnteringInv, Locked, FwuStates
    <3>5. CASE ~Operates(c) /\ ~FwuRequest(c) /\ ~FwuArm(c)
      <4>1. UNCHANGED <<eBridgeState, eRunStatus, bEntering, io, executed>>
        BY <2>3, <3>5, ClientStepBridge DEF FwuReturn
      <4>2. pc'[c] \notin {"fwuArm", "fwuPoll", "fwuReturn"}
        <5> USE DEF ClientTypeOK, Goto, Return
        <5>1. CASE \/ TakeLockIoctl(c) \/ ReleaseLockIoctl(c) \/ CheckRunning(c)
                   \/ Upload(c) \/ FreeConfig(c) \/ ParseConfig(c) \/ Started(c)
                   \/ StartTimesOut(c)
          BY <5>1 DEF TakeLockIoctl, ReleaseLockIoctl, CheckRunning, Upload, FreeConfig,
             ParseConfig, Started, StartTimesOut
        <5>2. CASE \/ ConfigStartCheck(c) \/ FindVariable(c) \/ FoundVariable(c)
                   \/ TakeEvent(c) \/ WaitInterrupted(c)
          BY <5>2 DEF ConfigStartCheck, FindVariable, FoundVariable, TakeEvent,
             WaitInterrupted
        <5>3. CASE Sleep(c) \/ FwuCheck(c)
          BY <5>3 DEF Sleep, FwuCheck, FwuGoesOn, SetSerialNumGoesOn, UpdateGoesOn,
             NextCommand, LastCommand
        <5> QED
          BY <2>3, <3>5, <5>1, <5>2, <5>3 DEF ClientStep, Operates, FwuPoll, FwuReturn
      <4> QED
        BY <2>2, <3>1, <4>1, <4>2 DEF EnteringInv
    <3> QED
      BY <3>2, <3>3, <3>4, <3>5
  <2>4. CASE pc[c] = "fwuPoll"
    <3>1. FwuPoll(c)
      BY <2>4 DEF ClientStep, TakeLockIoctl, ReleaseLockIoctl, CheckRunning, CallStop,
         Sleep, FwuCheck, FwuRequest, FwuArm, FwuReturn, Upload, FreeConfig, ParseConfig,
         CallReset, Started, StartTimesOut, CallContinue, ConfigStartCheck,
         ConfigStartContinue, FindVariable, FoundVariable, TakeEvent, WaitInterrupted
    <3>2. /\ ~bEntering
          /\ pc'[c] = "fwuReturn"
          /\ UNCHANGED <<eBridgeState, eRunStatus, bEntering, io, executed, cmd>>
      BY <3>1 DEF FwuPoll, bridgeVars, Goto, ClientTypeOK
    <3> QED
      BY <2>1, <2>4, <3>2 DEF EnteringInv, Locked
  <2>5. CASE pc[c] = "fwuReturn"
    <3>1. FwuReturn(c)
      BY <2>5 DEF ClientStep, TakeLockIoctl, ReleaseLockIoctl, CheckRunning, CallStop,
         Sleep, FwuCheck, FwuRequest, FwuArm, FwuPoll, Upload, FreeConfig, ParseConfig,
         CallReset, Started, StartTimesOut, CallContinue, ConfigStartCheck,
         ConfigStartContinue, FindVariable, FoundVariable, TakeEvent, WaitInterrupted
    <3>2. /\ executed' = "none"
          /\ UNCHANGED <<eBridgeState, eRunStatus, bEntering, io>>
          /\ pc'[c] \notin {"fwuArm", "fwuPoll", "fwuReturn"}
      BY <3>1 DEF FwuReturn, FwuGoesOn, SetSerialNumGoesOn, UpdateGoesOn, NextCommand,
         LastCommand, Goto, ClientTypeOK
    <3>3. io = "idle" /\ (eBridgeState = "Stop" => ~bEntering)
      BY <2>1, <2>5 DEF EnteringInv, Locked
    <3> QED
      BY <2>2, <3>2, <3>3 DEF EnteringInv, FwuStates
  <2> QED
    BY <2>3, <2>4, <2>5
<1>2. CASE pc[c] \notin Locked
  (* Then c can take the lock at most.                                     *)
  <2>1. ~Operates(c) /\ ~FwuRequest(c) /\ ~FwuArm(c) /\ ~FwuReturn(c)
    BY <1>2 DEF Operates, CallStop, CallContinue, CallReset, ConfigStartContinue,
       FwuRequest, FwuArm, FwuReturn, Locked, PlaceInv
  <2>2. UNCHANGED <<eBridgeState, eRunStatus, bEntering, io, executed>>
    BY <2>1, ClientStepBridge
  <2>3. pc'[c] \notin {"fwuArm", "fwuPoll", "fwuReturn"}
    BY <1>2, <2>1 DEF ClientStep, Operates, TakeLockIoctl, ReleaseLockIoctl, CheckRunning,
       Sleep, FwuCheck, FwuPoll, Upload, FreeConfig, ParseConfig, Started, StartTimesOut,
       ConfigStartCheck, FindVariable, FoundVariable, TakeEvent, WaitInterrupted, Goto,
       Return, ClientTypeOK, Locked
  <2>4. \A d \in Clients : d # c => pc'[d] = pc[d] /\ cmd'[d] = cmd[d]
    BY OthersStay
  <2> QED
    BY <1>2, <2>2, <2>3, <2>4 DEF EnteringInv, Locked
<1> QED
  BY <1>1, <1>2

(* No client continues a bridge that was not running before.               *)
LEMMA ClientStepRetry ==
    ASSUME ClientTypeOK, RetryInv, PlaceInv, NEW c \in Clients, ClientStep(c)
    PROVE  RetryInv'
<1>1. CASE CallStop(c) \/ CallContinue(c)
  BY <1>1 DEF CallStop, CallContinue, Stop, Continue, RetryInv
<1>2. CASE CallReset(c)
  BY <1>2 DEF CallReset, Reset, ClearDevices, RetryInv
<1>3. CASE ConfigStartContinue(c)
  BY <1>3 DEF ConfigStartContinue, PlaceInv
<1>4. CASE ~Operates(c)
  <2>1. UNCHANGED <<running, missing, init_retry>>
    BY <1>4, ClientStepBridge
  <2>2. SUFFICES ASSUME ~running,
                        \A d \in Clients :
                            pc[d] \notin FwuPlaces \cup {"stop", "sleep", "continue"}
                 PROVE  pc'[c] \notin FwuPlaces \cup {"stop", "sleep", "continue"}
    BY <2>1, OthersStay DEF RetryInv
  <2> USE <2>2 DEF FwuPlaces, Goto, Return, ClientTypeOK
  <2>3. CASE \/ TakeLockIoctl(c) \/ ReleaseLockIoctl(c) \/ CheckRunning(c)
             \/ Upload(c) \/ FreeConfig(c) \/ ParseConfig(c) \/ Started(c)
             \/ StartTimesOut(c)
    BY <2>3 DEF TakeLockIoctl, ReleaseLockIoctl, CheckRunning, Upload, FreeConfig,
       ParseConfig, Started, StartTimesOut
  <2>4. CASE \/ ConfigStartCheck(c) \/ FindVariable(c) \/ FoundVariable(c)
             \/ TakeEvent(c) \/ WaitInterrupted(c)
    BY <2>4 DEF ConfigStartCheck, FindVariable, FoundVariable, TakeEvent, WaitInterrupted
  <2> QED
    BY <1>4, <2>3, <2>4 DEF Operates, ClientStep, Sleep, FwuCheck, FwuRequest, FwuArm,
       FwuPoll, FwuReturn
<1> QED
  BY <1>1, <1>2, <1>3, <1>4 DEF Operates

-----------------------------------------------------------------------------
(* The inductive invariant                                                 *)

(* The invariant holds when the driver was loaded ...                      *)
LEMMA InitInv == Init => IndInv
<1> SUFFICES ASSUME Init PROVE IndInv
  OBVIOUS
<1> USE BridgeAssumption, IoctlAssumption DEF Init, BridgeInit
<1>1. BridgeFlagsOK
  BY DEF BridgeFlagsOK
<1>2. BridgeValuesOK
  BY DEF BridgeValuesOK, RunStates, ScanStates, IoPlaces, MAX_INIT_RETRIES, Sides
<1>3. ClientTypeOK
  BY DEF ClientTypeOK, Unlocked
<1>4. LockInv /\ PlaceInv /\ StopInv
  BY DEF LockInv, PlaceInv, StopInv, Locked, FwuPlaces
<1>5. CycleInv /\ BusInv /\ TableInv /\ RetryInv
  BY DEF CycleInv, BusInv, TableInv, RetryInv, FwuStates
<1>6. EnteringInv
  BY DEF EnteringInv, FwuStates
<1> QED
  BY <1>1, <1>2, <1>3, <1>4, <1>5, <1>6 DEF IndInv, TypeOK, BridgeTypeOK

(* ... a call of an ioctl keeps it ...                                     *)
LEMMA CallInv ==
    ASSUME "KB_CONFIG_START" \notin Ops, IndInv, NEW c \in Clients, NEW o \in Ops,
           Call(c, o)
    PROVE  IndInv'
<1> USE DEF IndInv, TypeOK
<1>1. /\ pc[c] = "user"
      /\ pc'[c] \in {"find", "event", "lock"}
      /\ \A d \in Clients : d # c => pc'[d] = pc[d] /\ op'[d] = op[d]
      /\ UNCHANGED <<bridgeVars, lockIoctl, cmd>>
  BY DEF Call, Goto, ClientTypeOK
<1>2. BridgeTypeOK'
  BY <1>1 DEF BridgeTypeOK, BridgeFlagsOK, BridgeValuesOK, bridgeVars
<1>3. ClientTypeOK'
  BY CallClientTypes
<1>4. LockInv' /\ PlaceInv' /\ StopInv'
  BY <1>1 DEF LockInv, PlaceInv, StopInv, Locked, FwuPlaces, bridgeVars
<1>5. CycleInv' /\ BusInv'
  BY <1>1 DEF CycleInv, BusInv, bridgeVars
<1>6. TableInv'
  BY <1>1, IoctlAssumption DEF TableInv, ConfigReplaced, ClientTypeOK, bridgeVars
<1>7. EnteringInv'
  BY <1>1 DEF EnteringInv, bridgeVars
<1>8. RetryInv'
  BY <1>1 DEF RetryInv, bridgeVars, FwuPlaces
<1> QED
  BY <1>2, <1>3, <1>4, <1>5, <1>6, <1>7, <1>8

(* ... and so does every step.                                             *)
LEMMA StepInv ==
    ASSUME SleepCoversCycle, "KB_CONFIG_START" \notin Ops, IndInv, [Next]_vars
    PROVE  IndInv'
<1> USE DEF IndInv, TypeOK, BridgeTypeOK
<1>1. CASE IoThread /\ UNCHANGED clientVars
  <2>1. TypeOK' /\ LockInv' /\ PlaceInv'
    BY <1>1, IoThreadFlags, IoThreadValues DEF ClientTypeOK, LockInv, PlaceInv, clientVars
  <2> QED
    BY <1>1, <2>1, IoThreadCycle, IoThreadStop, IoThreadEntering, IoThreadBus,
       IoThreadTable, IoThreadRetry
<1>2. ASSUME NEW c \in Clients, NEW o \in Ops, Call(c, o) PROVE IndInv'
  BY <1>2, CallInv
<1>3. ASSUME NEW c \in Clients, ClientStep(c) PROVE IndInv'
  BY <1>3, ClientStepFlags, ClientStepValues, ClientStepClientTypes, ClientStepLock,
     ClientStepPlace, ClientStepCycle, ClientStepStop, ClientStepEntering, ClientStepBus,
     ClientStepTable, ClientStepRetry
<1>4. CASE UNCHANGED vars
  <2>1. UNCHANGED <<bridgeVars, clientVars>>
    BY <1>4 DEF vars
  <2>2. BridgeTypeOK' /\ CycleInv' /\ BusInv'
    BY <2>1 DEF BridgeFlagsOK, BridgeValuesOK, CycleInv, BusInv, bridgeVars
  <2>3. ClientTypeOK' /\ LockInv' /\ PlaceInv' /\ StopInv'
    BY <2>1 DEF ClientTypeOK, LockInv, PlaceInv, StopInv, bridgeVars, clientVars
  <2>4. EnteringInv'
    BY <2>1 DEF EnteringInv, bridgeVars, clientVars
  <2>5. TableInv' /\ RetryInv'
    BY <2>1 DEF TableInv, ConfigReplaced, RetryInv, bridgeVars, clientVars
  <2> QED
    BY <2>2, <2>3, <2>4, <2>5
<1> QED
  BY <1>1, <1>2, <1>3, <1>4 DEF Next

-----------------------------------------------------------------------------
(* The theorems.  The premises: no cycle of the I/O thread is longer than  *)
(* the msleep() of the firmware ioctls, and nobody issues KB_CONFIG_START  *)
(* (which may continue a bridge that never ran, or is being updated).       *)

(* The invariant holds throughout.                                         *)
THEOREM Invariance ==
    ASSUME SleepCoversCycle, "KB_CONFIG_START" \notin Ops
    PROVE  Spec => []IndInv
<1>1. Init => IndInv
  BY InitInv
<1>2. IndInv /\ [Next]_vars => IndInv'
  BY StepInv
<1> QED
  BY <1>1, <1>2, PTL DEF Spec

(* Every variable keeps its type.                                          *)
THEOREM Types ==
    ASSUME SleepCoversCycle, "KB_CONFIG_START" \notin Ops
    PROVE  Spec => []TypeOK
<1>1. IndInv => TypeOK
  BY DEF IndInv
<1> QED
  BY <1>1, Invariance, PTL

(* PiBridgeMaster_FWU...() returns after its own command was executed      *)
(* once: the hand-over without a lock is safe.                             *)
THEOREM CommandsComplete ==
    ASSUME SleepCoversCycle, "KB_CONFIG_START" \notin Ops
    PROVE  Spec => []CommandCompleted
<1>1. IndInv => CommandCompleted
  BY DEF IndInv, EnteringInv, CommandCompleted
<1> QED
  BY <1>1, Invariance, PTL

(* Firmware is transferred only over a bus that nobody else uses.          *)
THEOREM FirmwareAlone ==
    ASSUME SleepCoversCycle, "KB_CONFIG_START" \notin Ops
    PROVE  Spec => []FirmwareOnQuietBus
<1>1. IndInv => FirmwareOnQuietBus
  <2> SUFFICES ASSUME IndInv PROVE FirmwareOnQuietBus
    OBVIOUS
  <2> USE DEF IndInv
  <2>1. ASSUME io \in FwuStates
        PROVE  eBridgeState = "Stop" /\ bus = "Gate"
    <3>1. eBridgeState = "Stop"
      BY <2>1 DEF CycleInv
    <3>2. PICK c \in Clients : pc[c] \in {"fwuPoll", "fwuReturn"}
      BY <2>1 DEF EnteringInv
    <3>3. eRunStatus # "EndOfConfig"
      BY <3>2 DEF StopInv, FwuPlaces
    <3> QED
      BY <3>1, <3>3 DEF BusInv
  <2>2. ASSUME NEW c \in Clients, pc[c] = "upload"
        PROVE  eBridgeState = "Stop" /\ bus = "Gate" /\ io = "idle"
    <3>1. eBridgeState = "Stop" /\ eRunStatus # "EndOfConfig" /\ io # "gate"
      BY <2>2 DEF StopInv
    <3>2. bus = "Gate"
      BY <3>1 DEF BusInv
    <3>3. \A d \in Clients : pc[d] \notin {"fwuPoll", "fwuReturn"}
      BY <2>2 DEF LockInv, Locked
    <3>4. io \notin FwuStates
      BY <3>3 DEF EnteringInv
    <3>5. io = "idle"
      BY <3>1, <3>4 DEF CycleInv, TypeOK, BridgeTypeOK, BridgeValuesOK, IoPlaces
    <3> QED
      BY <3>1, <3>2, <3>5
  <2> QED
    BY <2>1, <2>2 DEF FirmwareOnQuietBus
<1> QED
  BY <1>1, Invariance, PTL

(* The bridge runs with the offsets of the driver's configuration.         *)
THEOREM ConfigIsFresh ==
    ASSUME SleepCoversCycle, "KB_CONFIG_START" \notin Ops
    PROVE  Spec => []ConfigFresh
<1>1. IndInv => ConfigFresh
  BY DEF IndInv, CycleInv, TableInv, ConfigFresh
<1> QED
  BY <1>1, Invariance, PTL

(* It never runs with a device table that was not compared with one.       *)
THEOREM OnlyAdjustedRuns ==
    ASSUME SleepCoversCycle, "KB_CONFIG_START" \notin Ops
    PROVE  Spec => []RunsAdjusted
<1>1. IndInv => RunsAdjusted
  BY DEF IndInv, CycleInv, TableInv, RunsAdjusted
<1> QED
  BY <1>1, Invariance, PTL

(* The scan was repeated before a missing module is put up with.           *)
THEOREM MissingAfterRetry ==
    ASSUME SleepCoversCycle, "KB_CONFIG_START" \notin Ops
    PROVE  Spec => []RetriedBeforeMissing
<1>1. IndInv => RetriedBeforeMissing
  BY DEF IndInv, RetryInv, RetriedBeforeMissing
<1> QED
  BY <1>1, Invariance, PTL

(* The offsets do not change under a running bridge.                       *)
LEMMA LayoutStep ==
    ASSUME IndInv, [Next]_vars, running, running'
    PROVE  tableConf' = tableConf
<1> USE DEF IndInv, TypeOK, BridgeTypeOK
<1>1. CASE IoThread
  <2>1. CASE Scan
    BY <2>1, ScanStep DEF ScanUnchanged
  <2>2. CASE RunAdjust \/ RunAdjustDone
    BY <2>2 DEF RunAdjust, RunAdjustDone, Cycle, CycleInv, EnteringInv
  <2>3. CASE RunContinue \/ RunContinued
    BY <2>3 DEF RunContinue, RunContinued
  <2>4. CASE Exchange
    BY <2>4, ExchangeStep
  <2>5. CASE RunInitRetry
    BY <2>5 DEF RunInitRetry
  <2>6. CASE StopDataExchange \/ StoppedDataExchange \/ StartCommand \/ FinishCommand
    BY <2>6 DEF StopDataExchange, StoppedDataExchange, StartCommand, FinishCommand,
       StopUnchanged
  <2> QED
    BY <1>1, <2>1, <2>2, <2>3, <2>4, <2>5, <2>6 DEF IoThread, OwnStep, OrderedStep, Exchange
<1>2. ASSUME NEW c \in Clients, ClientStep(c) PROVE tableConf' = tableConf
  <2>1. CASE Operates(c)
    BY <2>1 DEF Operates, CallStop, CallContinue, CallReset, ConfigStartContinue, Stop,
       Continue, Reset
  <2>2. CASE ~Operates(c)
    BY <1>2, <2>2, ClientStepBridge
  <2> QED
    BY <2>1, <2>2
<1>3. CASE UNCHANGED bridgeVars
  BY <1>3 DEF bridgeVars
<1> QED
  BY <1>1, <1>2, <1>3 DEF Next, Call, vars

(* No step changes the offsets while RUNNING stays set.                    *)
THEOREM LayoutIsStable ==
    ASSUME SleepCoversCycle, "KB_CONFIG_START" \notin Ops
    PROVE  Spec => LayoutStable
<1>1. IndInv /\ [Next]_vars => [running /\ running' => tableConf' = tableConf]_vars
  BY LayoutStep
<1> QED
  BY <1>1, Invariance, PTL DEF Spec, LayoutStable

-----------------------------------------------------------------------------
(* The implementation of BridgeService                                     *)

(* Every cycle of the I/O thread is a step, or none, of the service.       *)
LEMMA IoThreadService ==
    ASSUME IndInv, IoThread
    PROVE  [Service!Next]_<<eBridgeState, tableConf>>
<1> USE DEF IndInv, TypeOK, BridgeTypeOK
<1>1. CASE Scan \/ RunContinue \/ RunContinued
  <2>1. UNCHANGED <<eBridgeState, tableConf>>
    BY <1>1, ScanStep DEF ScanUnchanged, RunContinue, RunContinued
  <2> QED
    BY <2>1
<1>2. CASE RunAdjust \/ RunAdjustDone
  <2>1. eBridgeState = "Init" /\ eBridgeState' = "Init"
    BY <1>2 DEF RunAdjust, RunAdjustDone, Cycle, CycleInv, EnteringInv, BridgeValuesOK
  <2>2. tableConf' = tableConf \/ tableConf' \in Configs \cup {NoConfig}
    BY <1>2 DEF RunAdjust, RunAdjustDone, BridgeValuesOK
  <2> QED
    BY <2>1, <2>2 DEF Service!Next, Service!Scan
<1>3. CASE Exchange
  <2>1. tableConf # Unset /\ tableConf' = tableConf
    BY <1>3, ExchangeStep DEF TableInv
  <2>2. eBridgeState \in {"Init", "Run"} /\ eBridgeState' \in {eBridgeState, "Run", "Stop"}
    BY <1>3, ExchangeStep DEF BridgeValuesOK
  <2> QED
    BY <2>1, <2>2 DEF Service!Next, Service!Start, Service!Stop
<1>4. CASE RunInitRetry
  <2>1. eBridgeState = "Init" /\ eBridgeState' = "Init"
    BY <1>4 DEF RunInitRetry, Cycle, EnteringInv, BridgeValuesOK
  <2>2. tableConf' \in {tableConf, Unset}
    BY <1>4 DEF RunInitRetry, ClearDevices
  <2> QED
    BY <2>1, <2>2 DEF Service!Next, Service!Reset
<1>5. CASE StopDataExchange \/ StoppedDataExchange \/ StartCommand \/ FinishCommand
  BY <1>5 DEF StopDataExchange, StoppedDataExchange, StartCommand, FinishCommand,
     StopUnchanged
<1> QED
  BY <1>1, <1>2, <1>3, <1>4, <1>5 DEF IoThread, OwnStep, OrderedStep, Exchange

(* So is every step of a client that holds the lock it needs.              *)
LEMMA ClientStepService ==
    ASSUME IndInv, NEW c \in Clients, ClientStep(c)
    PROVE  [Service!Next]_<<eBridgeState, tableConf>>
<1> USE DEF IndInv, TypeOK, BridgeTypeOK
<1>1. CASE CallStop(c)
  BY <1>1 DEF CallStop, Stop, StopInv, TableInv, Service!Next, Service!Stop
<1>2. CASE CallContinue(c)
  BY <1>2 DEF CallContinue, Continue, StopInv, TableInv, Service!Next, Service!Start
<1>3. CASE CallReset(c)
  BY <1>3 DEF CallReset, Reset, ClearDevices, Service!Next, Service!Reset
<1>4. CASE ConfigStartContinue(c)
  BY <1>4 DEF ConfigStartContinue, PlaceInv
<1>5. CASE ~Operates(c)
  BY <1>5, ClientStepBridge
<1> QED
  BY <1>1, <1>2, <1>3, <1>4, <1>5 DEF Operates

(* The bridge behaves as BridgeService says.                               *)
THEOREM BridgeImplementsService ==
    ASSUME SleepCoversCycle, "KB_CONFIG_START" \notin Ops
    PROVE  Spec => ServiceImplemented
<1>1. Init => Service!Init
  BY DEF Init, BridgeInit, Service!Init
<1>2. IndInv /\ [Next]_vars => [Service!Next]_<<eBridgeState, tableConf>>
  <2> SUFFICES ASSUME IndInv, [Next]_vars
               PROVE  [Service!Next]_<<eBridgeState, tableConf>>
    OBVIOUS
  <2>1. CASE UNCHANGED bridgeVars
    BY <2>1 DEF bridgeVars
  <2> QED
    BY <2>1, IoThreadService, ClientStepService DEF Next, Call, vars
<1> QED
  BY <1>1, <1>2, Invariance, PTL DEF Spec, ServiceImplemented, Service!Spec

-----------------------------------------------------------------------------
(* Events                                                                  *)

(* A reset owes nobody an event once it is over.                           *)
LEMMA ClientStepEvent ==
    ASSUME ~WaitTimesOut, ClientTypeOK, LockInv, PlaceInv, EventInv,
           NEW c \in Clients, ClientStep(c)
    PROVE  EventInv'
<1> DEFINE owes(d) == pc[d] \in {"reset", "wait"} /\ op[d] # "KB_INTERN_SET_SERIAL_NUM"
<1>1. LockInv'
  BY ClientStepLock
<1>2. lockIoctl' \in Clients \cup {Nobody}
  BY ClientStepClientTypes DEF ClientTypeOK
<1>3. ResetInProgress <=> \E d \in Clients : owes(d)
  BY IoctlAssumption DEF ResetInProgress, LockInv, Locked, ClientTypeOK
<1>4. ResetInProgress' <=> \E d \in Clients : owes(d)'
  BY <1>1, <1>2, IoctlAssumption DEF ResetInProgress, LockInv, Locked
<1>5. \A d \in Clients : d # c => (owes(d)' <=> owes(d))
  BY OthersStay
<1>6. CASE ParseConfig(c)
  <2>1. owes(c)' /\ stale' = Clients \ {c}
    BY <1>6 DEF ParseConfig, Goto, ClientTypeOK, PlaceInv
  <2>2. lockIoctl' = c
    BY <1>1, <2>1 DEF LockInv, Locked
  <2> QED
    BY <1>4, <2>1, <2>2 DEF EventInv
<1>7. CASE Started(c)
  <2>1. lockIoctl = c /\ pc[c] = "wait"
    BY <1>7 DEF Started, LockInv, Locked
  <2>2. ~owes(c)' /\ stale' = stale /\ pc'[c] = "unlock"
    BY <1>7 DEF Started, Goto, ClientTypeOK
  <2>3. ~ResetInProgress'
    BY <1>4, <1>5, <2>1, <2>2, OthersStay DEF LockInv, Locked
  <2>4. CASE op[c] = "KB_INTERN_SET_SERIAL_NUM"
    <3>1. ~ResetInProgress /\ resetEvent' = resetEvent
      BY <1>7, <2>1, <2>4 DEF Started, ResetInProgress
    <3> QED
      BY <2>2, <2>3, <3>1 DEF EventInv
  <2>5. CASE op[c] # "KB_INTERN_SET_SERIAL_NUM"
    <3>1. ResetInProgress
      BY <1>3, <2>1, <2>5
    <3>2. c \notin stale /\ resetEvent' = resetEvent \cup (Clients \ {c})
      BY <1>7, <2>1, <2>5, <3>1 DEF Started, EventInv
    <3> QED
      BY <2>2, <2>3, <3>2 DEF EventInv, ClientTypeOK
  <2> QED
    BY <2>4, <2>5
<1>8. CASE TakeEvent(c)
  <2>1. /\ lockIoctl' = lockIoctl
        /\ resetEvent' = resetEvent \ {c}
        /\ stale' = IF ResetInProgress THEN stale ELSE stale \ {c}
        /\ ~owes(c)
        /\ ~owes(c)'
    BY <1>8 DEF TakeEvent, Return, Goto, ClientTypeOK
  <2>2. ResetInProgress' <=> ResetInProgress
    BY <1>3, <1>4, <1>5, <2>1
  <2> QED
    BY <2>1, <2>2 DEF EventInv
<1>9. CASE ~ParseConfig(c) /\ ~Started(c) /\ ~TakeEvent(c)
  <2>1. UNCHANGED <<resetEvent, stale>>
    BY <1>9 DEF ClientStep, TakeLockIoctl, ReleaseLockIoctl, CheckRunning, CallStop, Sleep,
       FwuCheck, FwuRequest, FwuArm, FwuPoll, FwuReturn, Upload, FreeConfig, CallReset,
       StartTimesOut, CallContinue, ConfigStartCheck, ConfigStartContinue, FindVariable,
       FoundVariable, WaitInterrupted
  <2>2. owes(c)' <=> owes(c)
    <3> USE DEF Goto, Return, ClientTypeOK
    <3>1. CASE CallReset(c)
      BY <3>1 DEF CallReset, PlaceInv
    <3>2. CASE \/ TakeLockIoctl(c) \/ ReleaseLockIoctl(c) \/ CheckRunning(c)
               \/ CallStop(c) \/ Upload(c) \/ FreeConfig(c) \/ CallContinue(c)
      BY <3>2 DEF TakeLockIoctl, ReleaseLockIoctl, CheckRunning, CallStop, Upload,
         FreeConfig, CallContinue
    <3>3. CASE \/ ConfigStartCheck(c) \/ ConfigStartContinue(c) \/ FindVariable(c)
               \/ FoundVariable(c) \/ WaitInterrupted(c)
      BY <3>3 DEF ConfigStartCheck, ConfigStartContinue, FindVariable, FoundVariable,
         WaitInterrupted
    <3>4. CASE Sleep(c) \/ FwuCheck(c) \/ FwuReturn(c)
      BY <3>4 DEF Sleep, FwuCheck, FwuReturn, FwuGoesOn, SetSerialNumGoesOn,
         UpdateGoesOn, NextCommand, LastCommand
    <3>5. CASE FwuRequest(c) \/ FwuArm(c) \/ FwuPoll(c)
      BY <3>5 DEF FwuRequest, FwuArm, FwuPoll
    <3> QED
      BY <1>9, <3>1, <3>2, <3>3, <3>4, <3>5 DEF ClientStep, StartTimesOut
  <2>3. ResetInProgress' <=> ResetInProgress
    BY <1>3, <1>4, <1>5, <2>2
  <2>4. ASSUME ResetInProgress PROVE lockIoctl' = lockIoctl
    BY <1>1, <1>5, <2>2, <2>4, OthersStay DEF ResetInProgress, LockInv, Locked,
       ClientTypeOK
  <2> QED
    BY <2>1, <2>3, <2>4 DEF EventInv
<1> QED
  BY <1>6, <1>7, <1>8, <1>9

(* Nobody else changes what is owed.                                       *)
LEMMA StepEvent ==
    ASSUME ~WaitTimesOut, IndInv, EventInv, [Next]_vars
    PROVE  EventInv'
<1> USE DEF IndInv, TypeOK
<1>1. CASE UNCHANGED clientVars
  BY <1>1 DEF EventInv, ResetInProgress, clientVars
<1>2. ASSUME NEW c \in Clients, NEW o \in Ops, Call(c, o) PROVE EventInv'
  <2>1. /\ UNCHANGED <<lockIoctl, resetEvent, stale>>
        /\ pc[c] = "user"
        /\ \A d \in Clients : d # c => pc'[d] = pc[d] /\ op'[d] = op[d]
        /\ pc'[c] \notin {"reset", "wait"}
    BY <1>2 DEF Call, Goto, ClientTypeOK
  <2>2. ResetInProgress' <=> ResetInProgress
    BY <2>1 DEF ResetInProgress, ClientTypeOK
  <2> QED
    BY <2>1, <2>2 DEF EventInv
<1>3. ASSUME NEW c \in Clients, ClientStep(c) PROVE EventInv'
  BY <1>3, ClientStepEvent
<1> QED
  BY <1>1, <1>2, <1>3 DEF Next, vars

(* If every reset brings the bridge up in time, every other instance gets  *)
(* the event of every new configuration.                                   *)
THEOREM ResetsAnnounced ==
    ASSUME SleepCoversCycle, "KB_CONFIG_START" \notin Ops, ~WaitTimesOut
    PROVE  Spec => []ResetAnnounced
<1>1. Init => EventInv
  BY DEF Init, EventInv, ResetInProgress
<1>2. IndInv /\ EventInv /\ [Next]_vars => EventInv'
  BY StepEvent
<1>3. EventInv => ResetAnnounced
  BY DEF EventInv, ResetAnnounced
<1> QED
  BY <1>1, <1>2, <1>3, Invariance, PTL DEF Spec

=============================================================================
