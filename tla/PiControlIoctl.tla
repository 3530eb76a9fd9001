--------------------------- MODULE PiControlIoctl ---------------------------
(***************************************************************************)
(* The ioctls of /dev/piControl0 that control the bridge, composed with    *)
(* the I/O thread of PiBridgeMaster.  A client is one open instance of the *)
(* device with the one thread that uses it.                                *)
(*                                                                         *)
(* A step of a client is what the code does between two points where       *)
(* another thread matters: taking piDev_g.lockIoctl, reading the RUNNING   *)
(* flag, a call that takes lockBridgeState, each write of the unlocked     *)
(* hand-over of a firmware command (PiBridgeMaster_FWU...), a sleep.       *)
(***************************************************************************)
EXTENDS PiBridgeMaster

CONSTANTS
    Clients,          \* the open instances of the device
    Ops,              \* the ioctls the clients use
    SleepCoversCycle, \* msleep(50) is longer than a cycle of the I/O thread
    WaitTimesOut,     \* ten seconds may be too short for the bridge to start
    Nobody

AllOps ==
    {"KB_RESET", "KB_INTERN_SET_SERIAL_NUM", "KB_UPDATE_DEVICE_FIRMWARE",
     "PICONTROL_UPLOAD_FIRMWARE", "KB_CONFIG_STOP", "KB_CONFIG_START",
     "KB_FIND_VARIABLE", "KB_WAIT_FOR_EVENT"}

ASSUME IoctlAssumption ==
    /\ Nobody \notin Clients
    /\ Ops \subseteq AllOps
    /\ SleepCoversCycle \in BOOLEAN
    /\ WaitTimesOut \in BOOLEAN

VARIABLES
    lockIoctl,      \* the holder of piDev_g.lockIoctl
    pc,             \* where each client is
    op,             \* the ioctl it is in, or "none"
    cmd,            \* the firmware command it issues, or "none"
    resetEvent,     \* the instances with piEvReset in their event list
    stale           \* history: the config was read anew and not announced

clientVars == <<lockIoctl, pc, op, cmd, resetEvent, stale>>
vars == <<bridgeVars, clientVars>>

(* The places of a client that holds lockIoctl.                            *)
Locked ==
    {"check", "stop", "sleep", "fwuCheck", "fwuRequest", "fwuArm", "fwuPoll",
     "fwuReturn", "upload", "continue", "free", "parse", "resetTwice", "reset",
     "wait", "unlock"}
Unlocked == {"user", "lock", "configStart", "startBridge", "find", "reading", "event"}

ClientTypeOK ==
    /\ lockIoctl \in Clients \cup {Nobody}
    /\ pc \in [Clients -> Locked \cup Unlocked]
    /\ op \in [Clients -> AllOps \cup {"none"}]
    /\ cmd \in [Clients -> FwuStates \cup {"none"}]
    /\ resetEvent \subseteq Clients
    /\ stale \subseteq Clients

TypeOK == BridgeTypeOK /\ ClientTypeOK

Goto(c, place) == pc' = [pc EXCEPT ![c] = place]

Return(c) == Goto(c, "user") /\ op' = [op EXCEPT ![c] = "none"]

-----------------------------------------------------------------------------
(* The entry of piControlIoctl(): of these ioctls only KB_RESET and        *)
(* KB_CONFIG_START are admitted while the bridge does not run (the others  *)
(* return -EAGAIN).                                                        *)
Call(c, o) ==
    /\ pc[c] = "user"
    /\ o \in Ops
    /\ running \/ o \in {"KB_RESET", "KB_CONFIG_START"}
    /\ o \in {"KB_CONFIG_STOP", "KB_CONFIG_START"} => GateSupported
    /\ op' = [op EXCEPT ![c] = o]
    /\ Goto(c, CASE o = "KB_CONFIG_START" -> "configStart"
                 [] o = "KB_FIND_VARIABLE" -> "find"
                 [] o = "KB_WAIT_FOR_EVENT" -> "event"
                 [] OTHER -> "lock")
    /\ UNCHANGED <<bridgeVars, lockIoctl, cmd, resetEvent, stale>>

TakeLockIoctl(c) ==
    /\ pc[c] = "lock"
    /\ lockIoctl = Nobody
    /\ lockIoctl' = c
    /\ Goto(c, "check")
    /\ UNCHANGED <<bridgeVars, op, cmd, resetEvent, stale>>

ReleaseLockIoctl(c) ==
    /\ pc[c] = "unlock"
    /\ lockIoctl' = Nobody
    /\ Return(c)
    /\ UNCHANGED <<bridgeVars, cmd, resetEvent, stale>>

(* isRunning() under lockIoctl.  KB_RESET goes on without it, the others   *)
(* give up.  An upload gives up as well if the device or the firmware file *)
(* is missing.                                                             *)
CheckRunning(c) ==
    /\ pc[c] = "check"
    /\ \/ running /\ Goto(c, "stop")
       \/ ~running /\ op[c] = "KB_RESET" /\ Goto(c, "free")
       \/ ~running /\ op[c] # "KB_RESET" /\ Goto(c, "unlock")
       \/ op[c] = "PICONTROL_UPLOAD_FIRMWARE" /\ Goto(c, "unlock")
    /\ UNCHANGED <<bridgeVars, lockIoctl, op, cmd, resetEvent, stale>>

CallStop(c) ==
    /\ pc[c] = "stop"
    /\ Stop
    /\ Goto(c, CASE op[c] = "KB_RESET" -> "free"
                 [] op[c] = "KB_CONFIG_STOP" -> "unlock"
                 [] OTHER -> "sleep")
    /\ UNCHANGED <<lockIoctl, op, cmd, resetEvent, stale>>

(* Mutant of Sleep: there is no msleep().                                  *)
SleepOmitted(c) ==
    /\ pc[c] = "sleep"
    /\ \/ /\ op[c] # "PICONTROL_UPLOAD_FIRMWARE"
          /\ cmd' = [cmd EXCEPT ![c] = "FWUMode"]
          /\ Goto(c, "fwuCheck")
       \/ /\ op[c] = "PICONTROL_UPLOAD_FIRMWARE"
          /\ Goto(c, "upload")
          /\ UNCHANGED cmd
    /\ UNCHANGED <<bridgeVars, lockIoctl, op, resetEvent, stale>>

(* msleep(50) or msleep(500) after Stop.  A cycle takes at most 45 ms      *)
(* (PICONTROL_CYCLE_MAX_DURATION), so that the I/O thread has left the     *)
(* data exchange by then.                                                  *)
DataExchangeLeft ==
    /\ io = "idle"
    /\ ~(eBridgeState = "Stop" /\ eRunStatus = "EndOfConfig")

Sleep(c) ==
    /\ pc[c] = "sleep"
    /\ SleepCoversCycle => DataExchangeLeft
    /\ \/ /\ op[c] \in {"KB_INTERN_SET_SERIAL_NUM", "KB_UPDATE_DEVICE_FIRMWARE"}
          /\ cmd' = [cmd EXCEPT ![c] = "FWUMode"]
          /\ Goto(c, "fwuCheck")
       \/ /\ op[c] = "KB_UPDATE_DEVICE_FIRMWARE" \* no module needs an update
          /\ Goto(c, "continue")
          /\ UNCHANGED cmd
       \/ /\ op[c] = "PICONTROL_UPLOAD_FIRMWARE"
          /\ Goto(c, "upload")
          /\ UNCHANGED cmd
    /\ UNCHANGED <<bridgeVars, lockIoctl, op, resetEvent, stale>>

-----------------------------------------------------------------------------
(* The functions PiBridgeMaster_FWU...: without lockBridgeState they look  *)
(* at eBridgeState, set the parameters and eRunStatus_s, set bEntering_s,  *)
(* poll it, and return i32sRetVal.                                         *)
NextCommand(c, command) ==
    /\ cmd' = [cmd EXCEPT ![c] = command]
    /\ Goto(c, "fwuCheck")

LastCommand(c, place) ==
    /\ cmd' = [cmd EXCEPT ![c] = "none"]
    /\ Goto(c, place)

(* What the caller does with the result, ok or not, of its command.        *)
SetSerialNumGoesOn(c, ok) ==
    /\ op[c] = "KB_INTERN_SET_SERIAL_NUM"
    /\ CASE cmd[c] = "FWUMode" /\ ok -> NextCommand(c, "ProgramSerialNum")
         [] cmd[c] = "ProgramSerialNum" -> NextCommand(c, "FWUReset")
         [] OTHER -> LastCommand(c, "resetTwice")

UpdateGoesOn(c, ok) ==
    /\ op[c] = "KB_UPDATE_DEVICE_FIRMWARE"
    /\ CASE cmd[c] = "FWUMode" /\ ok -> NextCommand(c, "FWUFlashErase")
         [] cmd[c] = "FWUFlashErase" /\ ok -> NextCommand(c, "FWUFlashWrite")
         [] cmd[c] = "FWUFlashWrite" /\ ok -> NextCommand(c, "FWUReset")
         [] cmd[c] = "FWUReset" -> LastCommand(c, "free")
         [] OTHER -> LastCommand(c, "continue")

FwuGoesOn(c, ok) == SetSerialNumGoesOn(c, ok) \/ UpdateGoesOn(c, ok)

FwuCheck(c) ==
    /\ pc[c] = "fwuCheck"
    /\ IF eBridgeState = "Stop"
       THEN Goto(c, "fwuRequest") /\ UNCHANGED cmd
       ELSE FwuGoesOn(c, FALSE)
    /\ UNCHANGED <<bridgeVars, lockIoctl, op, resetEvent, stale>>

FwuRequest(c) ==
    /\ pc[c] = "fwuRequest"
    /\ eRunStatus' = cmd[c]
    /\ Goto(c, "fwuArm")
    /\ UNCHANGED <<eBridgeState, running, bEntering, init_retry, error_cnt, devCnt,
                   ethernet, missing, conf, tableConf, bus, gate, limit2, io, i32sRetVal,
                   executed, lockIoctl, op, cmd, resetEvent, stale>>

FwuArm(c) ==
    /\ pc[c] = "fwuArm"
    /\ bEntering' = TRUE
    /\ Goto(c, "fwuPoll")
    /\ UNCHANGED <<eBridgeState, running, eRunStatus, init_retry, error_cnt, devCnt,
                   ethernet, missing, conf, tableConf, bus, gate, limit2, io, i32sRetVal,
                   executed, lockIoctl, op, cmd, resetEvent, stale>>

(* Mutant of FwuPoll: one msleep() without the loop.                       *)
FwuPollOnce(c) ==
    /\ pc[c] = "fwuPoll"
    /\ Goto(c, "fwuReturn")
    /\ UNCHANGED <<bridgeVars, lockIoctl, op, cmd, resetEvent, stale>>

FwuPoll(c) ==
    /\ pc[c] = "fwuPoll"
    /\ ~bEntering
    /\ Goto(c, "fwuReturn")
    /\ UNCHANGED <<bridgeVars, lockIoctl, op, cmd, resetEvent, stale>>

FwuReturn(c) ==
    /\ pc[c] = "fwuReturn"
    /\ FwuGoesOn(c, i32sRetVal = "ok")
    /\ executed' = "none"
    /\ UNCHANGED <<eBridgeState, running, eRunStatus, bEntering, init_retry, error_cnt,
                   devCnt, ethernet, missing, conf, tableConf, bus, gate, limit2, io,
                   i32sRetVal, lockIoctl, op, resetEvent, stale>>

(* upload_firmware() talks to the module from the client's thread; the     *)
(* reset follows whatever it returns.                                      *)
Upload(c) ==
    /\ pc[c] = "upload"
    /\ Goto(c, "free")
    /\ UNCHANGED <<bridgeVars, lockIoctl, op, cmd, resetEvent, stale>>

-----------------------------------------------------------------------------
(* piControlReset() and the bare resets of KB_INTERN_SET_SERIAL_NUM.       *)
FreeConfig(c) ==
    /\ pc[c] = "free"
    /\ conf' = NoConfig
    /\ Goto(c, "parse")
    /\ UNCHANGED <<eBridgeState, running, eRunStatus, bEntering, init_retry, error_cnt,
                   devCnt, ethernet, missing, tableConf, bus, gate, limit2, io,
                   i32sRetVal, executed, lockIoctl, op, cmd, resetEvent, stale>>

ParseConfig(c) ==
    /\ pc[c] = "parse"
    /\ conf' \in Configs \cup {NoConfig}
    /\ stale' = Clients \ {c}
    /\ Goto(c, "reset")
    /\ UNCHANGED <<eBridgeState, running, eRunStatus, bEntering, init_retry, error_cnt,
                   devCnt, ethernet, missing, tableConf, bus, gate, limit2, io,
                   i32sRetVal, executed, lockIoctl, op, cmd, resetEvent>>

(* KB_INTERN_SET_SERIAL_NUM resets twice, half a second apart.             *)
CallReset(c) ==
    /\ \/ pc[c] = "resetTwice" /\ Goto(c, "reset")
       \/ pc[c] = "reset" /\ Goto(c, "wait")
    /\ Reset
    /\ UNCHANGED <<lockIoctl, op, cmd, resetEvent, stale>>

(* Mutant of Started: nobody is told.                                      *)
StartedSilently(c) ==
    /\ pc[c] = "wait"
    /\ running
    /\ Goto(c, "unlock")
    /\ UNCHANGED <<bridgeVars, lockIoctl, op, cmd, resetEvent, stale>>

(* waitRunning(10000); piControlReset() then tells the other instances.    *)
Started(c) ==
    /\ pc[c] = "wait"
    /\ running
    /\ IF op[c] = "KB_INTERN_SET_SERIAL_NUM"
       THEN UNCHANGED resetEvent
       ELSE resetEvent' = resetEvent \cup (Clients \ {c})
    /\ Goto(c, "unlock")
    /\ UNCHANGED <<bridgeVars, lockIoctl, op, cmd, stale>>

StartTimesOut(c) ==
    /\ WaitTimesOut
    /\ pc[c] = "wait"
    /\ ~running
    /\ Goto(c, "unlock")
    /\ UNCHANGED <<bridgeVars, lockIoctl, op, cmd, resetEvent, stale>>

(* The end of KB_UPDATE_DEVICE_FIRMWARE when nothing was updated.          *)
CallContinue(c) ==
    /\ pc[c] = "continue"
    /\ Continue
    /\ Goto(c, "unlock")
    /\ UNCHANGED <<lockIoctl, op, cmd, resetEvent, stale>>

-----------------------------------------------------------------------------
(* KB_CONFIG_START takes no lockIoctl.                                     *)
ConfigStartCheck(c) ==
    /\ pc[c] = "configStart"
    /\ \/ running /\ Return(c)
       \/ ~running /\ Goto(c, "startBridge") /\ UNCHANGED op
    /\ UNCHANGED <<bridgeVars, lockIoctl, cmd, resetEvent, stale>>

ConfigStartContinue(c) ==
    /\ pc[c] = "startBridge"
    /\ Continue
    /\ Return(c)
    /\ UNCHANGED <<lockIoctl, cmd, resetEvent, stale>>

(* KB_FIND_VARIABLE and KB_SET_EXPORTED_OUTPUTS walk through ent or cl     *)
(* without lockIoctl, after a look whether the pointer is NULL.            *)
FindVariable(c) ==
    /\ pc[c] = "find"
    /\ \/ conf = NoConfig /\ Return(c)
       \/ conf # NoConfig /\ Goto(c, "reading") /\ UNCHANGED op
    /\ UNCHANGED <<bridgeVars, lockIoctl, cmd, resetEvent, stale>>

FoundVariable(c) ==
    /\ pc[c] = "reading"
    /\ Return(c)
    /\ UNCHANGED <<bridgeVars, lockIoctl, cmd, resetEvent, stale>>

(* Between the new configuration of piControlReset() and its announcement. *)
ResetInProgress ==
    /\ lockIoctl # Nobody
    /\ pc[lockIoctl] \in {"reset", "wait"}
    /\ op[lockIoctl] # "KB_INTERN_SET_SERIAL_NUM"

(* KB_WAIT_FOR_EVENT returns the first event of the instance's list.  An   *)
(* event taken while a reset is on its way does not announce that reset.   *)
TakeEvent(c) ==
    /\ pc[c] = "event"
    /\ c \in resetEvent
    /\ resetEvent' = resetEvent \ {c}
    /\ stale' = IF ResetInProgress THEN stale ELSE stale \ {c}
    /\ Return(c)
    /\ UNCHANGED <<bridgeVars, lockIoctl, cmd>>

WaitInterrupted(c) ==
    /\ pc[c] = "event"
    /\ Return(c)
    /\ UNCHANGED <<bridgeVars, lockIoctl, cmd, resetEvent, stale>>

-----------------------------------------------------------------------------
(* What a client that is inside an ioctl does next.                        *)
ClientStep(c) ==
    \/ TakeLockIoctl(c)
    \/ ReleaseLockIoctl(c)
    \/ CheckRunning(c)
    \/ CallStop(c)
    \/ Sleep(c)
    \/ FwuCheck(c)
    \/ FwuRequest(c)
    \/ FwuArm(c)
    \/ FwuPoll(c)
    \/ FwuReturn(c)
    \/ Upload(c)
    \/ FreeConfig(c)
    \/ ParseConfig(c)
    \/ CallReset(c)
    \/ Started(c)
    \/ StartTimesOut(c)
    \/ CallContinue(c)
    \/ ConfigStartCheck(c)
    \/ ConfigStartContinue(c)
    \/ FindVariable(c)
    \/ FoundVariable(c)
    \/ TakeEvent(c)
    \/ WaitInterrupted(c)

Init ==
    /\ BridgeInit
    /\ lockIoctl = Nobody
    /\ pc = [c \in Clients |-> "user"]
    /\ op = [c \in Clients |-> "none"]
    /\ cmd = [c \in Clients |-> "none"]
    /\ resetEvent = {}
    /\ stale = {}

Next ==
    \/ IoThread /\ UNCHANGED clientVars
    \/ \E c \in Clients, o \in Ops : Call(c, o)
    \/ \E c \in Clients : ClientStep(c)

Spec == Init /\ [][Next]_vars

(* The I/O thread is a real-time kernel thread that never stops cycling.   *)
(* That the exchange succeeds now and then is about the modules, not about *)
(* the code: while one of them fails to answer, no exchange succeeds.      *)
(* A client inside an ioctl is scheduled; nobody has to issue an ioctl or  *)
(* to wake a client that waits for an event.  lockBridgeState is free      *)
(* while the I/O thread sleeps till its next cycle, and an rt_mutex queues *)
(* its waiters: who wants it gets it (strong fairness).                    *)
LockBridgeState(c) ==
    CallStop(c) \/ CallReset(c) \/ CallContinue(c) \/ ConfigStartContinue(c)

Fairness ==
    /\ WF_vars(IoThread /\ UNCHANGED clientVars)
    /\ SF_vars(RunExchange /\ UNCHANGED clientVars)
    /\ \A c \in Clients :
          /\ WF_vars(pc[c] # "event" /\ ClientStep(c))
          /\ SF_vars(LockBridgeState(c))

FairSpec == Spec /\ Fairness

-----------------------------------------------------------------------------
(* Properties                                                              *)

(* No ioctl lets the bridge run with the offsets of a configuration that   *)
(* is not the one the driver holds, once the reset that read it is over:   *)
(* KB_FIND_VARIABLE answers with the offsets the exchange uses.            *)
ConfigReplaced == lockIoctl # Nobody /\ pc[lockIoctl] \in {"parse", "reset"}
ConfigFresh == running /\ ~ConfigReplaced => tableConf = conf

(* While the bridge runs the offsets stay as they are: a client never sees *)
(* the process image change its layout without RUNNING being cleared.      *)
LayoutStable == [][running /\ running' => tableConf' = tableConf]_vars

(* Seen from outside, the bridge is the one of BridgeService: no order of  *)
(* resets, stops, updates and failed scans lets it run without offsets     *)
(* taken since the last reset, or change them outside of a start.          *)
Service == INSTANCE BridgeService WITH
    Layouts <- Configs \cup {NoConfig}, bridge <- eBridgeState, layout <- tableConf
ServiceImplemented == Service!Spec

(* A call PiBridgeMaster_FWU... returns only after the I/O thread executed *)
(* its command, exactly once, and nothing else since.                      *)
CommandCompleted == \A c \in Clients : pc[c] = "fwuReturn" => executed = cmd[c]

(* Firmware is transferred only when the bridge is stopped, the modules    *)
(* are back in the gate protocol, and, if the client transfers it itself,  *)
(* the I/O thread does not use the bus.                                    *)
FirmwareOnQuietBus ==
    LET uploading == \E c \in Clients : pc[c] = "upload"
    IN  /\ io \in FwuStates \/ uploading => eBridgeState = "Stop" /\ bus = "Gate"
        /\ uploading => io = "idle"

(* When the bridge runs with a configuration that was read anew, every     *)
(* other instance has the reset event in its list, or took it since.       *)
ResetAnnounced == running /\ ~ResetInProgress => stale \subseteq resetEvent

(* The mGate protocol is never started twice nor stopped twice.            *)
GateBalanced == gate # "Broken"

(* The configuration that an ioctl reads, or that the I/O thread compares  *)
(* the modules with, is not freed meanwhile: neither begins without one.   *)
ConfigNotFreedInUse ==
    (\E c \in Clients : pc[c] = "reading") \/ io = "adjust" => conf # NoConfig

(* Every ioctl that holds lockIoctl returns (and releases it).             *)
IoctlReturns == \A c \in Clients : (pc[c] \in Locked) ~> (pc[c] = "user")

(* The scan, its retry and the first exchange come to an end, unless the   *)
(* exchange fails for ever or somebody resets the bridge again.            *)
StartupCompletes ==
    (eBridgeState = "Init")
        ~> (eBridgeState # "Init" \/ \E c \in Clients : pc[c] \in {"resetTwice", "reset"})

-----------------------------------------------------------------------------
(* The inductive invariant of the devices whose clients never issue        *)
(* KB_CONFIG_START (PiControlIoctl_proofs proves it).                      *)

(* One client at a time is where lockIoctl is held.                        *)
LockInv == \A c \in Clients : pc[c] \in Locked <=> lockIoctl = c

FwuPlaces == {"fwuCheck", "fwuRequest", "fwuArm", "fwuPoll", "fwuReturn"}

(* Where a client can be in which ioctl.                                   *)
PlaceInv ==
    \A c \in Clients :
        /\ pc[c] \notin {"configStart", "startBridge"}
        /\ pc[c] \in {"upload", "free", "parse"} => op[c] # "KB_INTERN_SET_SERIAL_NUM"
        /\ pc[c] = "resetTwice" => op[c] = "KB_INTERN_SET_SERIAL_NUM"
        /\ pc[c] \in FwuPlaces =>
              /\ op[c] \in {"KB_INTERN_SET_SERIAL_NUM", "KB_UPDATE_DEVICE_FIRMWARE"}
              /\ cmd[c] \in FwuStates

(* What the I/O thread found when it took lockBridgeState stays true.      *)
CycleInv ==
    /\ running <=> eBridgeState = "Run"
    /\ io \in {"adjust", "start"} => eBridgeState # "Stop" /\ eRunStatus = "EndOfConfig"
    /\ io = "adjust" => bEntering
    /\ io = "continue" => eBridgeState # "Stop" /\ eRunStatus = "Continue"
    /\ io = "gate" => eBridgeState = "Stop" /\ eRunStatus = "EndOfConfig"
    /\ io \in FwuStates => eBridgeState = "Stop"

(* A client that found the bridge running keeps it from being initialised. *)
StopInv ==
    \A c \in Clients :
        /\ pc[c] = "stop" => eBridgeState \in {"Run", "Stop"}
        /\ pc[c] \in FwuPlaces \cup {"sleep", "upload", "continue"} =>
              eBridgeState = "Stop"
        /\ pc[c] \in FwuPlaces \cup {"upload", "continue"} =>
              eRunStatus # "EndOfConfig" /\ io # "gate"

(* bEntering_s belongs to the client that polls it while the bridge is     *)
(* stopped, and says which part of the command is done.                    *)
EnteringInv ==
    /\ eBridgeState = "Run" => ~bEntering /\ eRunStatus \in {"EndOfConfig", "Continue"}
    /\ eRunStatus = "Continue" => ~bEntering
    /\ eBridgeState = "Stop" /\ (\A c \in Clients : pc[c] # "fwuPoll") => ~bEntering
    /\ \/ executed = "none" /\ io \notin FwuStates
       \/ \E c \in Clients : pc[c] \in {"fwuPoll", "fwuReturn"}
    /\ \A c \in Clients :
          /\ pc[c] \in {"fwuArm", "fwuPoll"} => eRunStatus = cmd[c]
          /\ pc[c] = "fwuPoll" =>
                \/ bEntering /\ executed = "none" /\ io = "idle"
                \/ bEntering /\ executed = cmd[c] /\ io = cmd[c]
                \/ ~bEntering /\ executed = cmd[c] /\ io = "idle"
          /\ pc[c] = "fwuReturn" => executed = cmd[c] /\ io = "idle"

(* The modules are out of the gate protocol only if the I/O thread will    *)
(* notice a stop.                                                          *)
BusInv ==
    /\ eRunStatus = "Continue" => bus = "Gate" /\ eBridgeState # "Init"
    /\ eBridgeState = "Stop" /\ eRunStatus # "EndOfConfig" => bus = "Gate"

(* The offsets are those of the driver's configuration, unless a reset is  *)
(* about to read the device table anew.                                    *)
TableInv ==
    /\ ~ConfigReplaced => tableConf \in {Unset, conf}
    /\ eBridgeState # "Init" => tableConf # Unset
    /\ eRunStatus = "EndOfConfig" /\ ~bEntering => tableConf # Unset
    /\ io = "start" => tableConf # Unset

(* Whoever may set the bridge running again found it so, and it was so     *)
(* after a retry.                                                          *)
RetryInv ==
    \/ missing => init_retry = 0
    \/ /\ ~running
       /\ \A c \in Clients : pc[c] \notin FwuPlaces \cup {"stop", "sleep", "continue"}

(* Only piControlReset() itself may owe the others an event.               *)
EventInv ==
    IF ResetInProgress THEN lockIoctl \notin stale ELSE stale \subseteq resetEvent

IndInv ==
    /\ TypeOK
    /\ LockInv
    /\ PlaceInv
    /\ CycleInv
    /\ StopInv
    /\ EnteringInv
    /\ BusInv
    /\ TableInv
    /\ RetryInv

=============================================================================
