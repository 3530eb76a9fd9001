------------------------------- MODULE Compact -------------------------------
(***************************************************************************)
(* RevPi Compact: no bridge, but one thread that polls the digital inputs  *)
(* and writes the outputs every 250 us (revpi_compact_poll_io), and one    *)
(* that polls the analog inputs (revpi_compact_poll_ain).  They share a    *)
(* private image with each other and the process image, under lockPI, with *)
(* the applications.  A reset changes the configuration of the analog      *)
(* inputs below the thread that polls them, and waits until it has noticed.*)
(*                                                                         *)
(* Left out: the inputs in the process image, which are a copy of the      *)
(* private ones, and with them the digital inputs, and the status bit of   *)
(* the analog ones.                                                        *)
(***************************************************************************)
EXTENDS Integers, Sequences, FiniteSets

CONSTANTS
    Ain,            \* the analog inputs, numbers
    Aout,           \* the analog outputs
    Douts,          \* values of the digital outputs, 0 among them
    Level,          \* values of an analog output, u16, 0 among them
    Configs         \* the sets of analog inputs a configuration enables

VARIABLES
    pi,             \* the outputs in the process image: dout, aout
    image,          \* machine->image: the outputs usr, and drv (ain, aoutErr)
    prev,           \* prev.usr.aout of the io thread
    pin,            \* the digital outputs
    dac,            \* the analog outputs
    wanted,         \* revpi_compact_config_g
    config,         \* machine->config
    shouldReset,    \* machine->ain_should_reset
    done,           \* the completion machine->ain_reset
    chans, next,    \* of the ain thread: chan[], and i + 1
    io, ain, reset, \* where each thread is
    started,        \* the io thread was woken up
    stopped         \* PICONTROL_DEV_FLAG_STOP_IO

hw == <<pin, dac>>
cfg == <<wanted, config, shouldReset, done>>
poll == <<chans, next>>
vars == <<pi, image, prev, hw, cfg, poll, io, ain, reset, started, stopped>>

(* -1 in a u16 forces the first write of each analog output, unless this   *)
(* very value is to be written.                                            *)
Unwritten == 2^16 - 1
Outputs == [dout: Douts, aout: [Aout -> Level]]
AllZero == [dout |-> 0, aout |-> [a \in Aout |-> 0]]
(* What an analog input reads: 0, or whatever the converter measured.      *)
Measured == 1
Reading == {0, Measured}
NoInputs == [ain |-> [c \in Ain |-> 0], aoutErr |-> FALSE]
Inputs == [ain: [Ain -> Reading], aoutErr: BOOLEAN]
(* The enabled inputs in the order they are polled in.                     *)
Enabled(c) == {s \in [1..Cardinality(c) -> c] :
                  \A j, k \in 1..Cardinality(c) : j < k => s[j] < s[k]}

TypeOK ==
    /\ pi \in Outputs
    /\ image \in [drv: Inputs, usr: Outputs]
    /\ prev \in [Aout -> Level \cup {Unwritten}]
    /\ pin \in Douts /\ dac \in [Aout -> Level]
    /\ wanted \in Configs /\ config \in Configs
    /\ shouldReset \in BOOLEAN /\ done \in BOOLEAN
    /\ chans \in Seq(Ain)
    /\ next \in 1..(Len(chans) + 1)
    /\ io \in [pc: {"first", "flip", "flipping", "aout"}, left: SUBSET Aout, err: BOOLEAN]
    /\ ain \in [pc: {"off", "top", "complete", "poll", "store"}, got: Reading]
    /\ reset \in {"idle", "adjust", "config", "arm", "wait"}
    /\ started \in BOOLEAN /\ stopped \in BOOLEAN

(* After the probe: the threads exist, and the first reset is under way.   *)
Init ==
    /\ pi = AllZero
    /\ image = [drv |-> NoInputs, usr |-> AllZero]
    /\ prev = [a \in Aout |-> Unwritten]
    /\ pin \in Douts /\ dac \in [Aout -> Level]
    /\ wanted \in Configs /\ config = wanted
    /\ shouldReset = TRUE /\ done = FALSE
    /\ chans = <<>> /\ next = 1
    /\ io = [pc |-> "first", left |-> {}, err |-> FALSE]
    /\ ain = [pc |-> "off", got |-> 0]
    /\ reset = "adjust"
    /\ started = FALSE /\ stopped = FALSE

-----------------------------------------------------------------------------
(* The io thread drives the digital outputs on every cycle, and the analog *)
(* ones that have changed.                                                 *)
Drive(usr) ==
    /\ pin' = usr.dout
    /\ io' = [pc |-> "aout", left |-> {a \in Aout : usr.aout[a] # prev[a]}, err |-> FALSE]

(* flip_process_image tests the flag before it locks; the inputs polled    *)
(* before and the outputs are exchanged at once.                           *)
TestStop ==
    /\ io.pc \in {"first", "flip"}
    /\ IF stopped THEN Drive(image.usr)
       ELSE io' = [io EXCEPT !.pc = "flipping"] /\ UNCHANGED pin
    /\ UNCHANGED <<pi, image, prev, dac, cfg, poll, ain, reset, started, stopped>>

Flip ==
    /\ io.pc = "flipping"
    /\ image' = [image EXCEPT !.usr = pi]
    /\ Drive(pi)
    /\ UNCHANGED <<pi, prev, dac, cfg, poll, ain, reset, started, stopped>>

(* A bug: the output is remembered whether or not it was written.          *)
WriteAoutOnce(a, ok) ==
    /\ io.pc = "aout" /\ a \in io.left
    /\ dac' = IF ok THEN [dac EXCEPT ![a] = image.usr.aout[a]] ELSE dac
    /\ prev' = [prev EXCEPT ![a] = image.usr.aout[a]]
    /\ io' = [io EXCEPT !.left = @ \ {a}, !.err = @ \/ ~ok]
    /\ UNCHANGED <<pi, image, pin, cfg, poll, ain, reset, started, stopped>>

(* An analog output is written when it has changed; one that could not be  *)
(* written is tried again in the next cycle.                               *)
WriteAout(a, ok) ==
    /\ io.pc = "aout" /\ a \in io.left
    /\ dac' = IF ok THEN [dac EXCEPT ![a] = image.usr.aout[a]] ELSE dac
    /\ prev' = IF ok THEN [prev EXCEPT ![a] = image.usr.aout[a]] ELSE prev
    /\ io' = [io EXCEPT !.left = @ \ {a}, !.err = @ \/ ~ok]
    /\ UNCHANGED <<pi, image, pin, cfg, poll, ain, reset, started, stopped>>

EndCycle ==
    /\ io.pc = "aout" /\ io.left = {}
    /\ image' = [image EXCEPT !.drv.aoutErr = io.err]
    /\ io' = [io EXCEPT !.pc = "flip", !.err = FALSE]
    /\ UNCHANGED <<pi, prev, hw, cfg, poll, ain, reset, started, stopped>>

-----------------------------------------------------------------------------
(* The ain thread, at the top of its loop.                                 *)
AinTop ==
    /\ ain.pc = "top" /\ ~shouldReset /\ chans # <<>>
    /\ ain' = [ain EXCEPT !.pc = "poll"]
    /\ UNCHANGED <<pi, image, prev, hw, cfg, poll, io, reset, started, stopped>>

(* A bug: if nothing has changed the reset is not told.                    *)
AinAdoptChanged ==
    /\ ain.pc = "top" /\ shouldReset
    /\ chans' \in Enabled(config)
    /\ next' = 1
    /\ image' = [image EXCEPT !.drv.ain =
                    [c \in Ain |-> IF c \in config THEN @[c] ELSE 0]]
    /\ shouldReset' = FALSE
    /\ ain' = [ain EXCEPT !.pc = IF chans = chans' THEN "poll" ELSE "complete"]
    /\ UNCHANGED <<pi, prev, hw, wanted, config, done, io, reset, started, stopped>>

(* It adopts the configuration, and lets the disabled inputs read 0.       *)
AinAdopt ==
    /\ ain.pc = "top" /\ shouldReset
    /\ chans' \in Enabled(config)
    /\ next' = 1
    /\ image' = [image EXCEPT !.drv.ain =
                    [c \in Ain |-> IF c \in config THEN @[c] ELSE 0]]
    /\ shouldReset' = FALSE
    /\ ain' = [ain EXCEPT !.pc = "complete"]
    /\ UNCHANGED <<pi, prev, hw, wanted, config, done, io, reset, started, stopped>>

AinComplete ==
    /\ ain.pc = "complete"
    /\ done' = TRUE
    /\ ain' = [ain EXCEPT !.pc = IF chans = <<>> THEN "top" ELSE "poll"]
    /\ UNCHANGED <<pi, image, prev, hw, wanted, config, shouldReset, poll, io, reset,
                   started, stopped>>

(* One input is read; one that could not be read is 0.                     *)
After == IF next < Len(chans) THEN next + 1 ELSE 1
AinPoll(ok) ==
    /\ ain.pc = "poll"
    /\ image' = [image EXCEPT !.drv.ain[chans[next]] = IF ok THEN @ ELSE 0]
    /\ IF ok THEN ain' = [pc |-> "store", got |-> Measured] /\ UNCHANGED next
             ELSE ain' = [pc |-> "top", got |-> 0] /\ next' = After
    /\ UNCHANGED <<pi, prev, hw, cfg, chans, io, reset, started, stopped>>

AinStore ==
    /\ ain.pc = "store"
    /\ image' = [image EXCEPT !.drv.ain[chans[next]] = ain.got]
    /\ ain' = [pc |-> "top", got |-> 0]
    /\ next' = After
    /\ UNCHANGED <<pi, prev, hw, cfg, chans, io, reset, started, stopped>>

-----------------------------------------------------------------------------
(* revpi_compact_reset: KB_RESET, which has read a configuration before.   *)
ResetStart ==
    /\ reset = "idle"
    /\ wanted' \in Configs
    /\ reset' = "adjust"
    /\ UNCHANGED <<pi, image, prev, hw, config, shouldReset, done, poll, io, ain,
                   started, stopped>>

(* Under lockPI: the device table, and the outputs of the process image,   *)
(* which get the defaults that the configuration has, and 0 without.       *)
ResetAdjust ==
    /\ reset = "adjust"
    /\ pi' \in Outputs
    /\ reset' = "config"
    /\ UNCHANGED <<image, prev, hw, cfg, poll, io, ain, started, stopped>>

ResetConfig ==
    /\ reset = "config"
    /\ config' = wanted
    /\ reset' = "arm"
    /\ UNCHANGED <<pi, image, prev, hw, wanted, shouldReset, done, poll, io, ain,
                   started, stopped>>

(* reinit_completion(), then the flag; the ain thread is woken up, by the  *)
(* first reset for the first time.                                         *)
ResetArm ==
    /\ reset = "arm"
    /\ done' = FALSE
    /\ shouldReset' = TRUE
    /\ ain' = IF ain.pc = "off" THEN [ain EXCEPT !.pc = "top"] ELSE ain
    /\ reset' = "wait"
    /\ UNCHANGED <<pi, image, prev, hw, wanted, config, poll, io, started, stopped>>

(* A bug: a thread that is asleep for long is not waited for.              *)
ResetWaitTimeout ==
    /\ reset = "wait"
    /\ done' = FALSE
    /\ reset' = "idle"
    /\ started' = TRUE
    /\ UNCHANGED <<pi, image, prev, hw, wanted, config, shouldReset, poll, io, ain, stopped>>

(* wait_for_completion(); after the first reset the io thread starts.      *)
ResetWait ==
    /\ reset = "wait" /\ done
    /\ done' = FALSE
    /\ reset' = "idle"
    /\ started' = TRUE
    /\ UNCHANGED <<pi, image, prev, hw, wanted, config, shouldReset, poll, io, ain, stopped>>

(* The applications.                                                       *)
Write ==
    /\ \/ \E v \in Douts : pi' = [pi EXCEPT !.dout = v]
       \/ \E a \in Aout, v \in Level : pi' = [pi EXCEPT !.aout[a] = v]
    /\ UNCHANGED <<image, prev, hw, cfg, poll, io, ain, reset, started, stopped>>

StopIO ==
    /\ stopped' = ~stopped
    /\ UNCHANGED <<pi, image, prev, hw, cfg, poll, io, ain, reset, started>>

IoThread ==
    /\ started
    /\ TestStop \/ Flip \/ EndCycle
       \/ \E a \in Aout, ok \in BOOLEAN : WriteAout(a, ok)
AinThread ==
    AinTop \/ AinAdopt \/ AinComplete \/ (\E ok \in BOOLEAN : AinPoll(ok)) \/ AinStore
Reset == ResetAdjust \/ ResetConfig \/ ResetArm \/ ResetWait
Next == IoThread \/ AinThread \/ ResetStart \/ Reset \/ Write \/ StopIO
Spec == Init /\ [][Next]_vars

(* The threads run, and a converter that is written to often works once.   *)
Fairness ==
    /\ WF_vars(IoThread) /\ WF_vars(AinThread) /\ WF_vars(Reset)
    /\ \A a \in Aout : SF_vars(WriteAout(a, TRUE))
FairSpec == Spec /\ Fairness

-----------------------------------------------------------------------------
(* When a reset has returned, the ain thread polls just the inputs that    *)
(* the new configuration enables, and all others read 0: no value that was *)
(* measured under the old one comes in late.                               *)
AinReflectsConfig ==
    reset = "idle" =>
        /\ chans \in Enabled(config)
        /\ \A c \in Ain \ config : image.drv.ain[c] = 0

(* 65535 is taken for written as long as no write has been successful.     *)
TakenForWritten(a, v) == v = Unwritten /\ prev[a] = Unwritten

(* After each cycle an analog output that does not show what the io thread *)
(* was told is reported, and is not forgotten.                             *)
FailureReported ==
    io.pc = "flip" =>
        \A a \in Aout : dac[a] # image.usr.aout[a] =>
            \/ image.drv.aoutErr /\ prev[a] # image.usr.aout[a]
            \/ TakenForWritten(a, image.usr.aout[a])

(* The hardware shows the outputs of the process image.                    *)
Shown ==
    ~stopped =>
        /\ pin = pi.dout
        /\ \A a \in Aout : dac[a] = pi.aout[a] \/ TakenForWritten(a, pi.aout[a])

(* The handshake of the reset with the ain thread ends, every time.        *)
ResetReturns == reset # "idle" ~> reset = "idle"
=============================================================================
