--------------------------------- MODULE Flat ---------------------------------
(***************************************************************************)
(* RevPi Flat: one thread that takes the outputs from the process image    *)
(* and drives a relay and one analog output, and one that reads the analog *)
(* input.  Unlike RevPi Compact it writes an output only once after it has *)
(* changed, knows no PICONTROL_DEV_FLAG_STOP_IO and no output watchdog.    *)
(* Left out: the inputs in the process image and their status bit.         *)
(***************************************************************************)
EXTENDS Integers

CONSTANTS
    Douts,          \* values of the output of the relay, 0 among them
    Level           \* values of the analog output, 0 among them

VARIABLES
    pi,             \* the outputs in the process image: dout, aout
    image,          \* flat->image: the outputs usr, and drv (ain, aoutErr)
    pin,            \* the relay
    dac,            \* the analog output
    dout,           \* the dout thread: where it is, dout_val and aout_val
    ain,            \* the ain thread: whether it holds a value
    reset,          \* where revpi_flat_reset is
    told            \* history: the DAC was to be written since the probe

vars == <<pi, image, pin, dac, dout, ain, reset, told>>

Nothing == -1
Outputs == [dout: Douts, aout: Level]
AllZero == [dout |-> 0, aout |-> 0]
Inputs == [ain: {0, 1}, aoutErr: BOOLEAN]
NoInputs == [ain |-> 0, aoutErr |-> FALSE]

TypeOK ==
    /\ pi \in Outputs
    /\ image \in [drv: Inputs, usr: Outputs]
    /\ pin \in {0, 1} /\ dac \in Level
    /\ dout \in [pc: {"take", "dout", "aout"}, dout: Douts \cup {Nothing},
                 aout: Level \cup {Nothing}]
    /\ ain \in {"read", "store"}
    /\ reset \in {"idle", "defaults"}
    /\ told \in BOOLEAN

(* After the probe and the reset in it: the relay is off, but the DAC has  *)
(* what it had before, after a second probe any value.                     *)
Init ==
    /\ pi \in Outputs
    /\ image = [drv |-> NoInputs, usr |-> AllZero]
    /\ pin = 0 /\ dac \in Level
    /\ dout = [pc |-> "take", dout |-> Nothing, aout |-> Nothing]
    /\ ain = "read"
    /\ reset = "idle"
    /\ told = FALSE

-----------------------------------------------------------------------------
(* revpi_flat_poll_dout.  A bug: what was taken is compared with itself.   *)
TakeFirst ==
    /\ dout.pc = "take"
    /\ image' = [image EXCEPT !.usr = pi]
    /\ dout' = [dout EXCEPT !.pc = "dout"]
    /\ UNCHANGED <<pi, pin, dac, ain, reset, told>>

(* Under lockPI: the inputs are shown, the outputs that have changed noted.*)
Take ==
    /\ dout.pc = "take"
    /\ image' = [image EXCEPT !.usr = pi]
    /\ dout' = [pc |-> "dout",
                dout |-> IF pi.dout # image.usr.dout THEN pi.dout ELSE Nothing,
                aout |-> IF pi.aout # image.usr.aout THEN pi.aout ELSE Nothing]
    /\ UNCHANGED <<pi, pin, dac, ain, reset, told>>

(* !!dout_val: the relay is on or off.                                     *)
Relay(v) == IF v = 0 THEN 0 ELSE 1
SetRelay ==
    /\ dout.pc = "dout"
    /\ pin' = IF dout.dout # Nothing THEN Relay(dout.dout) ELSE pin
    /\ dout' = [dout EXCEPT !.pc = "aout", !.dout = Nothing]
    /\ UNCHANGED <<pi, image, dac, ain, reset, told>>

KeepDac ==
    /\ dout.pc = "aout" /\ dout.aout = Nothing
    /\ dout' = [dout EXCEPT !.pc = "take"]
    /\ UNCHANGED <<pi, image, pin, dac, ain, reset, told>>

(* The error bit says whether the last write failed; it is not repeated.   *)
WriteDac(ok) ==
    /\ dout.pc = "aout" /\ dout.aout # Nothing
    /\ dac' = IF ok THEN image.usr.aout ELSE dac
    /\ image' = [image EXCEPT !.drv.aoutErr = ~ok]
    /\ dout' = [dout EXCEPT !.pc = "take", !.aout = Nothing]
    /\ told' = TRUE
    /\ UNCHANGED <<pi, pin, ain, reset>>

(* revpi_flat_poll_ain: a read that fails leaves the old value in place.   *)
ReadAin ==
    /\ ain = "read"
    /\ ain' = "store"
    /\ UNCHANGED <<pi, image, pin, dac, dout, reset, told>>

StoreAin ==
    /\ ain = "store"
    /\ image' = [image EXCEPT !.drv.ain = 1]
    /\ ain' = "read"
    /\ UNCHANGED <<pi, pin, dac, dout, reset, told>>

(* revpi_flat_reset: the device table without, the image under lockPI.     *)
ResetTable ==
    /\ reset = "idle"
    /\ reset' = "defaults"
    /\ UNCHANGED <<pi, image, pin, dac, dout, ain, told>>

(* All of it is 0, but for the defaults that the configuration has.        *)
ResetDefaults ==
    /\ reset = "defaults"
    /\ pi' \in Outputs
    /\ reset' = "idle"
    /\ UNCHANGED <<image, pin, dac, dout, ain, told>>

(* The applications.                                                       *)
Write ==
    /\ \/ \E v \in Douts : pi' = [pi EXCEPT !.dout = v]
       \/ \E v \in Level : pi' = [pi EXCEPT !.aout = v]
    /\ UNCHANGED <<image, pin, dac, dout, ain, reset, told>>

DoutThread == Take \/ SetRelay \/ KeepDac \/ \E ok \in BOOLEAN : WriteDac(ok)
AinThread == ReadAin \/ StoreAin
Next == DoutThread \/ AinThread \/ ResetTable \/ ResetDefaults \/ Write

-----------------------------------------------------------------------------
(* Once the thread has tried to write the analog output, it reports that   *)
(* the DAC does not show what it took last, as it is never written again   *)
(* until the value changes; before, the output is 0 and the DAC unknown.   *)
(* The relay always shows what was taken.                                  *)
FailureReported ==
    dout.pc = "take" =>
        /\ pin = Relay(image.usr.dout)
        /\ dac # image.usr.aout =>
              IF told THEN image.drv.aoutErr ELSE image.usr.aout = 0

(* The relay shows the process image.                                      *)
Shown == pin = Relay(pi.dout)
=============================================================================
