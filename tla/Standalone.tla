------------------------------ MODULE Standalone ------------------------------
(***************************************************************************)
(* The machines without a bridge, RevPi Compact or RevPi Flat, as the      *)
(* platform device says when it is probed.  They share nothing but the     *)
(* names of their parts.                                                   *)
(***************************************************************************)
EXTENDS Integers, FiniteSets

CONSTANTS Ain, Aout, Douts, Level, Configs  \* as in Compact and Flat

ASSUME StandaloneAssumption ==
    /\ Ain \subseteq Nat /\ IsFiniteSet(Ain)
    /\ Configs \subseteq SUBSET Ain /\ Configs # {}
    /\ Douts \subseteq Nat /\ 0 \in Douts
    /\ Level \subseteq Nat /\ 0 \in Level

VARIABLES
    machine,        \* piDev_g.machine_type
    pi, image, pin, dac, ain, reset,
    prev, wanted, config, shouldReset, done, chans, next, io, started, stopped,
    dout, told

C == INSTANCE Compact
F == INSTANCE Flat

ofCompact == <<prev, wanted, config, shouldReset, done, chans, next, io, started, stopped>>
vars == <<machine, pi, image, pin, dac, ain, reset, ofCompact, dout, told>>

Init ==
    \/ /\ machine = "compact" /\ C!Init
       /\ dout = "none" /\ told = FALSE
    \/ /\ machine = "flat" /\ F!Init
       /\ prev = <<>> /\ wanted = {} /\ config = {} /\ shouldReset = FALSE /\ done = FALSE
       /\ chans = <<>> /\ next = 1 /\ io = "none" /\ started = FALSE /\ stopped = FALSE

Compact(A) == machine = "compact" /\ A /\ UNCHANGED <<machine, dout, told>>
Flat(A) == machine = "flat" /\ A /\ UNCHANGED <<machine, ofCompact>>
Next == Compact(C!Next) \/ Flat(F!Next)
Spec == Init /\ [][Next]_vars

(* The kernel schedules the threads; a converter that is written to again  *)
(* and again works once.                                                   *)
Fairness ==
    /\ WF_vars(Compact(C!IoThread)) /\ WF_vars(Compact(C!AinThread))
    /\ WF_vars(Compact(C!Reset))
    /\ \A a \in Aout : SF_vars(Compact(C!WriteAout(a, TRUE)))
    /\ WF_vars(Flat(F!DoutThread))
FairSpec == Spec /\ Fairness

-----------------------------------------------------------------------------
TypeOK == IF machine = "compact" THEN C!TypeOK ELSE F!TypeOK

(* After a reset of RevPi Compact has returned, no input that is disabled  *)
(* now shows a value that was measured before.                             *)
AinReflectsConfig == machine = "compact" => C!AinReflectsConfig

(* An analog output that could not be written is reported, on RevPi Flat   *)
(* until it is written with another value, on RevPi Compact until a retry  *)
(* succeeds.  Two gaps of the code are named: the DAC of RevPi Flat before *)
(* its first write, and the value 65535 of RevPi Compact before its first. *)
FailureReported ==
    IF machine = "compact" THEN C!FailureReported ELSE F!FailureReported

(* If the applications do not write any more, the digital outputs and, on  *)
(* RevPi Compact, the analog ones show what they have written last.        *)
OutputsFollow ==
    <>[][FALSE]_<<pi, stopped>> =>
        <>[](IF machine = "compact" THEN C!Shown ELSE F!Shown)

(* The reset of RevPi Compact waits for the ain thread, but not for ever.  *)
ResetReturns == machine = "compact" => (reset # "idle" ~> reset = "idle")
=============================================================================
