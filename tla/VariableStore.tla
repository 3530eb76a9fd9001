---------------------------- MODULE VariableStore ----------------------------
(***************************************************************************)
(* What the process image is to its users, who know of no offsets, bits    *)
(* and copy lists: a store of named variables.  It is filled with the      *)
(* defaults of the configuration when the bridge starts, an application    *)
(* writes one variable or all exported outputs, a module delivers its own  *)
(* inputs; a variable that nobody writes keeps its value.                  *)
(***************************************************************************)
EXTENDS Integers

CONSTANTS
    Files,          \* configurations: variable -> [bits, default, export, input, preset]
                    \* input: the address of the module that delivers it, or -1;
                    \* preset: it has its default when the store is filled
    Patterns,       \* values that are written, as sets of one-bits
    Written         \* the variables that applications write one by one

VARIABLES
    file,           \* the variables of the configuration in effect
    up,             \* the store can be used
    val             \* variable -> value, empty if it cannot be used

Defaults(f) == [n \in DOMAIN f |-> f[n].default]
Init == file \in Files /\ up \in BOOLEAN /\ val = (IF up THEN Defaults(file) ELSE <<>>)

Reset == file' \in Files /\ up' = FALSE /\ val' = <<>>
Filled ==
    /\ up'
    /\ DOMAIN val' = DOMAIN file'
    /\ \A n \in DOMAIN file' : file'[n].preset => val'[n] = file'[n].default
(* The modules have delivered their inputs already.                        *)
Start == ~up /\ Filled /\ UNCHANGED file
(* A machine without a bridge is started by the reset.                     *)
Restart == up /\ file' \in Files /\ Filled

(* One variable is written, all exported ones are, or the module with this *)
(* address delivers its inputs; no other variable changes, so that neither *)
(* a module nor the driver itself changes what an application wrote.       *)
Changed == {n \in DOMAIN file : val'[n] # val[n]}
Values(n) == {p \cap file[n].bits : p \in Patterns}
Write(n) == Changed \subseteq {n} /\ val'[n] \in Values(n)
Exported == {n \in DOMAIN file : file[n].export}
Export == Changed \subseteq Exported /\ \A n \in Exported : val'[n] \in Values(n)
Senders == {file[n].input : n \in DOMAIN file} \ {-1}
Deliver(address) == \A n \in Changed : file[n].input = address
Use ==
    /\ up /\ UNCHANGED <<file, up>>
    /\ \/ \E n \in Written \cap DOMAIN file : Write(n)
       \/ Export
       \/ \E address \in Senders : Deliver(address)

Next == Reset \/ Start \/ Restart \/ Use
Spec == Init /\ [][Next]_<<file, up, val>>
=============================================================================
