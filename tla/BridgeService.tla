---------------------------- MODULE BridgeService ----------------------------
(***************************************************************************)
(* What the bridge promises to its clients, whatever they and the modules  *)
(* do: it exchanges data only in a layout (the offsets of the modules in   *)
(* the process image) that was taken since it was last reset, and the      *)
(* layout changes only while the bridge is being initialised.              *)
(* PiControlIoctl implements it, see Service there.                        *)
(***************************************************************************)
CONSTANTS
    Layouts,    \* the layouts a configuration, or none, may lead to
    Unset       \* no layout was taken yet

VARIABLES
    bridge,     \* "Init", "Run" or "Stop"
    layout

Init ==
    /\ bridge = "Init"
    /\ layout = Unset

(* The bridge is scanned, and takes or forgets a layout.                   *)
Scan ==
    /\ bridge = "Init"
    /\ layout' \in Layouts \cup {Unset}
    /\ UNCHANGED bridge

Start ==
    /\ bridge \in {"Init", "Stop"}
    /\ layout # Unset
    /\ bridge' = "Run"
    /\ UNCHANGED layout

Stop ==
    /\ layout # Unset
    /\ bridge' = "Stop"
    /\ UNCHANGED layout

Reset ==
    /\ bridge' = "Init"
    /\ layout' = Unset

Next == Scan \/ Start \/ Stop \/ Reset

Spec == Init /\ [][Next]_<<bridge, layout>>
=============================================================================
