-------------------------- MODULE MCBridgeRequests --------------------------
(* Two clients, a DIO, an RO and a MIO that is not active.                 *)
EXTENDS BridgeRequests, TLC

CONSTANTS c1, c2, dio, ro, mio

Kinds == (dio :> "dio") @@ (ro :> "ro") @@ (mio :> "mio")
=============================================================================
