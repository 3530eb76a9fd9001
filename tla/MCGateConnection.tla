-------------------------- MODULE MCGateConnection --------------------------
(* Small instances of GateConnection.                                      *)
EXTENDS GateConnection, TLC

(* The pieces of memory are interchangeable (used without liveness only).  *)
Symmetry == Permutations(Conns)

(* The counters to the neighbor and the status bits are read by no guard.  *)
WithoutOutCtr == <<connVars, workVars, rcvVars, fini, inputs>>
=============================================================================
