-------------------------- MODULE MCPiControlIoctl --------------------------
(* PiControlIoctl for TLC: the clients, and the contents of the            *)
(* configuration file, are interchangeable.                                *)
EXTENDS PiControlIoctl, TLC

Symmetry == Permutations(Clients) \cup Permutations(Configs)
=============================================================================
