--------------------------- MODULE RequestService ---------------------------
(***************************************************************************)
(* What the ioctls that send a telegram to one module promise: one call is *)
(* served at a time, a call that was accepted is served once, by itself,   *)
(* and only then returns.                                                  *)
(***************************************************************************)
CONSTANTS
    Client,
    None            \* no answer

VARIABLES
    call,           \* [Client -> {"none", "asked", "served"}]
    answer          \* the caller whose request the answer belongs to

vars == <<call, answer>>

Init == call = [c \in Client |-> "none"] /\ answer = [c \in Client |-> None]

Ask(c) ==
    /\ \A d \in Client : call[d] = "none"
    /\ call' = [call EXCEPT ![c] = "asked"]
    /\ UNCHANGED answer

(* None: the module did not answer, or nothing that the caller gets.       *)
Serve(c) ==
    /\ call[c] = "asked"
    /\ call' = [call EXCEPT ![c] = "served"]
    /\ \E a \in {c, None} : answer' = [answer EXCEPT ![c] = a]

Return(c) ==
    /\ call[c] = "served"
    /\ call' = [call EXCEPT ![c] = "none"]
    /\ answer' = [answer EXCEPT ![c] = None]

Next == \E c \in Client : Ask(c) \/ Serve(c) \/ Return(c)
Spec == Init /\ [][Next]_vars
=============================================================================
