-------------------------- MODULE InternalTelegram --------------------------
(***************************************************************************)
(* The ioctls that hand one telegram to the I/O thread and wait for its    *)
(* answer: KB_DIO_RESET_COUNTER, KB_RO_GET_COUNTER, KB_AIO_CALIBRATE and   *)
(* KB_INTERN_IO_MSG use the mailbox "user" (requestUserTel, semUserTel),   *)
(* KB_CONFIG_SEND and KB_INTERN_GATE_MSG the mailbox "gate".  The I/O      *)
(* thread looks into both at the end of a cycle while the bridge runs or   *)
(* is stopped, never while it is initialised.                              *)
(*                                                                         *)
(* The bridge is reduced to its state; PiControlIoctl models how it gets   *)
(* there.  An answer is reduced to whose request it answers: the first     *)
(* half of its bytes, and the rest that a short answer does not fill.      *)
(***************************************************************************)
EXTENDS Naturals

CONSTANTS
    Clients,        \* the threads that issue these ioctls
    Addresses,      \* of the modules in the device table
    ModuleKind,     \* their kinds
    Live,           \* those that are active
    Nobody, Zero

AllKinds == {"dio", "di", "mio", "ro", "aio", "gate"}
Ops == {"reset_dio_counter", "get_ro_counter", "calibrate_aio",
        "send_internal_io_msg", "send_config", "send_internal_gate_msg"}

ASSUME TelegramAssumption ==
    /\ Live \subseteq Addresses
    /\ ModuleKind \in [Addresses -> AllKinds]
    /\ Nobody \notin Clients /\ Zero \notin Clients

(* addr may be one that no module has; empty: no counter or channel is     *)
(* named in it.                                                            *)
Requests == [op: Ops, addr: Addresses, empty: BOOLEAN]
Mailboxes == {"user", "gate"}

VARIABLES
    lockIoctl,      \* who holds piDev_g.lockIoctl
    bridge,         \* piCore_g.eBridgeState
    pc,             \* where each client is
    op,             \* its ioctl
    box,            \* the two mailboxes
    io,             \* the mailbox whose telegram the I/O thread sends
    result          \* what the last ioctl returned, until the next is called

tvars == <<lockIoctl, bridge, pc, op, box, io, result>>

Box(o) == IF o \in {"send_config", "send_internal_gate_msg"} THEN "gate" ELSE "user"
Who == Clients \cup {Nobody, Zero}
(* from: whose request it is; status: 0 and > 0 of a gate datagram differ; *)
(* first, rest: the two halves of the answer.                              *)
EmptyBox == [pending |-> FALSE, from |-> Nobody, status |-> "ok",
             first |-> Zero, rest |-> Zero, sem |-> 0]
NoResult == [status |-> "ok", first |-> Zero, rest |-> Zero]
NoResults == [c \in Clients |-> NoResult]

TelegramTypes ==
    /\ lockIoctl \in Clients \cup {Nobody}
    /\ bridge \in {"init", "run", "stop"}
    /\ pc \in [Clients -> {"idle", "post", "down", "collect", "upload"}]
    /\ op \in [Clients -> Ops \cup {Nobody}]
    /\ box \in [Mailboxes -> [pending: BOOLEAN, from: Clients \cup {Nobody},
                              status: {"ok", "none", "error"},
                              first: Who, rest: Who, sem: 0..1]]
    /\ io \in {"idle", "user", "gate"}
    /\ result \in [Clients -> [status: {"ok", "none", "error", "refused"},
                               first: Who, rest: Who]]

TelegramInit ==
    /\ lockIoctl = Nobody
    /\ bridge = "init"
    /\ pc = [c \in Clients |-> "idle"]
    /\ op = [c \in Clients |-> Nobody]
    /\ box = [b \in Mailboxes |-> EmptyBox]
    /\ io = "idle"
    /\ result = NoResults

-----------------------------------------------------------------------------
isRunning == bridge = "run"
Found(addr, kinds) == addr \in Live /\ ModuleKind[addr] \in kinds

(* Is the request accepted?                                                *)
reset_dio_counter(r) ==
    isRunning /\ Found(r.addr, {"mio", "dio", "di"}) /\ ~r.empty
get_ro_counter(r) == isRunning /\ Found(r.addr, {"ro"})
calibrate_aio(r) == isRunning /\ Found(r.addr, {"mio"}) /\ ~r.empty
send_internal_io_msg(r) == isRunning
send_config(r) == ~isRunning
send_internal_gate_msg(r) == TRUE

Accepted(r) ==
    CASE r.op = "reset_dio_counter" -> reset_dio_counter(r)
      [] r.op = "get_ro_counter" -> get_ro_counter(r)
      [] r.op = "calibrate_aio" -> calibrate_aio(r)
      [] r.op = "send_internal_io_msg" -> send_internal_io_msg(r)
      [] r.op = "send_config" -> send_config(r)
      [] r.op = "send_internal_gate_msg" -> send_internal_gate_msg(r)

(* The ioctl takes lockIoctl and checks its request.                       *)
Call(c, r) ==
    /\ pc[c] = "idle" /\ lockIoctl = Nobody
    /\ \/ /\ Accepted(r)
          /\ lockIoctl' = c
          /\ op' = [op EXCEPT ![c] = r.op]
          /\ pc' = [pc EXCEPT ![c] = "post"]
          /\ result' = NoResults
       \/ /\ ~Accepted(r)
          /\ result' = [NoResults EXCEPT ![c] = [NoResult EXCEPT !.status = "refused"]]
          /\ UNCHANGED <<lockIoctl, op, pc>>
    /\ UNCHANGED <<bridge, box, io>>

(* The lock of a mailbox: the I/O thread holds it during the transfer.     *)
Unlocked(b) == io # b

(* send_internal_io_telegram, send_internal_gate_telegram: the request.    *)
Post(c) ==
    /\ pc[c] = "post"
    /\ LET b == Box(op[c])
       IN  /\ Unlocked(b)
           /\ box' = [box EXCEPT ![b].pending = TRUE, ![b].from = c]
    /\ pc' = [pc EXCEPT ![c] = "down"]
    /\ UNCHANGED <<lockIoctl, bridge, op, io, result>>

(* A bug: down_interruptible(), and a signal that nobody looks for.         *)
DownInterruptible(c) ==
    /\ pc[c] = "down"
    /\ LET b == Box(op[c])
       IN  box' = [box EXCEPT ![b].sem = IF @ > 0 THEN @ - 1 ELSE @]
    /\ pc' = [pc EXCEPT ![c] = "collect"]
    /\ UNCHANGED <<lockIoctl, bridge, op, io, result>>

(* down(): not interruptible.                                              *)
Down(c) ==
    /\ pc[c] = "down"
    /\ LET b == Box(op[c])
       IN  box[b].sem > 0 /\ box' = [box EXCEPT ![b].sem = @ - 1]
    /\ pc' = [pc EXCEPT ![c] = "collect"]
    /\ UNCHANGED <<lockIoctl, bridge, op, io, result>>

(* Only some of the ioctls copy the answer; none does without a status of  *)
(* success.                                                                *)
Copies(o) == o \notin {"reset_dio_counter", "calibrate_aio"}
Collect(c) ==
    /\ pc[c] = "collect"
    /\ LET b == Box(op[c])
       IN  /\ Unlocked(b)
           /\ result' = [result EXCEPT ![c] =
                IF box[b].status = "ok" /\ Copies(op[c])
                THEN [status |-> "ok", first |-> box[b].first, rest |-> box[b].rest]
                ELSE [NoResult EXCEPT !.status = box[b].status]]
    /\ pc' = [pc EXCEPT ![c] = "idle"]
    /\ op' = [op EXCEPT ![c] = Nobody]
    /\ lockIoctl' = Nobody
    /\ UNCHANGED <<bridge, box, io>>

-----------------------------------------------------------------------------
(* A bug: I/O modules are asked only while the bridge runs.                *)
LookUserRunning ==
    /\ bridge \in {"run", "stop"} /\ io = "idle"
    /\ io' = IF isRunning THEN "user" ELSE "gate"
    /\ UNCHANGED <<lockIoctl, bridge, pc, op, box, result>>

(* RevPiDevice_handle_internal_telegrams: first the mailbox "user", then   *)
(* "gate".                                                                 *)
LookUser ==
    /\ bridge \in {"run", "stop"} /\ io = "idle"
    /\ io' = "user"
    /\ UNCHANGED <<lockIoctl, bridge, pc, op, box, result>>

NoTelegram(b) ==
    /\ io = b /\ ~box[b].pending
    /\ io' = IF b = "user" THEN "gate" ELSE "idle"
    /\ UNCHANGED <<lockIoctl, bridge, pc, op, box, result>>

(* A bug: the telegram stays pending.                                      *)
PostedAgain(b, r) == [box EXCEPT ![b] = [r EXCEPT !.sem = @ + 1]]

Posted(b, r) == [box EXCEPT ![b] = [r EXCEPT !.pending = FALSE, !.from = Nobody, !.sem = @ + 1]]

(* A bug: the buffer still holds the end of the answer before.             *)
UserTelegramUncleared(ok, full) ==
    /\ io = "user" /\ box["user"].pending
    /\ LET b == box["user"]
       IN  box' = Posted("user", IF ok THEN [b EXCEPT !.status = "ok", !.first = b.from,
                                                      !.rest = IF full THEN b.from ELSE @]
                                 ELSE [b EXCEPT !.status = "error"])
    /\ io' = "gate"
    /\ UNCHANGED <<lockIoctl, bridge, pc, op, result>>

(* The buffer is cleared before every telegram; a short answer fills only  *)
(* its first half.                                                         *)
UserTelegram(ok, full) ==
    /\ io = "user" /\ box["user"].pending
    /\ LET cleared == [box["user"] EXCEPT !.first = Zero, !.rest = Zero]
           from == cleared.from
       IN  box' = Posted("user",
                    IF ok THEN [cleared EXCEPT !.status = "ok", !.first = from,
                                               !.rest = IF full THEN from ELSE Zero]
                    ELSE [cleared EXCEPT !.status = "error"])
    /\ io' = "gate"
    /\ UNCHANGED <<lockIoctl, bridge, pc, op, result>>

(* A gate datagram has a length; the caller gets no more bytes than that.  *)
GateTelegram(status) ==
    /\ io = "gate" /\ box["gate"].pending
    /\ LET from == box["gate"].from
       IN  box' = Posted("gate",
                    IF status = "ok"
                    THEN [box["gate"] EXCEPT !.status = "ok", !.first = from, !.rest = from]
                    ELSE [box["gate"] EXCEPT !.status = status])
    /\ io' = "idle"
    /\ UNCHANGED <<lockIoctl, bridge, pc, op, result>>

(* The bridge comes up, or stops after too many errors; both between two   *)
(* cycles.                                                                 *)
InitDone ==
    /\ bridge = "init" /\ bridge' = "run"
    /\ UNCHANGED <<lockIoctl, pc, op, box, io, result>>

ErrorStop ==
    /\ bridge = "run" /\ io = "idle" /\ bridge' = "stop"
    /\ UNCHANGED <<lockIoctl, pc, op, box, io, result>>

(* KB_RESET and KB_CONFIG_STOP.  They take lockIoctl, and lockBridgeState, *)
(* so the I/O thread is between two cycles.                                *)
Manage ==
    /\ lockIoctl = Nobody /\ io = "idle"
    /\ \/ bridge' = "init"
       \/ isRunning /\ bridge' = "stop"
    /\ UNCHANGED <<lockIoctl, pc, op, box, io, result>>

(* KB_CONFIG_START takes no lockIoctl: it may start the bridge while       *)
(* another ioctl waits for its answer or transfers firmware.               *)
ConfigStart ==
    /\ ~isRunning /\ io = "idle"
    /\ bridge' = "run"
    /\ UNCHANGED <<lockIoctl, pc, op, box, io, result>>

LookIntoBoxes ==
    \/ LookUser
    \/ \E b \in Mailboxes : NoTelegram(b)
    \/ \E ok, full \in BOOLEAN : UserTelegram(ok, full)
    \/ \E status \in {"ok", "none", "error"} : GateTelegram(status)
ClientStep(c) == Post(c) \/ Down(c) \/ Collect(c)

-----------------------------------------------------------------------------
(* No byte of an answer belongs to the request of another client, however  *)
(* short the answer of the module is: the buffer is one for all of them.   *)
AnswerOwn ==
    \A c \in Clients :
        {result[c].first, result[c].rest} \subseteq {c, Zero}

(* An accepted request is served once, and the ioctl returns after that,   *)
(* with the answer to it.                                                  *)
Served(c) == pc[c] = "collect" \/ (pc[c] = "down" /\ box[Box(op[c])].sem > 0)
Service == INSTANCE RequestService WITH
    Client <- Clients,
    None <- Zero,
    call <- [c \in Clients |-> IF pc[c] \in {"post", "down", "collect"}
                               THEN IF Served(c) THEN "served" ELSE "asked" ELSE "none"],
    answer <- [c \in Clients |-> IF pc[c] \in {"down", "collect"} /\ Served(c)
                                    /\ box[Box(op[c])].status = "ok"
                                 THEN box[Box(op[c])].first ELSE Zero]
ServedOnce == Service!Spec
=============================================================================
