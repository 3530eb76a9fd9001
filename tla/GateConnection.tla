--------------------------- MODULE GateConnection ---------------------------
(***************************************************************************)
(* revpi_gate.c: the connection with the neighboring gateway on one        *)
(* network device.  Three threads of execution meet here: the receive      *)
(* thread, the two work items of a connection (send_work after 20 ms of    *)
(* silence, destroy_work after 80 ms), and the thread that calls           *)
(* revpi_gate_fini() and revpi_gate_init().  The list of connections is    *)
(* read under SRCU.                                                        *)
(*                                                                         *)
(* The neighbor and the network are arbitrary: packets of every kind with  *)
(* every counter arrive at any time, so a packet is received when the      *)
(* receive thread takes it from its queue.  A timer that is armed may fire *)
(* at any time, so an armed work item is one that may run.  KB_STOP_IO     *)
(* sets and clears its flag at any time, so a test of it (stopped) may     *)
(* come out either way.  The packet filter of a connection is left out.    *)
(***************************************************************************)
EXTENDS Naturals, FiniteSets

CONSTANTS
    Conns,          \* the memory for connections
    MaxCtr,         \* the counters go from 1 to MaxCtr (255 in the code)
    None

ASSUME GateAssumption ==
    /\ IsFiniteSet(Conns)
    /\ MaxCtr \in Nat \ {0}
    /\ None \notin Conns

VARIABLES
    list,           \* revpi_gate_connections
    state,          \* of each connection, or "free"
    revpi_dev,      \* the connections that found their RevPiDevice
    in_ctr, out_ctr,
    pending,        \* the work items that are queued or have their timer armed
    sending,        \* the connections whose send_work runs
    destroying,     \* where destroy_work of each connection runs, if it does
    waitsFor,       \* the SRCU readers synchronize_srcu() still waits for
    skb,            \* the packet that is processed, or None
    rcv,            \* where the receive thread is
    conn,           \* the connection it found, or None
    fini,           \* where revpi_gate_fini() is; "up" before, "down" after
    inputs,         \* of the process image: see TypeOK
    connected,      \* PICONTROL_STATUS_LEFT/RIGHT_GATEWAY
    tmp             \* the incremented out_ctr that a thread has at hand, or 0

connVars == <<list, state, revpi_dev, in_ctr>>
ctrVars == <<out_ctr, tmp>>
workVars == <<pending, sending, destroying, waitsFor>>
rcvVars == <<skb, rcv, conn>>
imageVars == <<inputs, connected>>
vars == <<connVars, ctrVars, workVars, rcvVars, fini, imageVars>>

Works == {"send", "destroy"}
Packets == [cmd : {"blank", "ID_Req", "ID_Resp", "cyclicPD"}, ctr : 1..MaxCtr]

(* inputs: the region is zero, holds what the neighbor sent, or what a     *)
(* neighbor left there that went away while I/O was stopped.               *)
TypeOK ==
    /\ list \subseteq Conns /\ revpi_dev \subseteq Conns
    /\ state \in [Conns -> {"free", "ID_REQ", "ID_RESP"}]
    /\ in_ctr \in [Conns -> 0..MaxCtr] /\ out_ctr \in [Conns -> 0..MaxCtr]
    /\ pending \subseteq Conns \X Works
    /\ sending \subseteq Conns
    /\ destroying \in [Conns -> {"no", "unlink", "synchronize", "sync", "cancel", "clear",
                                 "free", "wake"}]
    /\ waitsFor \in [Conns -> SUBSET {"rcv", "fini"}]
    /\ skb \in Packets \cup {None}
    /\ rcv \in {"idle", "process", "ID_Req", "idReqSend", "ID_Resp", "idRespSend",
                "cyclicPD", "cyclicSend", "stopped"}
    /\ conn \in Conns \cup {None}
    /\ fini \in {"up", "stopThread", "destroyAll", "unlock", "check", "asleep", "down"}
    /\ inputs \in {"zero", "stored", "left"} /\ connected \in BOOLEAN
    /\ tmp \in [Conns -> [{"rcv", "send"} -> 0..MaxCtr]]

-----------------------------------------------------------------------------
(* Delayed work: mod_delayed_work() arms the timer anew, or queues the     *)
(* item at once if the delay is 0.  An item never runs twice at a time.    *)
Schedule(c, works) == pending' = pending \cup ({c} \X works)
Dequeue(c, works) == pending' = pending \ ({c} \X works)

(* SRCU: synchronize_srcu() waits for the readers that are there when it   *)
(* is called.                                                              *)
Readers == (IF rcv \in {"idle", "stopped"} THEN {} ELSE {"rcv"})
           \cup (IF fini = "unlock" THEN {"fini"} ELSE {})
LeaveSrcu(reader) == waitsFor' = [c \in Conns |-> waitsFor[c] \ {reader}]

(* revpi_gate_create_packet() increments out_ctr, skipping 0: the receive  *)
(* thread and send_work read it, and write it, without a lock.  Then they  *)
(* put it on the packet.                                                   *)
Increment(c, who) == tmp' = [tmp EXCEPT ![c][who] = (out_ctr[c] % MaxCtr) + 1]

Stamp(c, who) ==
    /\ out_ctr' = [out_ctr EXCEPT ![c] = tmp[c][who]]
    /\ tmp' = [tmp EXCEPT ![c][who] = 0]

(* revpi_core_gate_connected() does nothing without a RevPiDevice.         *)
GateConnected(c, yes) == connected' = IF c \in revpi_dev THEN yes ELSE connected

-----------------------------------------------------------------------------
(* revpi_gate_send_work()                                                  *)
SendCreate(c) ==
    /\ <<c, "send">> \in pending
    /\ c \notin sending
    /\ Dequeue(c, {"send"})
    /\ \/ Increment(c, "send") /\ sending' = sending \cup {c}
       \/ UNCHANGED <<tmp, sending>>                    \* no memory
    /\ UNCHANGED <<connVars, out_ctr, destroying, waitsFor, rcvVars, fini, imageVars>>

SendXmit(c) ==
    /\ c \in sending
    /\ Stamp(c, "send")
    /\ sending' = sending \ {c}
    /\ UNCHANGED <<connVars, pending, destroying, waitsFor, rcvVars, fini, imageVars>>

-----------------------------------------------------------------------------
(* revpi_gate_destroy_work()                                               *)
DestroyGoto(c, place) == destroying' = [destroying EXCEPT ![c] = place]

DestroyStart(c) ==
    /\ <<c, "destroy">> \in pending
    /\ destroying[c] = "no"
    /\ Dequeue(c, {"destroy"})
    /\ GateConnected(c, FALSE)
    /\ DestroyGoto(c, "unlink")
    /\ UNCHANGED <<connVars, ctrVars, sending, waitsFor, rcvVars, fini, inputs>>

DestroyUnlink(c) ==
    /\ destroying[c] = "unlink"
    /\ list' = list \ {c}
    /\ DestroyGoto(c, "synchronize")
    /\ UNCHANGED <<state, revpi_dev, in_ctr, ctrVars, pending, sending, waitsFor, rcvVars,
                   fini, imageVars>>

DestroySynchronize(c) ==
    /\ destroying[c] = "synchronize"
    /\ waitsFor' = [waitsFor EXCEPT ![c] = Readers]
    /\ DestroyGoto(c, "sync")
    /\ UNCHANGED <<connVars, ctrVars, pending, sending, rcvVars, fini, imageVars>>

(* Mutant of DestroySynchronized: the grace period is not awaited.         *)
DestroyUnsynchronized(c) ==
    /\ destroying[c] = "sync"
    /\ waitsFor' = [waitsFor EXCEPT ![c] = {}]
    /\ DestroyGoto(c, "cancel")
    /\ UNCHANGED <<connVars, ctrVars, pending, sending, rcvVars, fini, imageVars>>

DestroySynchronized(c) ==
    /\ destroying[c] = "sync"
    /\ waitsFor[c] = {}
    /\ DestroyGoto(c, "cancel")
    /\ UNCHANGED <<connVars, ctrVars, pending, sending, waitsFor, rcvVars, fini, imageVars>>

(* A running send_work is awaited, and destroy_work, which the receive     *)
(* thread may have scheduled again, is cancelled.                          *)
DestroyCancel(c) ==
    /\ destroying[c] = "cancel"
    /\ c \notin sending
    /\ Dequeue(c, Works)
    /\ DestroyGoto(c, "clear")
    /\ UNCHANGED <<connVars, ctrVars, sending, waitsFor, rcvVars, fini, imageVars>>

(* Mutant of DestroyClear: inputs are cleared only while data is exchanged.*)
DestroyClearConnected(c, stopped) ==
    /\ destroying[c] = "clear"
    /\ inputs' = IF c \notin revpi_dev \/ inputs = "zero" THEN inputs
                 ELSE IF stopped THEN "left"
                 ELSE IF state[c] = "ID_RESP" THEN "zero" ELSE inputs
    /\ DestroyGoto(c, "free")
    /\ UNCHANGED <<connVars, ctrVars, pending, sending, waitsFor, rcvVars, fini, connected>>

DestroyClear(c, stopped) ==
    /\ destroying[c] = "clear"
    /\ inputs' = IF c \notin revpi_dev \/ inputs = "zero" THEN inputs
                 ELSE IF stopped THEN "left" ELSE "zero"
    /\ DestroyGoto(c, "free")
    /\ UNCHANGED <<connVars, ctrVars, pending, sending, waitsFor, rcvVars, fini, connected>>

(* The content of the connection is zeroed here, not by kzalloc().         *)
DestroyFree(c) ==
    /\ destroying[c] = "free"
    /\ state' = [state EXCEPT ![c] = "free"]
    /\ revpi_dev' = revpi_dev \ {c}
    /\ in_ctr' = [in_ctr EXCEPT ![c] = 0]
    /\ out_ctr' = [out_ctr EXCEPT ![c] = 0]
    /\ DestroyGoto(c, "wake")
    /\ UNCHANGED <<list, tmp, pending, sending, waitsFor, rcvVars, fini, imageVars>>

DestroyWake(c) ==
    /\ destroying[c] = "wake"
    /\ fini' = IF fini = "asleep" THEN "check" ELSE fini
    /\ DestroyGoto(c, "no")
    /\ UNCHANGED <<connVars, ctrVars, pending, sending, waitsFor, rcvVars, imageVars>>

-----------------------------------------------------------------------------
(* The packet handler, and the receive thread: revpi_gate_process().       *)
(* Mutant of RcvFind: a connection without data exchange is not found.     *)
RcvFindEstablished(p) ==
    /\ rcv = "idle" /\ fini = "up"
    /\ skb' = p
    /\ LET established == {c \in list : state[c] = "ID_RESP"}
       IN  IF established = {} THEN conn' = None ELSE conn' \in established
    /\ rcv' = "process"
    /\ UNCHANGED <<connVars, ctrVars, workVars, fini, imageVars>>

RcvFind(p) ==
    /\ rcv = "idle" /\ fini = "up"
    /\ skb' = p
    /\ IF list = {} THEN conn' = None ELSE conn' \in list
    /\ rcv' = "process"
    /\ UNCHANGED <<connVars, ctrVars, workVars, fini, imageVars>>

(* The packet is done with; nothing of the connection is used any more.    *)
Done ==
    /\ rcv' = "idle" /\ skb' = None /\ conn' = None
    /\ LeaveSrcu("rcv")

RcvBlank ==
    /\ rcv = "process" /\ skb.cmd = "blank"
    /\ Done
    /\ UNCHANGED <<connVars, ctrVars, pending, sending, destroying, fini, imageVars>>

(* A repeated data packet is answered by send_work at once.                *)
Duplicate ==
    /\ conn # None
    /\ skb.ctr = in_ctr[conn]
    /\ state[conn] = "ID_RESP"
    /\ skb.cmd = "cyclicPD"

RcvDuplicate ==
    /\ rcv = "process"
    /\ Duplicate
    /\ Schedule(conn, {"send"})
    /\ Done
    /\ UNCHANGED <<connVars, ctrVars, sending, destroying, fini, imageVars>>

(* The counter is taken over, whatever it is, and the packet is processed. *)
RcvDispatch ==
    /\ rcv = "process" /\ skb.cmd # "blank"
    /\ ~Duplicate
    /\ in_ctr' = IF conn = None THEN in_ctr ELSE [in_ctr EXCEPT ![conn] = skb.ctr]
    /\ rcv' = skb.cmd
    /\ UNCHANGED <<list, state, revpi_dev, ctrVars, workVars, skb, conn, fini, imageVars>>

(* Packets dropped without effect: without a connection, in the wrong      *)
(* state, truncated, without carrier, or when there is no memory.          *)
RcvDrop ==
    /\ rcv \in {"ID_Req", "ID_Resp", "cyclicPD"}
    /\ Done
    /\ UNCHANGED <<connVars, ctrVars, pending, sending, destroying, fini, imageVars>>

(* revpi_gate_process_id_req(): a new connection, or the old one is reset. *)
RcvIdReqNew(c) ==
    /\ rcv = "ID_Req" /\ conn = None
    /\ state[c] = "free" /\ destroying[c] = "no"
    /\ conn' = c
    /\ list' = list \cup {c}
    /\ state' = [state EXCEPT ![c] = "ID_REQ"]
    /\ in_ctr' = [in_ctr EXCEPT ![c] = skb.ctr]
    /\ rcv' = "idReqSend"
    /\ UNCHANGED <<revpi_dev, ctrVars, workVars, skb, fini, imageVars>>

RcvIdReqOld ==
    /\ rcv = "ID_Req" /\ conn # None
    /\ conn \notin sending          \* cancel_delayed_work_sync()
    /\ state' = [state EXCEPT ![conn] = "ID_REQ"]
    /\ Dequeue(conn, {"send"})
    /\ GateConnected(conn, FALSE)
    /\ rcv' = "idReqSend"
    /\ UNCHANGED <<list, revpi_dev, in_ctr, ctrVars, sending, destroying, waitsFor, skb,
                   conn, fini, inputs>>

(* Mutant of RcvIdReqSend: after a failure nobody destroys the connection. *)
RcvIdReqSendOrForget ==
    /\ rcv = "idReqSend"
    /\ \/ /\ out_ctr' = [out_ctr EXCEPT ![conn] = (@ % MaxCtr) + 1]
          /\ Schedule(conn, {"destroy"})
       \/ UNCHANGED <<out_ctr, pending>>
    /\ Done
    /\ UNCHANGED <<connVars, tmp, sending, destroying, fini, imageVars>>

(* send_work is cancelled or was never queued: nobody else counts.  When   *)
(* there is no packet (no memory), or it is not transmitted, destroy_work  *)
(* is queued without a delay.                                              *)
RcvIdReqSend ==
    /\ rcv = "idReqSend"
    /\ \/ out_ctr' = [out_ctr EXCEPT ![conn] = (@ % MaxCtr) + 1]
       \/ UNCHANGED out_ctr
    /\ Schedule(conn, {"destroy"})
    /\ Done
    /\ UNCHANGED <<connVars, tmp, sending, destroying, fini, imageVars>>

(* revpi_gate_process_id_resp(): whether the device is found depends on    *)
(* the module type in the packet.                                          *)
RcvIdResp ==
    /\ rcv = "ID_Resp" /\ conn # None
    /\ state[conn] = "ID_REQ"
    /\ revpi_dev' \in {revpi_dev, revpi_dev \cup {conn}}
    /\ \/ /\ Increment(conn, "rcv")
          /\ rcv' = "idRespSend"
          /\ UNCHANGED <<skb, conn, waitsFor>>
       \/ UNCHANGED tmp /\ Done                         \* no memory
    /\ UNCHANGED <<list, state, in_ctr, out_ctr, pending, sending, destroying, fini,
                   imageVars>>

RcvIdRespSend ==
    /\ rcv = "idRespSend"
    /\ Stamp(conn, "rcv")
    /\ \/ /\ state' = [state EXCEPT ![conn] = "ID_RESP"]
          /\ GateConnected(conn, TRUE)
          /\ Schedule(conn, Works)
       \/ UNCHANGED <<state, connected, pending>>       \* not transmitted
    /\ Done
    /\ UNCHANGED <<list, revpi_dev, in_ctr, sending, destroying, fini, inputs>>

(* revpi_gate_process_cyclicpd(): the answer is created, unless the        *)
(* neighbor lags behind; the data is copied, then the answer is sent.      *)
DataCopied(stopped) ==
    inputs' = IF conn \in revpi_dev /\ ~stopped THEN "stored" ELSE inputs

RcvCyclic ==
    /\ rcv = "cyclicPD" /\ conn # None
    /\ state[conn] = "ID_RESP"
    /\ Increment(conn, "rcv")
    /\ rcv' = "cyclicSend"
    /\ UNCHANGED <<connVars, out_ctr, workVars, skb, conn, fini, imageVars>>

RcvCyclicBacklog(stopped) ==
    /\ rcv = "cyclicPD" /\ conn # None
    /\ state[conn] = "ID_RESP"
    /\ DataCopied(stopped)
    /\ Schedule(conn, Works)
    /\ Done
    /\ UNCHANGED <<connVars, ctrVars, sending, destroying, fini, connected>>

RcvCyclicSend(stopped) ==
    /\ rcv = "cyclicSend"
    /\ DataCopied(stopped)
    /\ Stamp(conn, "rcv")
    /\ Schedule(conn, Works) \/ UNCHANGED pending       \* not transmitted
    /\ Done
    /\ UNCHANGED <<connVars, sending, destroying, fini, connected>>

-----------------------------------------------------------------------------
(* revpi_gate_fini(), and revpi_gate_init() after it.  kthread_stop()      *)
(* waits until the receive thread has emptied the queue.                   *)
FiniRemovePack ==
    /\ fini = "up"
    /\ fini' = "stopThread"
    /\ UNCHANGED <<connVars, ctrVars, workVars, rcvVars, imageVars>>

FiniThreadStopped ==
    /\ fini = "stopThread"
    /\ rcv = "idle"
    /\ rcv' = "stopped"
    /\ fini' = "destroyAll"
    /\ UNCHANGED <<connVars, ctrVars, workVars, skb, conn, imageVars>>

FiniDestroyAll ==
    /\ fini = "destroyAll"
    /\ pending' = pending \cup (list \X {"destroy"})
    /\ fini' = "unlock"
    /\ UNCHANGED <<connVars, ctrVars, sending, destroying, waitsFor, rcvVars, imageVars>>

FiniUnlock ==
    /\ fini = "unlock"
    /\ LeaveSrcu("fini")
    /\ fini' = "check"
    /\ UNCHANGED <<connVars, ctrVars, pending, sending, destroying, rcvVars, imageVars>>

(* Mutant of FiniWait: the condition of wait_event() is inverted, and      *)
(* looked at all the time.                                                 *)
FiniWaitInverted ==
    /\ fini = "check"
    /\ fini' = IF list # {} THEN "down" ELSE "check"
    /\ UNCHANGED <<connVars, ctrVars, workVars, rcvVars, imageVars>>

(* wait_event(): the list is looked at again after every wake_up().        *)
FiniWait ==
    /\ fini = "check"
    /\ fini' = IF list = {} THEN "down" ELSE "asleep"
    /\ UNCHANGED <<connVars, ctrVars, workVars, rcvVars, imageVars>>

GateInit ==
    /\ fini = "down"
    /\ fini' = "up"
    /\ rcv' = "idle"
    /\ UNCHANGED <<connVars, ctrVars, workVars, skb, conn, imageVars>>

-----------------------------------------------------------------------------
SendWork(c) == SendCreate(c) \/ SendXmit(c)
DestroyWork(c) ==
    \/ DestroyStart(c) \/ DestroyUnlink(c) \/ DestroySynchronize(c)
    \/ DestroySynchronized(c) \/ DestroyCancel(c)
    \/ \E stopped \in BOOLEAN : DestroyClear(c, stopped)
    \/ DestroyFree(c) \/ DestroyWake(c)
RcvProcess ==
    \/ RcvBlank \/ RcvDuplicate \/ RcvDispatch \/ RcvDrop
    \/ \E c \in Conns : RcvIdReqNew(c)
    \/ RcvIdReqOld \/ RcvIdReqSend
    \/ RcvIdResp \/ RcvIdRespSend
    \/ RcvCyclic
    \/ \E stopped \in BOOLEAN : RcvCyclicBacklog(stopped) \/ RcvCyclicSend(stopped)
Fini == FiniThreadStopped \/ FiniDestroyAll \/ FiniUnlock \/ FiniWait

Init ==
    /\ list = {} /\ revpi_dev = {}
    /\ state = [c \in Conns |-> "free"]
    /\ in_ctr = [c \in Conns |-> 0] /\ out_ctr = [c \in Conns |-> 0]
    /\ pending = {} /\ sending = {}
    /\ destroying = [c \in Conns |-> "no"]
    /\ waitsFor = [c \in Conns |-> {}]
    /\ skb = None /\ rcv = "stopped" /\ conn = None
    /\ fini = "down"
    /\ inputs = "zero" /\ connected = FALSE
    /\ tmp = [c \in Conns |-> [who \in {"rcv", "send"} |-> 0]]

Next ==
    \/ \E p \in Packets : RcvFind(p)
    \/ RcvProcess
    \/ \E c \in Conns : SendWork(c) \/ DestroyWork(c)
    \/ FiniRemovePack \/ Fini \/ GateInit

Spec == Init /\ [][Next]_vars

(* Threads and work items that can go on do so, and timers expire; no      *)
(* packet ever need arrive.                                                *)
Fairness ==
    /\ WF_vars(RcvProcess) /\ WF_vars(Fini)
    /\ \A c \in Conns : WF_vars(SendWork(c)) /\ WF_vars(DestroyWork(c))
FairSpec == Spec /\ Fairness

-----------------------------------------------------------------------------
(* Properties                                                              *)

(* Nobody refers to a connection after kfree(): not the receive thread,    *)
(* not a work item that runs, waits or has its timer armed, not the list.  *)
NoUseAfterFree ==
    \A c \in Conns : state[c] = "free" =>
        /\ conn # c /\ c \notin list
        /\ c \notin sending /\ destroying[c] \in {"no", "wake"}
        /\ \A work \in Works : <<c, work>> \notin pending

(* Only one neighbor per network device: there are never two connections   *)
(* in the list, although old ones may still be on their way out.           *)
OneNeighbor == Cardinality(list) <= 1

(* A connection in the list never loses its time-out: destroy_work is      *)
(* pending or runs, unless the receive thread is just creating it.         *)
TimeoutArmed ==
    \A c \in list :
        \/ <<c, "destroy">> \in pending \/ destroying[c] # "no"
        \/ conn = c /\ rcv = "idReqSend"

(* The inputs of a neighbor that is gone are 0: destroy_work clears them   *)
(* after the last packet was copied, unless I/O is stopped then.           *)
GoneInputsZero == inputs = "stored" => revpi_dev # {}

(* revpi_gate_fini() comes to its end, whatever the work items, the        *)
(* receive thread and the SRCU readers are doing when it is called.        *)
FiniReturns == (fini = "stopThread") ~> (fini = "down")

(* A connection whose neighbor falls silent is destroyed.                  *)
SilentNeighborLeaves ==
    \A c \in Conns : (c \in list) ~> (c \notin list \/ skb # None)

-----------------------------------------------------------------------------
(* What the code is meant to do and does not: when revpi_gate_fini()       *)
(* returns, the work items have completed.  It only waits for the list,    *)
(* which destroy_work leaves first.                                        *)
FiniCompletes == fini = "down" => \A c \in Conns : state[c] = "free" /\ destroying[c] = "no"

=============================================================================
