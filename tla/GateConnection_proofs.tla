------------------------ MODULE GateConnection_proofs ------------------------
(***************************************************************************)
(* What TLAPS proves of GateConnection, for any number of connections in   *)
(* memory and counters of any range: nobody uses a freed connection, there *)
(* is one neighbor, its time-out is armed, and its inputs do not outlive   *)
(* it.                                                                     *)
(***************************************************************************)
EXTENDS GateConnection, FiniteSetTheorems, TLAPS

Quiet == {"idle", "stopped"}

(* A connection is allocated from revpi_gate_process_id_req() until        *)
(* destroy_work frees it, and in the list until that unlinks it.           *)
Leaving == {"synchronize", "sync", "cancel", "clear", "free"}
LifeInv ==
    \A c \in Conns :
        /\ c \in list => destroying[c] \in {"no", "unlink"}
        /\ destroying[c] = "unlink" => c \in list
        /\ state[c] # "free" <=> c \in list \/ destroying[c] \in Leaving

(* No work item is queued or runs once destroy_work has cancelled them.    *)
WorkInv ==
    \A c \in Conns :
        c \in sending \/ <<c, "send">> \in pending \/ <<c, "destroy">> \in pending =>
            state[c] # "free" /\ destroying[c] \notin {"clear", "free", "wake"}

(* destroy_work does not get past synchronize_srcu() while the receive     *)
(* thread has the connection.                                              *)
Held(c) ==
    \/ destroying[c] \in {"no", "unlink", "synchronize"}
    \/ destroying[c] = "sync" /\ "rcv" \in waitsFor[c]
HoldInv ==
    /\ rcv \in Quiet => conn = None
    /\ conn # None => state[conn] # "free" /\ Held(conn)
    /\ rcv \in {"idReqSend", "idRespSend", "cyclicSend"} => conn # None
    /\ rcv \notin Quiet => skb \in Packets

(* A packet that found no connection meets an empty list.                  *)
NeighborInv ==
    /\ \A c, d \in list : c = d
    /\ conn = None /\ rcv \notin Quiet => list = {}

(* Inputs are those of a connection which has still to clear them, unless  *)
(* they were left when I/O was stopped.                                    *)
InputInv == inputs = "stored" => \E c \in revpi_dev : destroying[c] # "free"

(* The receive thread is stopped from kthread_stop() on, until it is       *)
(* created anew.                                                           *)
FiniInv == fini \in {"destroyAll", "unlock", "check", "asleep", "down"} <=> rcv = "stopped"

IndInv ==
    /\ TypeOK /\ LifeInv /\ WorkInv /\ HoldInv /\ NeighborInv /\ TimeoutArmed /\ InputInv
    /\ FiniInv

-----------------------------------------------------------------------------
(* Every step                                                              *)

LEMMA Initial == Init => IndInv
<1> SUFFICES ASSUME Init PROVE IndInv
  OBVIOUS
<1> USE GateAssumption DEF Init
<1>1. TypeOK
  <2>1. /\ tmp \in [Conns -> [{"rcv", "send"} -> 0..MaxCtr]]
        /\ in_ctr \in [Conns -> 0..MaxCtr] /\ out_ctr \in [Conns -> 0..MaxCtr]
    OBVIOUS
  <2>2. waitsFor \in [Conns -> SUBSET {"rcv", "fini"}]
    OBVIOUS
  <2> QED
    BY <2>1, <2>2 DEF TypeOK
<1>2. LifeInv /\ WorkInv /\ HoldInv /\ NeighborInv /\ TimeoutArmed /\ InputInv /\ FiniInv
  BY DEF LifeInv, Leaving, WorkInv, HoldInv, Quiet, NeighborInv, TimeoutArmed, InputInv,
     FiniInv
<1> QED
  BY <1>1, <1>2 DEF IndInv

(* The counter of the next packet: it skips 0.                             *)
LEMMA NextCounter == ASSUME NEW n \in 0..MaxCtr PROVE (n % MaxCtr) + 1 \in 1..MaxCtr
  BY GateAssumption

LEMMA Counters ==
    ASSUME TypeOK, NEW c \in Conns, NEW who \in {"rcv", "send"}
    PROVE  /\ Increment(c, who) => tmp' \in [Conns -> [{"rcv", "send"} -> 0..MaxCtr]]
           /\ Stamp(c, who) => /\ tmp' \in [Conns -> [{"rcv", "send"} -> 0..MaxCtr]]
                              /\ out_ctr' \in [Conns -> 0..MaxCtr]
<1>1. Increment(c, who) => tmp' \in [Conns -> [{"rcv", "send"} -> 0..MaxCtr]]
  <2>1. out_ctr[c] \in 0..MaxCtr
    BY DEF TypeOK
  <2>2. (out_ctr[c] % MaxCtr) + 1 \in 0..MaxCtr
    BY <2>1, NextCounter
  <2> QED
    BY <2>2 DEF Increment, TypeOK
<1>2. Stamp(c, who) => /\ tmp' \in [Conns -> [{"rcv", "send"} -> 0..MaxCtr]]
                       /\ out_ctr' \in [Conns -> 0..MaxCtr]
  BY GateAssumption DEF Stamp, TypeOK
<1> QED
  BY <1>1, <1>2

(* What is scheduled is a work item of a connection.                       *)
LEMMA Schedulable ==
    /\ \A c \in Conns, works \in SUBSET Works : {c} \X works \subseteq Conns \X Works
    /\ \A cs \in SUBSET Conns : cs \X {"destroy"} \subseteq Conns \X Works
  BY DEF Works

(* What the steps of a work item, of the receive thread and of             *)
(* revpi_gate_fini() have in common.                                       *)
(* revpi_gate_send_work()                                                  *)
LEMMA SendStep ==
    ASSUME IndInv, NEW c \in Conns, SendWork(c)
    PROVE  IndInv'
<1> USE GateAssumption
    DEF IndInv, connVars, ctrVars, workVars, rcvVars, imageVars, Dequeue
<1>1. CASE SendCreate(c)
  <2> USE <1>1 DEF SendCreate
  <2>1. TypeOK'
    BY NextCounter, Counters, Schedulable DEF TypeOK, Works, HoldInv, Quiet, Packets
  <2>2. LifeInv' /\ WorkInv'
    BY DEF LifeInv, Leaving, WorkInv, HoldInv, Held, Quiet, TypeOK
  <2>3. HoldInv'
    BY DEF HoldInv, Held, LifeInv, Leaving, WorkInv, FiniInv, Quiet, TypeOK
  <2>4. NeighborInv' /\ TimeoutArmed'
    BY DEF NeighborInv, TimeoutArmed, HoldInv, LifeInv, Leaving, FiniInv, Quiet, TypeOK
  <2>5. InputInv' /\ FiniInv'
    BY DEF InputInv, HoldInv, Held, FiniInv, TypeOK
  <2> QED
    BY <2>1, <2>2, <2>3, <2>4, <2>5
<1>2. CASE SendXmit(c)
  <2> USE <1>2 DEF SendXmit
  <2>1. TypeOK'
    BY NextCounter, Counters, Schedulable DEF TypeOK, Works, HoldInv, Quiet, Packets
  <2>2. LifeInv' /\ WorkInv'
    BY DEF LifeInv, Leaving, WorkInv, HoldInv, Held, Quiet, TypeOK
  <2>3. HoldInv'
    BY DEF HoldInv, Held, LifeInv, Leaving, WorkInv, FiniInv, Quiet, TypeOK
  <2>4. NeighborInv' /\ TimeoutArmed'
    BY DEF NeighborInv, TimeoutArmed, HoldInv, LifeInv, Leaving, FiniInv, Quiet, TypeOK
  <2>5. InputInv' /\ FiniInv'
    BY DEF InputInv, HoldInv, Held, FiniInv, TypeOK
  <2> QED
    BY <2>1, <2>2, <2>3, <2>4, <2>5
<1> QED
  BY <1>1, <1>2
     DEF SendWork

(* revpi_gate_destroy_work()                                               *)
LEMMA DestroyStep ==
    ASSUME IndInv, NEW c \in Conns, DestroyWork(c)
    PROVE  IndInv'
<1> USE GateAssumption
    DEF IndInv, connVars, ctrVars, workVars, rcvVars, imageVars,
        Works, Dequeue, GateConnected, DestroyGoto, Readers
<1>1. CASE DestroyStart(c)
  <2> USE <1>1 DEF DestroyStart
  <2>1. TypeOK'
    BY NextCounter, Counters, Schedulable DEF TypeOK, Works, HoldInv, Quiet, Packets
  <2>2. LifeInv' /\ WorkInv'
    BY DEF LifeInv, Leaving, WorkInv, HoldInv, Held, Quiet, TypeOK
  <2>3. HoldInv'
    BY DEF HoldInv, Held, LifeInv, Leaving, WorkInv, FiniInv, Quiet, TypeOK
  <2>4. NeighborInv' /\ TimeoutArmed'
    BY DEF NeighborInv, TimeoutArmed, HoldInv, LifeInv, Leaving, FiniInv, Quiet, TypeOK
  <2>5. InputInv' /\ FiniInv'
    BY DEF InputInv, HoldInv, Held, FiniInv, TypeOK
  <2> QED
    BY <2>1, <2>2, <2>3, <2>4, <2>5
<1>2. CASE DestroyUnlink(c)
  <2> USE <1>2 DEF DestroyUnlink
  <2>1. TypeOK'
    BY NextCounter, Counters, Schedulable DEF TypeOK, Works, HoldInv, Quiet, Packets
  <2>2. LifeInv' /\ WorkInv'
    BY DEF LifeInv, Leaving, WorkInv, HoldInv, Held, Quiet, TypeOK
  <2>3. HoldInv'
    BY DEF HoldInv, Held, LifeInv, Leaving, WorkInv, FiniInv, Quiet, TypeOK
  <2>4. NeighborInv' /\ TimeoutArmed'
    BY DEF NeighborInv, TimeoutArmed, HoldInv, LifeInv, Leaving, FiniInv, Quiet, TypeOK
  <2>5. InputInv' /\ FiniInv'
    BY DEF InputInv, HoldInv, Held, FiniInv, TypeOK
  <2> QED
    BY <2>1, <2>2, <2>3, <2>4, <2>5
<1>3. CASE DestroySynchronize(c)
  <2> USE <1>3 DEF DestroySynchronize
  <2>1. TypeOK'
    BY NextCounter, Counters, Schedulable DEF TypeOK, Works, HoldInv, Quiet, Packets
  <2>2. LifeInv' /\ WorkInv'
    BY DEF LifeInv, Leaving, WorkInv, HoldInv, Held, Quiet, TypeOK
  <2>3. HoldInv'
    BY DEF HoldInv, Held, LifeInv, Leaving, WorkInv, FiniInv, Quiet, TypeOK
  <2>4. NeighborInv' /\ TimeoutArmed'
    BY DEF NeighborInv, TimeoutArmed, HoldInv, LifeInv, Leaving, FiniInv, Quiet, TypeOK
  <2>5. InputInv' /\ FiniInv'
    BY DEF InputInv, HoldInv, Held, FiniInv, TypeOK
  <2> QED
    BY <2>1, <2>2, <2>3, <2>4, <2>5
<1>4. CASE DestroySynchronized(c)
  <2> USE <1>4 DEF DestroySynchronized
  <2>1. TypeOK'
    BY NextCounter, Counters, Schedulable DEF TypeOK, Works, HoldInv, Quiet, Packets
  <2>2. LifeInv' /\ WorkInv'
    BY DEF LifeInv, Leaving, WorkInv, HoldInv, Held, Quiet, TypeOK
  <2>3. HoldInv'
    BY DEF HoldInv, Held, LifeInv, Leaving, WorkInv, FiniInv, Quiet, TypeOK
  <2>4. NeighborInv' /\ TimeoutArmed'
    BY DEF NeighborInv, TimeoutArmed, HoldInv, LifeInv, Leaving, FiniInv, Quiet, TypeOK
  <2>5. InputInv' /\ FiniInv'
    BY DEF InputInv, HoldInv, Held, FiniInv, TypeOK
  <2> QED
    BY <2>1, <2>2, <2>3, <2>4, <2>5
<1>5. CASE DestroyCancel(c)
  <2> USE <1>5 DEF DestroyCancel
  <2>1. TypeOK'
    BY NextCounter, Counters, Schedulable DEF TypeOK, Works, HoldInv, Quiet, Packets
  <2>2. LifeInv' /\ WorkInv'
    BY DEF LifeInv, Leaving, WorkInv, HoldInv, Held, Quiet, TypeOK
  <2>3. HoldInv'
    BY DEF HoldInv, Held, LifeInv, Leaving, WorkInv, FiniInv, Quiet, TypeOK
  <2>4. NeighborInv' /\ TimeoutArmed'
    BY DEF NeighborInv, TimeoutArmed, HoldInv, LifeInv, Leaving, FiniInv, Quiet, TypeOK
  <2>5. InputInv' /\ FiniInv'
    BY DEF InputInv, HoldInv, Held, FiniInv, TypeOK
  <2> QED
    BY <2>1, <2>2, <2>3, <2>4, <2>5
<1>6. ASSUME NEW stopped \in BOOLEAN, DestroyClear(c, stopped)
      PROVE  IndInv'
  <2> USE <1>6 DEF DestroyClear
  <2>1. TypeOK'
    BY NextCounter, Counters, Schedulable DEF TypeOK, Works, HoldInv, Quiet, Packets
  <2>2. LifeInv' /\ WorkInv'
    BY DEF LifeInv, Leaving, WorkInv, HoldInv, Held, Quiet, TypeOK
  <2>3. HoldInv'
    BY DEF HoldInv, Held, LifeInv, Leaving, WorkInv, FiniInv, Quiet, TypeOK
  <2>4. NeighborInv' /\ TimeoutArmed'
    BY DEF NeighborInv, TimeoutArmed, HoldInv, LifeInv, Leaving, FiniInv, Quiet, TypeOK
  <2>5. InputInv' /\ FiniInv'
    BY DEF InputInv, HoldInv, Held, FiniInv, TypeOK
  <2> QED
    BY <2>1, <2>2, <2>3, <2>4, <2>5
<1>7. CASE DestroyFree(c)
  <2> USE <1>7 DEF DestroyFree
  <2>1. TypeOK'
    BY NextCounter, Counters, Schedulable DEF TypeOK, Works, HoldInv, Quiet, Packets
  <2>2. LifeInv' /\ WorkInv'
    BY DEF LifeInv, Leaving, WorkInv, HoldInv, Held, Quiet, TypeOK
  <2>3. HoldInv'
    BY DEF HoldInv, Held, LifeInv, Leaving, WorkInv, FiniInv, Quiet, TypeOK
  <2>4. NeighborInv' /\ TimeoutArmed'
    BY DEF NeighborInv, TimeoutArmed, HoldInv, LifeInv, Leaving, FiniInv, Quiet, TypeOK
  <2>5. InputInv' /\ FiniInv'
    BY DEF InputInv, HoldInv, Held, FiniInv, TypeOK
  <2> QED
    BY <2>1, <2>2, <2>3, <2>4, <2>5
<1>8. CASE DestroyWake(c)
  <2> USE <1>8 DEF DestroyWake
  <2>1. TypeOK'
    BY NextCounter, Counters, Schedulable DEF TypeOK, Works, HoldInv, Quiet, Packets
  <2>2. LifeInv' /\ WorkInv'
    BY DEF LifeInv, Leaving, WorkInv, HoldInv, Held, Quiet, TypeOK
  <2>3. HoldInv'
    BY DEF HoldInv, Held, LifeInv, Leaving, WorkInv, FiniInv, Quiet, TypeOK
  <2>4. NeighborInv' /\ TimeoutArmed'
    BY DEF NeighborInv, TimeoutArmed, HoldInv, LifeInv, Leaving, FiniInv, Quiet, TypeOK
  <2>5. InputInv' /\ FiniInv'
    BY DEF InputInv, HoldInv, Held, FiniInv, TypeOK
  <2> QED
    BY <2>1, <2>2, <2>3, <2>4, <2>5
<1> QED
  BY <1>1, <1>2, <1>3, <1>4, <1>5, <1>6, <1>7, <1>8
     DEF DestroyWork

(* The receive thread                                                      *)
LEMMA ReceiveStep ==
    ASSUME IndInv, (\E p \in Packets : RcvFind(p)) \/ RcvProcess
    PROVE  IndInv'
<1> USE GateAssumption
    DEF IndInv, connVars, ctrVars, workVars, rcvVars, imageVars,
        Works, Schedule, Dequeue, LeaveSrcu, GateConnected, Done, DataCopied
<1>1. CASE \E p \in Packets : RcvFind(p)
  <2> USE <1>1 DEF RcvFind
  <2>1. TypeOK'
    BY NextCounter, Counters, Schedulable DEF TypeOK, Works, HoldInv, Quiet, Packets
  <2>2. LifeInv' /\ WorkInv'
    BY DEF LifeInv, Leaving, WorkInv, HoldInv, Held, Quiet, TypeOK
  <2>3. HoldInv'
    BY DEF HoldInv, Held, LifeInv, Leaving, WorkInv, FiniInv, Quiet, TypeOK
  <2>4. NeighborInv' /\ TimeoutArmed'
    BY DEF NeighborInv, TimeoutArmed, HoldInv, LifeInv, Leaving, FiniInv, Quiet, TypeOK
  <2>5. InputInv' /\ FiniInv'
    BY DEF InputInv, HoldInv, Held, FiniInv, TypeOK
  <2> QED
    BY <2>1, <2>2, <2>3, <2>4, <2>5
<1>2. CASE RcvBlank
  <2> USE <1>2 DEF RcvBlank
  <2>1. TypeOK'
    BY NextCounter, Counters, Schedulable DEF TypeOK, Works, HoldInv, Quiet, Packets
  <2>2. LifeInv' /\ WorkInv'
    BY DEF LifeInv, Leaving, WorkInv, HoldInv, Held, Quiet, TypeOK
  <2>3. HoldInv'
    BY DEF HoldInv, Held, LifeInv, Leaving, WorkInv, FiniInv, Quiet, TypeOK
  <2>4. NeighborInv' /\ TimeoutArmed'
    BY DEF NeighborInv, TimeoutArmed, HoldInv, LifeInv, Leaving, FiniInv, Quiet, TypeOK
  <2>5. InputInv' /\ FiniInv'
    BY DEF InputInv, HoldInv, Held, FiniInv, TypeOK
  <2> QED
    BY <2>1, <2>2, <2>3, <2>4, <2>5
<1>3. CASE RcvDuplicate
  <2> USE <1>3 DEF RcvDuplicate, Duplicate
  <2>1. TypeOK'
    BY NextCounter, Counters, Schedulable DEF TypeOK, Works, HoldInv, Quiet, Packets
  <2>2. LifeInv' /\ WorkInv'
    BY DEF LifeInv, Leaving, WorkInv, HoldInv, Held, Quiet, TypeOK
  <2>3. HoldInv'
    BY DEF HoldInv, Held, LifeInv, Leaving, WorkInv, FiniInv, Quiet, TypeOK
  <2>4. NeighborInv' /\ TimeoutArmed'
    BY DEF NeighborInv, TimeoutArmed, HoldInv, LifeInv, Leaving, FiniInv, Quiet, TypeOK
  <2>5. InputInv' /\ FiniInv'
    BY DEF InputInv, HoldInv, Held, FiniInv, TypeOK
  <2> QED
    BY <2>1, <2>2, <2>3, <2>4, <2>5
<1>4. CASE RcvDispatch
  <2> USE <1>4 DEF RcvDispatch, Duplicate
  <2>0. rcv' \in {"ID_Req", "ID_Resp", "cyclicPD"} /\ rcv = "process" /\ skb \in Packets
    BY DEF HoldInv, Quiet, Packets
  <2>1. TypeOK'
    BY <2>0, NextCounter, Counters, Schedulable DEF TypeOK, Works, HoldInv, Quiet, Packets
  <2>2. LifeInv' /\ WorkInv'
    BY DEF LifeInv, Leaving, WorkInv, HoldInv, Held, Quiet, TypeOK
  <2>3. HoldInv'
    BY <2>0 DEF HoldInv, Held, LifeInv, Leaving, WorkInv, FiniInv, Quiet, TypeOK
  <2>4. NeighborInv' /\ TimeoutArmed'
    BY DEF NeighborInv, TimeoutArmed, HoldInv, LifeInv, Leaving, FiniInv, Quiet, TypeOK
  <2>5. InputInv' /\ FiniInv'
    BY <2>0 DEF InputInv, HoldInv, Held, FiniInv, TypeOK
  <2> QED
    BY <2>1, <2>2, <2>3, <2>4, <2>5
<1>5. CASE RcvDrop
  <2> USE <1>5 DEF RcvDrop
  <2>1. TypeOK'
    BY NextCounter, Counters, Schedulable DEF TypeOK, Works, HoldInv, Quiet, Packets
  <2>2. LifeInv' /\ WorkInv'
    BY DEF LifeInv, Leaving, WorkInv, HoldInv, Held, Quiet, TypeOK
  <2>3. HoldInv'
    BY DEF HoldInv, Held, LifeInv, Leaving, WorkInv, FiniInv, Quiet, TypeOK
  <2>4. NeighborInv' /\ TimeoutArmed'
    BY DEF NeighborInv, TimeoutArmed, HoldInv, LifeInv, Leaving, FiniInv, Quiet, TypeOK
  <2>5. InputInv' /\ FiniInv'
    BY DEF InputInv, HoldInv, Held, FiniInv, TypeOK
  <2> QED
    BY <2>1, <2>2, <2>3, <2>4, <2>5
<1>6. CASE \E c \in Conns : RcvIdReqNew(c)
  <2> USE <1>6 DEF RcvIdReqNew
  <2>1. TypeOK'
    BY NextCounter, Counters, Schedulable DEF TypeOK, Works, HoldInv, Quiet, Packets
  <2>2. LifeInv' /\ WorkInv'
    BY DEF LifeInv, Leaving, WorkInv, HoldInv, Held, Quiet, TypeOK
  <2>3. HoldInv'
    BY DEF HoldInv, Held, LifeInv, Leaving, WorkInv, FiniInv, Quiet, TypeOK
  <2>4. NeighborInv' /\ TimeoutArmed'
    BY DEF NeighborInv, TimeoutArmed, HoldInv, LifeInv, Leaving, FiniInv, Quiet, TypeOK
  <2>5. InputInv' /\ FiniInv'
    BY DEF InputInv, HoldInv, Held, FiniInv, TypeOK
  <2> QED
    BY <2>1, <2>2, <2>3, <2>4, <2>5
<1>7. CASE RcvIdReqOld
  <2> USE <1>7 DEF RcvIdReqOld
  <2>1. TypeOK'
    BY NextCounter, Counters, Schedulable DEF TypeOK, Works, HoldInv, Quiet, Packets
  <2>2. LifeInv' /\ WorkInv'
    BY DEF LifeInv, Leaving, WorkInv, HoldInv, Held, Quiet, TypeOK
  <2>3. HoldInv'
    BY DEF HoldInv, Held, LifeInv, Leaving, WorkInv, FiniInv, Quiet, TypeOK
  <2>4. NeighborInv' /\ TimeoutArmed'
    BY DEF NeighborInv, TimeoutArmed, HoldInv, LifeInv, Leaving, FiniInv, Quiet, TypeOK
  <2>5. InputInv' /\ FiniInv'
    BY DEF InputInv, HoldInv, Held, FiniInv, TypeOK
  <2> QED
    BY <2>1, <2>2, <2>3, <2>4, <2>5
<1>8. CASE RcvIdReqSend
  <2> USE <1>8 DEF RcvIdReqSend
  <2>1. TypeOK'
    BY NextCounter, Counters, Schedulable DEF TypeOK, Works, HoldInv, Quiet, Packets
  <2>2. LifeInv' /\ WorkInv'
    BY DEF LifeInv, Leaving, WorkInv, HoldInv, Held, Quiet, TypeOK
  <2>3. HoldInv'
    BY DEF HoldInv, Held, LifeInv, Leaving, WorkInv, FiniInv, Quiet, TypeOK
  <2>4. NeighborInv' /\ TimeoutArmed'
    BY DEF NeighborInv, TimeoutArmed, HoldInv, LifeInv, Leaving, FiniInv, Quiet, TypeOK
  <2>5. InputInv' /\ FiniInv'
    BY DEF InputInv, HoldInv, Held, FiniInv, TypeOK
  <2> QED
    BY <2>1, <2>2, <2>3, <2>4, <2>5
<1>9. CASE RcvIdResp
  <2> USE <1>9 DEF RcvIdResp
  <2>1. TypeOK'
    BY NextCounter, Counters, Schedulable DEF TypeOK, Works, HoldInv, Quiet, Packets
  <2>2. LifeInv' /\ WorkInv'
    BY DEF LifeInv, Leaving, WorkInv, HoldInv, Held, Quiet, TypeOK
  <2>3. HoldInv'
    BY DEF HoldInv, Held, LifeInv, Leaving, WorkInv, FiniInv, Quiet, TypeOK
  <2>4. NeighborInv' /\ TimeoutArmed'
    BY DEF NeighborInv, TimeoutArmed, HoldInv, LifeInv, Leaving, FiniInv, Quiet, TypeOK
  <2>5. InputInv' /\ FiniInv'
    BY DEF InputInv, HoldInv, Held, FiniInv, TypeOK
  <2> QED
    BY <2>1, <2>2, <2>3, <2>4, <2>5
<1>10. CASE RcvIdRespSend
  <2> USE <1>10 DEF RcvIdRespSend
  <2>1. TypeOK'
    BY NextCounter, Counters, Schedulable DEF TypeOK, Works, HoldInv, Quiet, Packets
  <2>2. LifeInv' /\ WorkInv'
    <3>1. conn \in Conns /\ state[conn] # "free" /\ Held(conn)
      BY DEF HoldInv, TypeOK
    <3>2. LifeInv'
      BY <3>1 DEF LifeInv, TypeOK
    <3>3. WorkInv'
      <4>1. \A c \in Conns : c # conn => state'[c] = state[c]
                /\ \A work \in Works : <<c, work>> \in pending' => <<c, work>> \in pending
        <5>1. pending' \subseteq pending \cup ({conn} \X Works)
          OBVIOUS
        <5>2. \A c \in Conns, work \in Works :
                  <<c, work>> \in {conn} \X Works => c = conn
          OBVIOUS
        <5>3. \A c \in Conns : c # conn => state'[c] = state[c]
          BY DEF TypeOK
        <5> QED
          BY <5>1, <5>2, <5>3
      <4>2. state'[conn] # "free"
        BY <3>1 DEF TypeOK
      <4> QED
        BY <3>1, <4>1, <4>2 DEF WorkInv, Held
    <3> QED
      BY <3>2, <3>3
  <2>3. HoldInv'
    BY DEF HoldInv, Held, LifeInv, Leaving, WorkInv, FiniInv, Quiet, TypeOK
  <2>4. NeighborInv' /\ TimeoutArmed'
    BY DEF NeighborInv, TimeoutArmed, HoldInv, LifeInv, Leaving, FiniInv, Quiet, TypeOK
  <2>5. InputInv' /\ FiniInv'
    BY DEF InputInv, HoldInv, Held, FiniInv, TypeOK
  <2> QED
    BY <2>1, <2>2, <2>3, <2>4, <2>5
<1>11. CASE RcvCyclic
  <2> USE <1>11 DEF RcvCyclic
  <2>1. TypeOK'
    BY NextCounter, Counters, Schedulable DEF TypeOK, Works, HoldInv, Quiet, Packets
  <2>2. LifeInv' /\ WorkInv'
    BY DEF LifeInv, Leaving, WorkInv, HoldInv, Held, Quiet, TypeOK
  <2>3. HoldInv'
    BY DEF HoldInv, Held, LifeInv, Leaving, WorkInv, FiniInv, Quiet, TypeOK
  <2>4. NeighborInv' /\ TimeoutArmed'
    BY DEF NeighborInv, TimeoutArmed, HoldInv, LifeInv, Leaving, FiniInv, Quiet, TypeOK
  <2>5. InputInv' /\ FiniInv'
    BY DEF InputInv, HoldInv, Held, FiniInv, TypeOK
  <2> QED
    BY <2>1, <2>2, <2>3, <2>4, <2>5
<1>12. ASSUME NEW stopped \in BOOLEAN, RcvCyclicBacklog(stopped)
       PROVE  IndInv'
  <2> USE <1>12 DEF RcvCyclicBacklog
  <2>1. TypeOK'
    BY NextCounter, Counters, Schedulable DEF TypeOK, Works, HoldInv, Quiet, Packets
  <2>2. LifeInv' /\ WorkInv'
    BY DEF LifeInv, Leaving, WorkInv, HoldInv, Held, Quiet, TypeOK
  <2>3. HoldInv'
    BY DEF HoldInv, Held, LifeInv, Leaving, WorkInv, FiniInv, Quiet, TypeOK
  <2>4. NeighborInv' /\ TimeoutArmed'
    BY DEF NeighborInv, TimeoutArmed, HoldInv, LifeInv, Leaving, FiniInv, Quiet, TypeOK
  <2>5. InputInv' /\ FiniInv'
    BY DEF InputInv, HoldInv, Held, FiniInv, TypeOK
  <2> QED
    BY <2>1, <2>2, <2>3, <2>4, <2>5
<1>13. ASSUME NEW stopped \in BOOLEAN, RcvCyclicSend(stopped)
       PROVE  IndInv'
  <2> USE <1>13 DEF RcvCyclicSend
  <2>1. TypeOK'
    BY NextCounter, Counters, Schedulable DEF TypeOK, Works, HoldInv, Quiet, Packets
  <2>2. LifeInv' /\ WorkInv'
    BY DEF LifeInv, Leaving, WorkInv, HoldInv, Held, Quiet, TypeOK
  <2>3. HoldInv'
    BY DEF HoldInv, Held, LifeInv, Leaving, WorkInv, FiniInv, Quiet, TypeOK
  <2>4. NeighborInv' /\ TimeoutArmed'
    BY DEF NeighborInv, TimeoutArmed, HoldInv, LifeInv, Leaving, FiniInv, Quiet, TypeOK
  <2>5. InputInv' /\ FiniInv'
    BY DEF InputInv, HoldInv, Held, FiniInv, TypeOK
  <2> QED
    BY <2>1, <2>2, <2>3, <2>4, <2>5
<1> QED
  BY <1>1, <1>2, <1>3, <1>4, <1>5, <1>6, <1>7, <1>8, <1>9, <1>10, <1>11, <1>12, <1>13
     DEF RcvProcess

(* revpi_gate_fini() and revpi_gate_init()                                 *)
LEMMA FiniStep ==
    ASSUME IndInv, FiniRemovePack \/ Fini \/ GateInit
    PROVE  IndInv'
<1> USE GateAssumption
    DEF IndInv, connVars, ctrVars, workVars, rcvVars, imageVars, LeaveSrcu
<1>1. CASE FiniRemovePack
  <2> USE <1>1 DEF FiniRemovePack
  <2>1. TypeOK'
    BY NextCounter, Counters, Schedulable DEF TypeOK, Works, HoldInv, Quiet, Packets
  <2>2. LifeInv' /\ WorkInv'
    BY DEF LifeInv, Leaving, WorkInv, HoldInv, Held, Quiet, TypeOK
  <2>3. HoldInv'
    BY DEF HoldInv, Held, LifeInv, Leaving, WorkInv, FiniInv, Quiet, TypeOK
  <2>4. NeighborInv' /\ TimeoutArmed'
    BY DEF NeighborInv, TimeoutArmed, HoldInv, LifeInv, Leaving, FiniInv, Quiet, TypeOK
  <2>5. InputInv' /\ FiniInv'
    BY DEF InputInv, HoldInv, Held, FiniInv, TypeOK
  <2> QED
    BY <2>1, <2>2, <2>3, <2>4, <2>5
<1>2. CASE FiniThreadStopped
  <2> USE <1>2 DEF FiniThreadStopped
  <2>1. TypeOK'
    BY NextCounter, Counters, Schedulable DEF TypeOK, Works, HoldInv, Quiet, Packets
  <2>2. LifeInv' /\ WorkInv'
    BY DEF LifeInv, Leaving, WorkInv, HoldInv, Held, Quiet, TypeOK
  <2>3. HoldInv'
    BY DEF HoldInv, Held, LifeInv, Leaving, WorkInv, FiniInv, Quiet, TypeOK
  <2>4. NeighborInv' /\ TimeoutArmed'
    BY DEF NeighborInv, TimeoutArmed, HoldInv, LifeInv, Leaving, FiniInv, Quiet, TypeOK
  <2>5. InputInv' /\ FiniInv'
    BY DEF InputInv, HoldInv, Held, FiniInv, TypeOK
  <2> QED
    BY <2>1, <2>2, <2>3, <2>4, <2>5
<1>3. CASE FiniDestroyAll
  <2> USE <1>3 DEF FiniDestroyAll
  <2>1. TypeOK'
    BY NextCounter, Counters, Schedulable DEF TypeOK, Works, HoldInv, Quiet, Packets
  <2>2. LifeInv' /\ WorkInv'
    BY DEF LifeInv, Leaving, WorkInv, HoldInv, Held, Quiet, TypeOK
  <2>3. HoldInv'
    BY DEF HoldInv, Held, LifeInv, Leaving, WorkInv, FiniInv, Quiet, TypeOK
  <2>4. NeighborInv' /\ TimeoutArmed'
    BY DEF NeighborInv, TimeoutArmed, HoldInv, LifeInv, Leaving, FiniInv, Quiet, TypeOK
  <2>5. InputInv' /\ FiniInv'
    BY DEF InputInv, HoldInv, Held, FiniInv, TypeOK
  <2> QED
    BY <2>1, <2>2, <2>3, <2>4, <2>5
<1>4. CASE FiniUnlock
  <2> USE <1>4 DEF FiniUnlock
  <2>1. TypeOK'
    BY NextCounter, Counters, Schedulable DEF TypeOK, Works, HoldInv, Quiet, Packets
  <2>2. LifeInv' /\ WorkInv'
    BY DEF LifeInv, Leaving, WorkInv, HoldInv, Held, Quiet, TypeOK
  <2>3. HoldInv'
    BY DEF HoldInv, Held, LifeInv, Leaving, WorkInv, FiniInv, Quiet, TypeOK
  <2>4. NeighborInv' /\ TimeoutArmed'
    BY DEF NeighborInv, TimeoutArmed, HoldInv, LifeInv, Leaving, FiniInv, Quiet, TypeOK
  <2>5. InputInv' /\ FiniInv'
    BY DEF InputInv, HoldInv, Held, FiniInv, TypeOK
  <2> QED
    BY <2>1, <2>2, <2>3, <2>4, <2>5
<1>5. CASE FiniWait
  <2> USE <1>5 DEF FiniWait
  <2>1. TypeOK'
    BY NextCounter, Counters, Schedulable DEF TypeOK, Works, HoldInv, Quiet, Packets
  <2>2. LifeInv' /\ WorkInv'
    BY DEF LifeInv, Leaving, WorkInv, HoldInv, Held, Quiet, TypeOK
  <2>3. HoldInv'
    BY DEF HoldInv, Held, LifeInv, Leaving, WorkInv, FiniInv, Quiet, TypeOK
  <2>4. NeighborInv' /\ TimeoutArmed'
    BY DEF NeighborInv, TimeoutArmed, HoldInv, LifeInv, Leaving, FiniInv, Quiet, TypeOK
  <2>5. InputInv' /\ FiniInv'
    BY DEF InputInv, HoldInv, Held, FiniInv, TypeOK
  <2> QED
    BY <2>1, <2>2, <2>3, <2>4, <2>5
<1>6. CASE GateInit
  <2> USE <1>6 DEF GateInit
  <2>1. TypeOK'
    BY NextCounter, Counters, Schedulable DEF TypeOK, Works, HoldInv, Quiet, Packets
  <2>2. LifeInv' /\ WorkInv'
    BY DEF LifeInv, Leaving, WorkInv, HoldInv, Held, Quiet, TypeOK
  <2>3. HoldInv'
    BY DEF HoldInv, Held, LifeInv, Leaving, WorkInv, FiniInv, Quiet, TypeOK
  <2>4. NeighborInv' /\ TimeoutArmed'
    BY DEF NeighborInv, TimeoutArmed, HoldInv, LifeInv, Leaving, FiniInv, Quiet, TypeOK
  <2>5. InputInv' /\ FiniInv'
    BY DEF InputInv, HoldInv, Held, FiniInv, TypeOK
  <2> QED
    BY <2>1, <2>2, <2>3, <2>4, <2>5
<1> QED
  BY <1>1, <1>2, <1>3, <1>4, <1>5, <1>6
     DEF Fini

-----------------------------------------------------------------------------
(* Connections, work items and the receive thread are in order in every    *)
(* reachable state.                                                        *)
THEOREM Invariance == Spec => []IndInv
<1>1. ASSUME IndInv, Next PROVE IndInv'
  BY <1>1, SendStep, DestroyStep, ReceiveStep, FiniStep DEF Next
<1>2. ASSUME IndInv, UNCHANGED vars PROVE IndInv'
  BY <1>2 DEF IndInv, TypeOK, LifeInv, WorkInv, HoldInv, Held, NeighborInv, TimeoutArmed,
     InputInv, FiniInv, vars, connVars, ctrVars, workVars, rcvVars, imageVars
<1>3. IndInv /\ [Next]_vars => IndInv'
  BY <1>1, <1>2
<1> QED
  BY <1>3, Initial, PTL DEF Spec

(* Whatever the neighbor sends and whenever the timers expire, no thread   *)
(* and no work item refers to a connection after destroy_work freed it.    *)
THEOREM FreedIsUnused == Spec => []NoUseAfterFree
<1>1. IndInv => NoUseAfterFree
  <2> SUFFICES ASSUME IndInv, NEW c \in Conns, state[c] = "free"
               PROVE  /\ conn # c /\ c \notin list
                      /\ c \notin sending /\ destroying[c] \in {"no", "wake"}
                      /\ \A work \in Works : <<c, work>> \notin pending
    BY DEF NoUseAfterFree
  <2>1. c \notin list /\ destroying[c] \in {"no", "wake"}
    BY DEF IndInv, TypeOK, LifeInv, Leaving
  <2>2. conn # c
    BY GateAssumption DEF IndInv, HoldInv
  <2>3. c \notin sending /\ \A work \in Works : <<c, work>> \notin pending
    BY DEF IndInv, WorkInv, Works
  <2> QED
    BY <2>1, <2>2, <2>3
<1> QED
  BY <1>1, Invariance, PTL

(* revpi_gate_process_id_req() never adds a second neighbor.               *)
THEOREM NeighborIsOne == Spec => []OneNeighbor
<1>1. IndInv => OneNeighbor
  <2> SUFFICES ASSUME IndInv PROVE Cardinality(list) <= 1
    BY DEF OneNeighbor
  <2>1. CASE list = {}
    BY <2>1, FS_EmptySet
  <2>2. ASSUME NEW c \in list PROVE Cardinality(list) <= 1
    <3>1. list = {c}
      BY <2>2 DEF IndInv, NeighborInv
    <3> QED
      BY <3>1, FS_Singleton
  <2> QED
    BY <2>1, <2>2
<1> QED
  BY <1>1, Invariance, PTL

(* A connection in the list always has a destroy_work that is armed or     *)
(* runs, from its first answer on.                                         *)
THEOREM TimeoutIsArmed == Spec => []TimeoutArmed
<1>1. IndInv => TimeoutArmed
  BY DEF IndInv
<1> QED
  BY <1>1, Invariance, PTL

(* No inputs are left of a neighbor that is gone.                          *)
THEOREM GoneInputsAreZero == Spec => []GoneInputsZero
<1>1. IndInv => GoneInputsZero
  BY DEF IndInv, InputInv, GoneInputsZero
<1> QED
  BY <1>1, Invariance, PTL
=============================================================================
