--------------------------- MODULE BridgeRequests ---------------------------
(***************************************************************************)
(* The ioctls that talk to a single module, together: telegrams through    *)
(* the I/O thread, and firmware, which the bridge is stopped for.  They    *)
(* share lockIoctl and the bridge.                                         *)
(***************************************************************************)
EXTENDS InternalTelegram, FirmwareUpload

vars == <<tvars, fvars>>

TypeOK == TelegramTypes /\ FwTypes

Init == TelegramInit /\ FwInit

(* PICONTROL_UPLOAD_FIRMWARE, KB_UPDATE_DEVICE_FIRMWARE: the bridge runs,  *)
(* the module is found and connected; then PiBridgeMaster_Stop.            *)
UploadStart(c, by, position) ==
    /\ pc[c] = "idle" /\ lockIoctl = Nobody /\ io = "idle"
    /\ isRunning
    /\ FwCheck(by, position)
    /\ lockIoctl' = c
    /\ bridge' = "stop"
    /\ pc' = [pc EXCEPT ![c] = "upload"]
    /\ result' = NoResults
    /\ UNCHANGED <<op, box, io>>

UploadStep(c) == pc[c] = "upload" /\ FwStep /\ UNCHANGED tvars

(* KB_UPDATE_DEVICE_FIRMWARE that has updated nothing continues: the module*)
(* stays as the transfer has left it.  Otherwise, and after an upload with *)
(* any outcome, piControlReset follows, and the next transfer is one to a  *)
(* module that was scanned anew and holds an older firmware.  An update of *)
(* a named module that is up to date returns -EFAULT.                      *)
UploadEnd(c) ==
    /\ pc[c] = "upload" /\ fw.pc = "done" /\ io = "idle"
    /\ IF fw.by = "update" /\ fw.ret # "ok"
       THEN bridge' = "run" /\ UNCHANGED <<mode, flash>>
       ELSE bridge' = "init" /\ mode' = "io" /\ flash' = [k \in Chunk |-> "old"]
    /\ pc' = [pc EXCEPT ![c] = "idle"]
    /\ lockIoctl' = Nobody
    /\ \E status \in {"ok", "error"} :
           /\ fw.ret # "uptodate" => status = fw.ret
           /\ fw.by = "upload" /\ fw.ret = "uptodate" => status = "ok"
           /\ result' = [result EXCEPT ![c] = [NoResult EXCEPT !.status = status]]
    /\ fw' = NoTransfer
    /\ UNCHANGED <<op, box, io>>

Telegrams ==
    \/ \E c \in Clients : (\E r \in Requests : Call(c, r)) \/ ClientStep(c)
    \/ LookIntoBoxes \/ InitDone \/ ErrorStop \/ Manage \/ ConfigStart
Uploads ==
    \E c \in Clients :
        \/ \E by \in {"upload", "update"}, p \in Positions : UploadStart(c, by, p)
        \/ UploadStep(c)
        \/ UploadEnd(c)

Next == (Telegrams /\ UNCHANGED fvars) \/ Uploads

Spec == Init /\ [][Next]_vars

(* The I/O thread runs and brings the bridge up; a client that was let in  *)
(* goes on, and gets the lock of a mailbox, or of the bridge, although the *)
(* I/O thread takes it in every cycle (an rt_mutex goes to the waiter).    *)
Fairness ==
    /\ WF_vars(LookIntoBoxes /\ UNCHANGED fvars)
    /\ WF_vars(InitDone /\ UNCHANGED fvars)
    /\ \A c \in Clients :
        SF_vars(ClientStep(c) /\ UNCHANGED fvars) /\ WF_vars(UploadStep(c)) /\ SF_vars(UploadEnd(c))
FairSpec == Spec /\ Fairness

(* Every ioctl that talks to a module returns, whatever the bus loses and  *)
(* whatever state the bridge is in or falls into: down() waits without a   *)
(* timeout and with lockIoctl held, but the I/O thread empties the boxes   *)
(* also when the bridge is stopped, and all repetitions are bounded.       *)
CallsReturn == \A c \in Clients : pc[c] # "idle" ~> pc[c] = "idle"
=============================================================================
