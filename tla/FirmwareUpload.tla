--------------------------- MODULE FirmwareUpload ---------------------------
(***************************************************************************)
(* The transfer of firmware to one module over the gate protocol:          *)
(* upload_firmware (PICONTROL_UPLOAD_FIRMWARE) and FWU_update              *)
(* (KB_UPDATE_DEVICE_FIRMWARE).  Requests and answers get lost; an erase   *)
(* and each chunk are repeated a number of times.                          *)
(*                                                                         *)
(* The module is external: in update mode it listens to address 2 if it is *)
(* the last one on the right or too old to be scanned, else to 1, erases   *)
(* all of its flash, writes what it is sent, and answers.                  *)
(***************************************************************************)
EXTENDS Naturals

CONSTANTS
    Chunks,             \* the number of chunks of the firmware
    WriteAttempts,      \* CHUNK_TRANSMISSION_ATTEMPTS
    EraseAttempts,      \* FLASH_ERASE_ATTEMPTS
    Positions           \* of the module: see listens

ASSUME FirmwareAssumption ==
    /\ Chunks \in Nat \ {0}
    /\ WriteAttempts \in Nat \ {0} /\ EraseAttempts \in Nat \ {0}
    /\ Positions \subseteq {"old", "left", "right", "last"}

VARIABLES
    fw,         \* the transfer: see FwTypes
    mode,       \* the module exchanges data, or is in update mode
    flash       \* what each chunk of its flash holds

fvars == <<fw, mode, flash>>

Chunk == 1..Chunks
Attempts == IF WriteAttempts > EraseAttempts THEN WriteAttempts ELSE EraseAttempts
NoTransfer == [pc |-> "none", by |-> "upload", position |-> "left", addr |-> 0,
               attempts |-> 0, chunk |-> 1, ret |-> "ok"]

(* by: the ioctl; addr: where its telegrams go; attempts: those left.      *)
FwTypes ==
    /\ fw \in [pc: {"none", "enter", "erase", "write", "reset", "done"},
               by: {"upload", "update"},
               position: {"old", "left", "right", "last"}, addr: 0..2,
               attempts: 0..Attempts, chunk: 1..(Chunks + 1),
               ret: {"ok", "uptodate", "error"}]
    /\ mode \in {"io", "update"}
    /\ flash \in [Chunk -> {"old", "blank", "new"}]

FwInit ==
    /\ fw = NoTransfer
    /\ mode = "io"
    /\ flash = [k \in Chunk |-> "old"]

(* The address in update mode that the driver computes, and the external   *)
(* fact.                                                                   *)
UpdateAddress(position) ==
    CASE position = "old" -> 2
      [] position = "left" -> 1
      [] position \in {"right", "last"} -> IF position = "last" THEN 2 ELSE 1
Listens == IF fw.position \in {"old", "last"} THEN 2 ELSE 1

-----------------------------------------------------------------------------
(* request_firmware() and the checks of the file and of the versions: it   *)
(* does not match the module, it is not newer and not forced, or it will   *)
(* be transferred.                                                         *)
FwCheck(by, position) ==
    /\ fw.pc = "none"
    /\ \/ fw' = [NoTransfer EXCEPT !.pc = "done", !.by = by, !.ret = "error"]
       \/ fw' = [NoTransfer EXCEPT !.pc = "done", !.by = by, !.ret = "uptodate"]
       \/ fw' = [NoTransfer EXCEPT !.pc = "enter", !.by = by, !.position = position]
    /\ UNCHANGED <<mode, flash>>

(* fwuEnterFwuMode: the module does not answer, so a lost request goes     *)
(* unnoticed; one that could not be sent ends the transfer.                *)
FwEnter(sent, arrives) ==
    /\ fw.pc = "enter"
    /\ arrives => sent
    /\ mode' = IF arrives THEN "update" ELSE mode
    /\ fw' = IF sent
             THEN [fw EXCEPT !.pc = "erase", !.addr = UpdateAddress(fw.position),
                             !.attempts = EraseAttempts]
             ELSE [fw EXCEPT !.pc = "done", !.ret = "error"]
    /\ UNCHANGED flash

(* The module gets requests only in update mode, at its own address.       *)
Reached(arrives) == arrives /\ mode = "update" /\ fw.addr = Listens

(* FWU_update leaves the module as it is when something failed.            *)
FwFailed ==
    [fw EXCEPT !.ret = "error", !.attempts = 0,
               !.pc = IF fw.by = "upload" THEN "reset" ELSE "done"]
FirstChunk == [fw EXCEPT !.pc = "write", !.chunk = 1, !.attempts = WriteAttempts]

(* A bug: a failed erase is not noticed.                                   *)
FwEraseUnchecked(arrives, answered) ==
    /\ fw.pc = "erase"
    /\ answered => Reached(arrives)
    /\ flash' = IF Reached(arrives) THEN [k \in Chunk |-> "blank"] ELSE flash
    /\ fw' = IF answered \/ fw.attempts = 1 THEN FirstChunk
             ELSE [fw EXCEPT !.attempts = @ - 1]
    /\ UNCHANGED mode

(* erase_flash: one attempt.  An answer that tells an error, is too short  *)
(* or is lost after the flash was erased is not answered.                  *)
FwErase(arrives, answered) ==
    /\ fw.pc = "erase"
    /\ answered => Reached(arrives)
    /\ flash' = IF Reached(arrives) THEN [k \in Chunk |-> "blank"] ELSE flash
    /\ fw' = IF answered THEN FirstChunk
             ELSE IF fw.attempts > 1 THEN [fw EXCEPT !.attempts = @ - 1]
             ELSE FwFailed
    /\ UNCHANGED mode

(* A bug: the transfer goes on with the next chunk after the last attempt. *)
FwWriteGoesOn(arrives, answered) ==
    /\ fw.pc = "write" /\ fw.chunk \in Chunk
    /\ answered => Reached(arrives)
    /\ flash' = IF Reached(arrives) THEN [flash EXCEPT ![fw.chunk] = "new"] ELSE flash
    /\ fw' = IF answered \/ fw.attempts = 1
             THEN [fw EXCEPT !.chunk = @ + 1, !.attempts = WriteAttempts]
             ELSE [fw EXCEPT !.attempts = @ - 1]
    /\ UNCHANGED mode

(* flash_firmware, flash_chunk: one attempt of one chunk.                  *)
FwWrite(arrives, answered) ==
    /\ fw.pc = "write" /\ fw.chunk \in Chunk
    /\ answered => Reached(arrives)
    /\ flash' = IF Reached(arrives) THEN [flash EXCEPT ![fw.chunk] = "new"] ELSE flash
    /\ fw' = IF answered THEN [fw EXCEPT !.chunk = @ + 1, !.attempts = WriteAttempts]
             ELSE IF fw.attempts > 1 THEN [fw EXCEPT !.attempts = @ - 1]
             ELSE FwFailed
    /\ UNCHANGED mode

FwWritten ==
    /\ fw.pc = "write" /\ fw.chunk \notin Chunk
    /\ fw' = [fw EXCEPT !.pc = "reset", !.attempts = 0]
    /\ UNCHANGED <<mode, flash>>

(* fwuResetModule: not answered either.                                    *)
FwReset(sent, arrives) ==
    /\ fw.pc = "reset"
    /\ arrives => sent
    /\ mode' = IF arrives /\ fw.addr = Listens THEN "io" ELSE mode
    /\ fw' = [fw EXCEPT !.pc = "done",
                        !.ret = IF sent \/ fw.by = "update" THEN @ ELSE "error"]
    /\ UNCHANGED flash

FwStep ==
    \/ FwWritten
    \/ \E a, b \in BOOLEAN : FwEnter(a, b) \/ FwErase(a, b) \/ FwWrite(a, b) \/ FwReset(a, b)

-----------------------------------------------------------------------------
(* A transfer that reports success has written every chunk, though any     *)
(* request and any answer may have been lost, and repeated.                *)
FlashComplete ==
    fw.pc = "done" /\ fw.ret = "ok" => \A k \in Chunk : flash[k] = "new"

(* Nothing is written to flash that was not erased since it was last used: *)
(* a chunk that is written twice, because its answer was lost, is the same *)
(* one.                                                                    *)
WrittenOnErased ==
    [][\A k \in Chunk :
        flash'[k] = "new" /\ flash[k] # "new" => flash[k] = "blank"]_flash
=============================================================================
