------------------------ MODULE BridgeRequests_proofs ------------------------
(***************************************************************************)
(* What TLAPS proves of BridgeRequests, for any number of clients, modules *)
(* and chunks: the answers of telegrams and the transfer of firmware.      *)
(***************************************************************************)
EXTENDS BridgeRequests, TLAPS

(* The client that holds lockIoctl, and no other, is inside of an ioctl.   *)
LockInv == \A c \in Clients : pc[c] # "idle" <=> lockIoctl = c
PlaceInv == \A c \in Clients : pc[c] \in {"post", "down", "collect"} => op[c] \in Ops

(* The answer in a mailbox is one to the request of c, if there is one.    *)
Mine(r, c) == r.status = "ok" => r.first = c /\ r.rest \in {c, Zero}

(* A mailbox is in use only by a client that waits for it.                 *)
Waits(c, b) == pc[c] = "down" /\ Box(op[c]) = b
QuietInv ==
    \A b \in Mailboxes : box[b].pending \/ box[b].sem # 0 => \E c \in Clients : Waits(c, b)

(* Its request is still there, or it was answered, once; the answer stays  *)
(* until it has been collected.                                            *)
Requested(r, c) == r.pending /\ r.from = c /\ r.sem = 0
Answers(r, c) == ~r.pending /\ r.sem = 1 /\ Mine(r, c)
BoxInv ==
    \A c \in Clients, b \in Mailboxes :
        /\ Waits(c, b) => Requested(box[b], c) \/ Answers(box[b], c)
        /\ pc[c] = "collect" /\ Box(op[c]) = b => Mine(box[b], c)

TelegramInv == TelegramTypes /\ LockInv /\ PlaceInv /\ QuietInv /\ BoxInv /\ AnswerOwn

(* What the position in the firmware says about the flash.                 *)
WritingInv ==
    fw.pc = "write" => \A k \in Chunk :
        flash[k] \in {"blank", "new"} /\ (k < fw.chunk => flash[k] = "new")
WrittenInv ==
    fw.pc \in {"reset", "done"} /\ fw.ret = "ok" => \A k \in Chunk : flash[k] = "new"
FlashInv == FwTypes /\ WritingInv /\ WrittenInv

IndInv == TelegramInv /\ FlashInv

-----------------------------------------------------------------------------
(* Telegrams                                                               *)

Boxes == [pending: BOOLEAN, from: Clients \cup {Nobody}, status: {"ok", "none", "error"},
          first: Who, rest: Who, sem: 0..1]

(* What an ioctl may return.                                               *)
Results == [Clients -> [status: {"ok", "none", "error", "refused"}, first: Who, rest: Who]]

(* Every ioctl has one of the two mailboxes.                               *)
LEMMA NamedBox == ASSUME NEW o PROVE Box(o) \in Mailboxes
  BY DEF Box, Mailboxes

(* After the probe nobody has called, and both mailboxes are empty.        *)
LEMMA TelegramInitial == TelegramInit => TelegramInv
<1> SUFFICES ASSUME TelegramInit PROVE TelegramInv
  OBVIOUS
<1> USE TelegramAssumption DEF TelegramInit, Who, EmptyBox, NoResults, NoResult
<1>1. TelegramTypes
  BY DEF TelegramTypes, Mailboxes
<1>2. LockInv /\ PlaceInv /\ QuietInv
  BY DEF LockInv, PlaceInv, QuietInv, Mailboxes
<1>3. BoxInv /\ AnswerOwn
  BY DEF BoxInv, Waits, AnswerOwn
<1> QED
  BY <1>1, <1>2, <1>3 DEF TelegramInv

(* The call of an ioctl: no mailbox is in use.                             *)
LEMMA CallStep ==
    ASSUME TelegramInv, NEW c \in Clients, NEW r \in Requests, Call(c, r)
    PROVE  TelegramInv'
<1> USE TelegramAssumption DEF TelegramInv, Call
<1>1. TelegramTypes'
  <2>1. result' \in Results
    BY DEF Results, NoResults, NoResult, Who
  <2>2. /\ lockIoctl' \in Clients \cup {Nobody} /\ op' \in [Clients -> Ops \cup {Nobody}]
        /\ pc' \in [Clients -> {"idle", "post", "down", "collect", "upload"}]
    BY DEF TelegramTypes, Requests
  <2> QED
    BY <2>1, <2>2 DEF TelegramTypes, Results
<1>2. LockInv' /\ PlaceInv'
  BY DEF LockInv, PlaceInv, TelegramTypes, Requests
<1>3. \A d \in Clients, b \in Mailboxes :
        (Waits(d, b)' <=> Waits(d, b)) /\ (pc'[d] = "collect" => pc[d] = "collect" /\ op'[d] = op[d])
  BY DEF LockInv, TelegramTypes, Waits
<1>4. QuietInv' /\ BoxInv'
  BY <1>3 DEF QuietInv, BoxInv
<1>5. AnswerOwn'
  BY DEF AnswerOwn, TelegramTypes, NoResults, NoResult
<1> QED
  BY <1>1, <1>2, <1>4, <1>5

(* The request of a client that holds the lock comes into an unused box.   *)
LEMMA PostStep ==
    ASSUME TelegramInv, NEW c \in Clients, Post(c)
    PROVE  TelegramInv'
<1> USE TelegramAssumption DEF TelegramInv, Post
<1> DEFINE b == Box(op[c])
<1>1. b \in Mailboxes
  BY NamedBox
<1>2. box \in [Mailboxes -> Boxes] /\ pc[c] = "post"
  BY DEF TelegramTypes, Boxes
<1>3. \A d \in Clients : d # c => pc[d] = "idle"
  BY DEF LockInv
<1>4. box[b].pending = FALSE /\ box[b].sem = 0
  BY <1>1, <1>2, <1>3 DEF QuietInv, Waits, Boxes
<1>5. box' = [box EXCEPT ![b] = [box[b] EXCEPT !.pending = TRUE, !.from = c]]
  BY <1>1, <1>2
<1>6. box' \in [Mailboxes -> Boxes]
  BY <1>1, <1>2, <1>5 DEF Boxes
<1>7. TelegramTypes'
  BY <1>6 DEF TelegramTypes, Boxes
<1>8. LockInv' /\ PlaceInv' /\ AnswerOwn'
  BY DEF LockInv, PlaceInv, AnswerOwn, TelegramTypes
<1>9. \A d \in Clients, a \in Mailboxes :
        (Waits(d, a)' <=> d = c /\ a = b) /\ pc'[d] # "collect"
  BY <1>1, <1>2, <1>3 DEF Waits, TelegramTypes
<1>10. Requested(box'[b], c)
  BY <1>1, <1>2, <1>4, <1>5 DEF Requested, Boxes
<1>11. \A a \in Mailboxes : a # b => ~box'[a].pending /\ box'[a].sem = 0
  BY <1>1, <1>2, <1>3, <1>5 DEF QuietInv, Waits, Boxes
<1>12. QuietInv'
  BY <1>9, <1>11 DEF QuietInv
<1>13. BoxInv'
  BY <1>9, <1>10 DEF BoxInv
<1> QED
  BY <1>7, <1>8, <1>12, <1>13

(* The client wakes up when its request was answered.                      *)
LEMMA DownStep ==
    ASSUME TelegramInv, NEW c \in Clients, Down(c)
    PROVE  TelegramInv'
<1> USE TelegramAssumption DEF TelegramInv, Down
<1> DEFINE b == Box(op[c])
<1>1. b \in Mailboxes
  BY NamedBox
<1>2. box \in [Mailboxes -> Boxes] /\ pc[c] = "down" /\ box[b].sem > 0
  BY DEF TelegramTypes, Boxes
<1>3. \A d \in Clients : d # c => pc[d] = "idle"
  BY DEF LockInv
<1>4. Answers(box[b], c)
  BY <1>1, <1>2 DEF BoxInv, Waits, Requested
<1>5. box' = [box EXCEPT ![b] = [box[b] EXCEPT !.sem = 0]]
  BY <1>1, <1>2, <1>4 DEF Answers, Boxes
<1>6. box' \in [Mailboxes -> Boxes]
  BY <1>1, <1>2, <1>5 DEF Boxes
<1>7. TelegramTypes'
  BY <1>6 DEF TelegramTypes, Boxes
<1>8. LockInv' /\ PlaceInv' /\ AnswerOwn'
  BY <1>2 DEF LockInv, PlaceInv, AnswerOwn, TelegramTypes
<1>9. \A d \in Clients, a \in Mailboxes :
        ~Waits(d, a)' /\ (pc'[d] = "collect" /\ Box(op'[d]) = a => d = c /\ a = b)
  BY <1>1, <1>2, <1>3 DEF Waits, TelegramTypes
<1>10. Mine(box'[b], c) /\ ~box'[b].pending /\ box'[b].sem = 0
  BY <1>1, <1>2, <1>4, <1>5 DEF Answers, Mine, Boxes
<1>11. \A a \in Mailboxes : a # b => ~box'[a].pending /\ box'[a].sem = 0
  BY <1>1, <1>2, <1>3, <1>5 DEF QuietInv, Waits, Boxes
<1>12. QuietInv' /\ BoxInv'
  BY <1>9, <1>10, <1>11 DEF QuietInv, BoxInv
<1> QED
  BY <1>7, <1>8, <1>12

(* The client copies the answer that its mailbox still holds, and returns. *)
LEMMA CollectStep ==
    ASSUME TelegramInv, NEW c \in Clients, Collect(c)
    PROVE  TelegramInv'
<1> USE TelegramAssumption DEF TelegramInv, Collect
<1> DEFINE b == Box(op[c])
<1>1. b \in Mailboxes
  BY NamedBox
<1>2. box \in [Mailboxes -> Boxes] /\ pc[c] = "collect"
  BY DEF TelegramTypes, Boxes
<1>3. Mine(box[b], c)
  BY <1>1, <1>2 DEF BoxInv
<1>4. TelegramTypes'
  BY <1>1, <1>2 DEF TelegramTypes, Boxes, NoResults, NoResult, Who
<1>5. LockInv' /\ PlaceInv'
  BY <1>2 DEF LockInv, PlaceInv, TelegramTypes
<1>6. AnswerOwn'
  BY <1>3 DEF AnswerOwn, TelegramTypes, Mine, NoResults, NoResult
<1>7. \A d \in Clients, a \in Mailboxes :
        (Waits(d, a)' <=> Waits(d, a)) /\ pc'[d] # "collect"
  BY <1>2 DEF LockInv, TelegramTypes, Waits
<1>8. QuietInv' /\ BoxInv'
  BY <1>7 DEF QuietInv, BoxInv
<1> QED
  BY <1>4, <1>5, <1>6, <1>8

(* The I/O thread answers the request in a mailbox.                        *)
LEMMA AnswerStep ==
    ASSUME TelegramInv, NEW b \in Mailboxes, NEW r \in Boxes,
           box[b].pending, box' = [box EXCEPT ![b] = r],
           ~r.pending, r.sem = box[b].sem + 1, Mine(r, box[b].from),
           io' \in {"idle", "user", "gate"}, UNCHANGED <<lockIoctl, bridge, pc, op, result>>
    PROVE  TelegramInv'
<1> USE TelegramAssumption DEF TelegramInv
<1>1. box \in [Mailboxes -> Boxes]
  BY DEF TelegramTypes, Boxes
<1>2. PICK c \in Clients : Waits(c, b)
  BY DEF QuietInv
<1>3. Requested(box[b], c) /\ pc[c] = "down"
  BY <1>2 DEF BoxInv, Answers, Waits
<1>4. \A d \in Clients : d # c => pc[d] = "idle"
  BY <1>3 DEF LockInv
<1>5. TelegramTypes'
  BY <1>1 DEF TelegramTypes, Boxes
<1>6. LockInv' /\ PlaceInv' /\ AnswerOwn'
  BY DEF LockInv, PlaceInv, AnswerOwn
<1>7. \A d \in Clients, a \in Mailboxes :
        (Waits(d, a)' <=> Waits(d, a)) /\ pc'[d] # "collect"
        /\ (Waits(d, a) <=> d = c /\ a = b)
  BY <1>2, <1>3, <1>4 DEF Waits
<1>8. Answers(box'[b], c)
  BY <1>1, <1>3 DEF Answers, Requested
<1>9. \A a \in Mailboxes : a # b => box'[a] = box[a]
  BY <1>1
<1>10. QuietInv'
  BY <1>2, <1>7, <1>9 DEF QuietInv
<1>11. BoxInv'
  BY <1>7, <1>8 DEF BoxInv
<1> QED
  BY <1>5, <1>6, <1>10, <1>11

(* A mailbox whose request is answered is still one.                       *)
LEMMA PostedBox ==
    ASSUME NEW m \in Boxes, m.sem = 0
    PROVE  LET r == [m EXCEPT !.pending = FALSE, !.from = Nobody, !.sem = @ + 1] IN
           /\ r \in Boxes /\ ~r.pending /\ r.sem = m.sem + 1
           /\ r.status = m.status /\ r.first = m.first /\ r.rest = m.rest
<1> DEFINE r == [m EXCEPT !.pending = FALSE, !.from = Nobody, !.sem = @ + 1]
<1>1. ASSUME NEW p \in BOOLEAN, NEW f \in Clients \cup {Nobody}, NEW n \in 0..1
      PROVE  [m EXCEPT !.pending = p, !.from = f, !.sem = n] \in Boxes
  BY DEF Boxes
<1>2. r \in Boxes
  <2>1. FALSE \in BOOLEAN /\ Nobody \in Clients \cup {Nobody} /\ m.sem + 1 \in 0..1
    OBVIOUS
  <2> QED
    BY ONLY <1>1, <2>1, Zenon
<1>3. ~r.pending /\ r.sem = m.sem + 1
  BY DEF Boxes
<1>4. r.status = m.status /\ r.first = m.first /\ r.rest = m.rest
  BY DEF Boxes
<1> QED
  BY <1>2, <1>3, <1>4

(* The I/O thread does nothing to a mailbox, or answers the request in it. *)
Answered(b, r) ==
    /\ box[b].pending /\ box' = [box EXCEPT ![b] = r]
    /\ ~r.pending /\ r.sem = box[b].sem + 1 /\ Mine(r, box[b].from)
LookEffect ==
    /\ UNCHANGED <<lockIoctl, bridge, pc, op, result>>
    /\ io' \in {"idle", "user", "gate"}
    /\ UNCHANGED box \/ \E b \in Mailboxes, r \in Boxes : Answered(b, r)

(* This is all that a look into a mailbox does.                            *)
LEMMA Look ==
    ASSUME TelegramInv, LookIntoBoxes
    PROVE  LookEffect
<1> USE TelegramAssumption
<1>2. box \in [Mailboxes -> Boxes]
  BY DEF TelegramInv, TelegramTypes, Boxes
<1>3. CASE LookUser \/ \E b \in Mailboxes : NoTelegram(b)
  BY <1>3 DEF LookUser, NoTelegram, LookEffect
<1>4. ASSUME NEW b \in Mailboxes, box[b].pending
      PROVE  box[b].from \in Clients /\ box[b].sem = 0
  BY <1>4 DEF TelegramInv, QuietInv, BoxInv, Answers, Requested
<1>5. ASSUME NEW full \in BOOLEAN, UserTelegram(TRUE, full)
      PROVE  LookEffect
  <2> DEFINE old == box["user"]
             m == [[old EXCEPT !.first = Zero, !.rest = Zero] EXCEPT
                       !.status = "ok", !.first = old.from,
                       !.rest = IF full THEN old.from ELSE Zero]
             r == [m EXCEPT !.pending = FALSE, !.from = Nobody, !.sem = @ + 1]
  <2>1. "user" \in Mailboxes /\ old.pending /\ old \in Boxes
    BY <1>2, <1>5 DEF UserTelegram, Mailboxes
  <2>2. old.from \in Clients /\ old.sem = 0
    BY <1>4, <2>1
  <2>3. m \in Boxes /\ m.sem = old.sem /\ m.status = "ok" /\ m.first = old.from /\ m.rest \in {old.from, Zero}
    BY <2>1, <2>2, <1>5 DEF Boxes, Who
  <2>4. r \in Boxes /\ ~r.pending /\ r.sem = old.sem + 1 /\ Mine(r, old.from)
    <3> HIDE DEF m
    <3> QED
      BY <2>2, <2>3, PostedBox DEF Mine
  <2>5. box' = [box EXCEPT !["user"] = r]
    BY <1>5 DEF UserTelegram, Posted
  <2>6. io' \in {"idle", "user", "gate"} /\ UNCHANGED <<lockIoctl, bridge, pc, op, result>>
    BY <1>5 DEF UserTelegram
  <2> HIDE DEF r
  <2> QED
    BY <2>1, <2>4, <2>5, <2>6 DEF LookEffect, Answered
<1>6. ASSUME NEW full \in BOOLEAN, UserTelegram(FALSE, full)
      PROVE  LookEffect
  <2> DEFINE old == box["user"]
             m == [[old EXCEPT !.first = Zero, !.rest = Zero] EXCEPT !.status = "error"]
             r == [m EXCEPT !.pending = FALSE, !.from = Nobody, !.sem = @ + 1]
  <2>1. "user" \in Mailboxes /\ old.pending /\ old \in Boxes
    BY <1>2, <1>6 DEF UserTelegram, Mailboxes
  <2>2. old.from \in Clients /\ old.sem = 0
    BY <1>4, <2>1
  <2>3. m \in Boxes /\ m.sem = old.sem /\ m.status = "error"
    BY <2>1, <2>2, <1>6 DEF Boxes, Who
  <2>4. r \in Boxes /\ ~r.pending /\ r.sem = old.sem + 1 /\ Mine(r, old.from)
    <3> HIDE DEF m
    <3> QED
      BY <2>2, <2>3, PostedBox DEF Mine
  <2>5. box' = [box EXCEPT !["user"] = r]
    BY <1>6 DEF UserTelegram, Posted
  <2>6. io' \in {"idle", "user", "gate"} /\ UNCHANGED <<lockIoctl, bridge, pc, op, result>>
    BY <1>6 DEF UserTelegram
  <2> HIDE DEF r
  <2> QED
    BY <2>1, <2>4, <2>5, <2>6 DEF LookEffect, Answered
<1>7. ASSUME GateTelegram("ok")
      PROVE  LookEffect
  <2> DEFINE old == box["gate"]
             m == [old EXCEPT !.status = "ok", !.first = old.from, !.rest = old.from]
             r == [m EXCEPT !.pending = FALSE, !.from = Nobody, !.sem = @ + 1]
  <2>1. "gate" \in Mailboxes /\ old.pending /\ old \in Boxes
    BY <1>2, <1>7 DEF GateTelegram, Mailboxes
  <2>2. old.from \in Clients /\ old.sem = 0
    BY <1>4, <2>1
  <2>3. m \in Boxes /\ m.sem = old.sem /\ m.status = "ok" /\ m.first = old.from /\ m.rest = old.from
    BY <2>1, <2>2, <1>7 DEF Boxes, Who
  <2>4. r \in Boxes /\ ~r.pending /\ r.sem = old.sem + 1 /\ Mine(r, old.from)
    <3> HIDE DEF m
    <3> QED
      BY <2>2, <2>3, PostedBox DEF Mine
  <2>5. box' = [box EXCEPT !["gate"] = r]
    BY <1>7 DEF GateTelegram, Posted
  <2>6. io' \in {"idle", "user", "gate"} /\ UNCHANGED <<lockIoctl, bridge, pc, op, result>>
    BY <1>7 DEF GateTelegram
  <2> HIDE DEF r
  <2> QED
    BY <2>1, <2>4, <2>5, <2>6 DEF LookEffect, Answered
<1>8. ASSUME NEW status \in {"none", "error"}, GateTelegram(status)
      PROVE  LookEffect
  <2> DEFINE old == box["gate"]
             m == [old EXCEPT !.status = status]
             r == [m EXCEPT !.pending = FALSE, !.from = Nobody, !.sem = @ + 1]
  <2>1. "gate" \in Mailboxes /\ old.pending /\ old \in Boxes
    BY <1>2, <1>8 DEF GateTelegram, Mailboxes
  <2>2. old.from \in Clients /\ old.sem = 0
    BY <1>4, <2>1
  <2>3. m \in Boxes /\ m.sem = old.sem /\ m.status = status
    BY <2>1, <2>2, <1>8 DEF Boxes, Who
  <2>4. r \in Boxes /\ ~r.pending /\ r.sem = old.sem + 1 /\ Mine(r, old.from)
    <3> HIDE DEF m
    <3> QED
      BY <2>2, <2>3, PostedBox DEF Mine
  <2>5. box' = [box EXCEPT !["gate"] = r]
    BY <1>8 DEF GateTelegram, Posted
  <2>6. io' \in {"idle", "user", "gate"} /\ UNCHANGED <<lockIoctl, bridge, pc, op, result>>
    BY <1>8 DEF GateTelegram
  <2> HIDE DEF r
  <2> QED
    BY <2>1, <2>4, <2>5, <2>6 DEF LookEffect, Answered
<1> QED
  BY <1>3, <1>5, <1>6, <1>7, <1>8 DEF LookIntoBoxes

(* A look of the I/O thread into a mailbox.                                *)
LEMMA LookStep ==
    ASSUME TelegramInv, LookIntoBoxes
    PROVE  TelegramInv'
<1>1. LookEffect
  BY Look
<1>2. CASE UNCHANGED box
  BY <1>1, <1>2 DEF LookEffect, TelegramInv, TelegramTypes, LockInv, PlaceInv, QuietInv,
     BoxInv, AnswerOwn, Waits
<1>3. ASSUME NEW b \in Mailboxes, NEW r \in Boxes, Answered(b, r)
      PROVE  TelegramInv'
  BY <1>1, <1>3, AnswerStep DEF LookEffect, Answered
<1> QED
  BY <1>1, <1>2, <1>3 DEF LookEffect

(* The bridge starts, fails, is managed; a client updates firmware.        *)
LEMMA OtherSteps ==
    ASSUME TelegramInv,
           \/ InitDone \/ ErrorStop \/ Manage \/ ConfigStart
           \/ \E c \in Clients :
                 \/ \E by \in {"upload", "update"}, p \in Positions : UploadStart(c, by, p)
                 \/ UploadStep(c) \/ UploadEnd(c)
    PROVE  TelegramInv'
<1> USE TelegramAssumption
<1> USE DEF TelegramInv, TelegramTypes, LockInv, PlaceInv, QuietInv, BoxInv, AnswerOwn, Waits
<1>1. CASE InitDone \/ ErrorStop \/ Manage \/ ConfigStart
  BY <1>1 DEF InitDone, ErrorStop, Manage, ConfigStart
<1>2. ASSUME NEW c \in Clients, UploadStep(c)
      PROVE  TelegramInv'
  BY <1>2 DEF UploadStep, tvars
<1>3. ASSUME NEW c \in Clients, NEW by, NEW p, UploadStart(c, by, p)
      PROVE  TelegramInv'
  BY <1>3 DEF UploadStart, NoResults, NoResult, Who
<1>4. ASSUME NEW c \in Clients, UploadEnd(c)
      PROVE  TelegramInv'
  <2>1. PICK status \in {"ok", "error"} :
            result' = [result EXCEPT ![c] = [NoResult EXCEPT !.status = status]]
    BY <1>4 DEF UploadEnd
  <2>2. result' \in Results /\ AnswerOwn'
    <3>1. [NoResult EXCEPT !.status = status] = [status |-> status, first |-> Zero, rest |-> Zero]
      BY DEF NoResult
    <3>2. result' = [result EXCEPT ![c] = [status |-> status, first |-> Zero, rest |-> Zero]]
      BY <2>1, <3>1
    <3> QED
      BY <3>2 DEF Results, Who
  <2>3. /\ bridge' \in {"init", "run"} /\ pc[c] = "upload" /\ pc' = [pc EXCEPT ![c] = "idle"]
        /\ lockIoctl' = Nobody /\ UNCHANGED <<op, box, io>>
    BY <1>4 DEF UploadEnd
  <2> QED
    BY <2>2, <2>3 DEF Results
<1> QED
  BY <1>1, <1>2, <1>3, <1>4

(* All steps together.                                                     *)
LEMMA TelegramStep ==
    ASSUME TelegramInv, Next
    PROVE  TelegramInv'
<1>1. CASE Telegrams
  <2>1. ASSUME NEW c \in Clients, ClientStep(c)
        PROVE  TelegramInv'
    BY <2>1, PostStep, DownStep, CollectStep DEF ClientStep
  <2> QED
    BY <1>1, <2>1, CallStep, LookStep, OtherSteps DEF Telegrams
<1>2. CASE Uploads
  BY <1>2, OtherSteps DEF Uploads
<1> QED
  BY <1>1, <1>2 DEF Next

-----------------------------------------------------------------------------
(* Firmware                                                                *)

(* There is no transfer at first.                                          *)
LEMMA FlashInitial == FwInit => FlashInv
  BY FirmwareAssumption
     DEF FwInit, FlashInv, FwTypes, WritingInv, WrittenInv, NoTransfer, Attempts, Chunk

Transfers == [pc: {"none", "enter", "erase", "write", "reset", "done"},
              by: {"upload", "update"},
              position: {"old", "left", "right", "last"}, addr: 0..2,
              attempts: 0..Attempts, chunk: 1..(Chunks + 1),
              ret: {"ok", "uptodate", "error"}]

(* The changes of a transfer by its steps leave it one.                    *)
LEMMA TransferFields ==
    ASSUME NEW r \in Transfers, NEW n \in 0..Attempts, NEW k \in 1..(Chunks + 1),
           NEW p \in {"none", "enter", "erase", "write", "reset", "done"}
    PROVE  /\ [r EXCEPT !.attempts = n] \in Transfers
           /\ [r EXCEPT !.chunk = k, !.attempts = n] \in Transfers
           /\ [r EXCEPT !.pc = p, !.chunk = k, !.attempts = n] \in Transfers
           /\ [r EXCEPT !.ret = "error", !.attempts = n, !.pc = p] \in Transfers
<1>1. [r EXCEPT !.attempts = n] \in Transfers
  BY DEF Transfers
<1>2. [r EXCEPT !.chunk = k, !.attempts = n] \in Transfers
  BY DEF Transfers
<1>3. [r EXCEPT !.pc = p, !.chunk = k, !.attempts = n] \in Transfers
  BY DEF Transfers
<1>4. [r EXCEPT !.ret = "error", !.attempts = n, !.pc = p] \in Transfers
  BY DEF Transfers
<1> QED
  BY <1>1, <1>2, <1>3, <1>4

(* Each step of a transfer.                                                *)
LEMMA FwStepFlash ==
    ASSUME FlashInv, FwStep
    PROVE  FlashInv'
<1> USE FirmwareAssumption DEF FlashInv, Chunk
<1>1. /\ Attempts \in Nat /\ WriteAttempts \in 0..Attempts /\ EraseAttempts \in 0..Attempts
      /\ 0 \in 0..Attempts /\ 1 \in 1..(Chunks + 1)
  BY DEF Attempts
<1>2. fw \in Transfers /\ fw.attempts \in 0..Attempts /\ fw.chunk \in 1..(Chunks + 1)
  BY DEF FwTypes, Transfers
<1>8. FwTypes' <=>
        /\ fw' \in Transfers
        /\ mode' \in {"io", "update"} /\ flash' \in [Chunk -> {"old", "blank", "new"}]
  BY DEF FwTypes, Transfers, Attempts
<1>9. FwFailed \in Transfers
  <2> DEFINE p == IF fw.by = "upload" THEN "reset" ELSE "done"
  <2>1. p \in {"none", "enter", "erase", "write", "reset", "done"}
    OBVIOUS
  <2>2. FwFailed = [fw EXCEPT !.ret = "error", !.attempts = 0, !.pc = p]
    BY DEF FwFailed
  <2> HIDE DEF p
  <2> QED
    BY <1>1, <1>2, <2>1, <2>2, TransferFields
<1>3. CASE FwWritten
  <2>1. FwTypes'
    <3>1. 0 \in 0..Attempts
      BY <1>1
    <3> QED
      BY <1>3, <3>1 DEF FwWritten, FwTypes
  <2>2. WritingInv' /\ WrittenInv'
    BY <1>2, <1>3 DEF FwWritten, FwTypes, WritingInv, WrittenInv
  <2> QED
    BY <2>1, <2>2
<1>4. ASSUME NEW a \in BOOLEAN, NEW b \in BOOLEAN, FwEnter(a, b)
      PROVE  FlashInv'
  <2>1. UpdateAddress(fw.position) \in 0..2
    BY DEF UpdateAddress, FwTypes
  <2>2. FwTypes'
    BY <1>1, <1>4, <2>1 DEF FwEnter, FwTypes
  <2>3. WritingInv' /\ WrittenInv'
    BY <1>4 DEF FwEnter, FwTypes, WritingInv, WrittenInv
  <2> QED
    BY <2>2, <2>3
<1>5. ASSUME NEW a \in BOOLEAN, NEW b \in BOOLEAN, FwErase(a, b)
      PROVE  FlashInv'
  <2>1. FwTypes'
    <3>1. mode' \in {"io", "update"} /\ flash' \in [Chunk -> {"old", "blank", "new"}]
      BY <1>5 DEF FwErase, FwTypes
    <3>2. CASE fw' = FirstChunk
      BY <1>1, <1>2, <1>8, <3>1, <3>2, TransferFields DEF FirstChunk
    <3>3. CASE fw' = [fw EXCEPT !.attempts = @ - 1] /\ fw.attempts > 1
      <4>1. fw.attempts - 1 \in 0..Attempts
        BY <1>1, <1>2, <3>3
      <4> QED
        BY <1>2, <1>8, <3>1, <3>3, <4>1, TransferFields
    <3> QED
      BY <1>5, <1>8, <1>9, <3>1, <3>2, <3>3 DEF FwErase
  <2>2. WritingInv' /\ WrittenInv'
    BY <1>5 DEF FwErase, Reached, FwTypes, WritingInv, WrittenInv, FirstChunk, FwFailed
  <2> QED
    BY <2>1, <2>2
<1>6. ASSUME NEW a \in BOOLEAN, NEW b \in BOOLEAN, FwWrite(a, b)
      PROVE  FlashInv'
  <2>1. FwTypes'
    <3>1. mode' \in {"io", "update"} /\ flash' \in [Chunk -> {"old", "blank", "new"}]
      BY <1>6 DEF FwWrite, FwTypes
    <3>2. CASE fw' = [fw EXCEPT !.chunk = @ + 1, !.attempts = WriteAttempts]
      <4>1. fw.chunk + 1 \in 1..(Chunks + 1)
        BY <1>2, <1>6 DEF FwWrite
      <4> QED
        BY <1>1, <1>2, <1>8, <3>1, <3>2, <4>1, TransferFields
    <3>3. CASE fw' = [fw EXCEPT !.attempts = @ - 1] /\ fw.attempts > 1
      <4>1. fw.attempts - 1 \in 0..Attempts
        BY <1>1, <1>2, <3>3
      <4> QED
        BY <1>2, <1>8, <3>1, <3>3, <4>1, TransferFields
    <3> QED
      BY <1>6, <1>8, <1>9, <3>1, <3>2, <3>3 DEF FwWrite
  <2>2. WritingInv' /\ WrittenInv'
    BY <1>2, <1>6 DEF FwWrite, Reached, FwTypes, WritingInv, WrittenInv, FwFailed
  <2> QED
    BY <2>1, <2>2
<1>7. ASSUME NEW a \in BOOLEAN, NEW b \in BOOLEAN, FwReset(a, b)
      PROVE  FlashInv'
  <2>1. FwTypes'
    BY <1>7 DEF FwReset, FwTypes
  <2>2. WritingInv' /\ WrittenInv'
    BY <1>7 DEF FwReset, FwTypes, WritingInv, WrittenInv
  <2> QED
    BY <2>1, <2>2
<1> QED
  BY <1>3, <1>4, <1>5, <1>6, <1>7 DEF FwStep

(* All steps together.                                                     *)
LEMMA FlashStep ==
    ASSUME FlashInv, Next
    PROVE  FlashInv'
<1>1. CASE UNCHANGED fvars
  BY <1>1 DEF fvars, FlashInv, FwTypes, WritingInv, WrittenInv
<1>2. ASSUME NEW by \in {"upload", "update"}, NEW p \in Positions, FwCheck(by, p)
      PROVE  FlashInv'
  <2>1. FwTypes'
    <3>1. 0 \in 0..Attempts /\ 1 \in 1..(Chunks + 1)
      BY FirmwareAssumption DEF Attempts
    <3>2. ASSUME NEW place \in {"enter", "done"}, NEW outcome \in {"ok", "uptodate", "error"},
                 NEW position \in {"old", "left", "right", "last"}
          PROVE  [pc |-> place, by |-> by, position |-> position, addr |-> 0, attempts |-> 0,
                  chunk |-> 1, ret |-> outcome] \in Transfers
      BY <3>1 DEF Transfers
    <3>3. p \in {"old", "left", "right", "last"}
      BY FirmwareAssumption
    <3>4. \/ fw' = [pc |-> "done", by |-> by, position |-> "left", addr |-> 0, attempts |-> 0,
                    chunk |-> 1, ret |-> "error"]
          \/ fw' = [pc |-> "done", by |-> by, position |-> "left", addr |-> 0, attempts |-> 0,
                    chunk |-> 1, ret |-> "uptodate"]
          \/ fw' = [pc |-> "enter", by |-> by, position |-> p, addr |-> 0, attempts |-> 0,
                    chunk |-> 1, ret |-> "ok"]
      BY <1>2 DEF FwCheck, NoTransfer
    <3>5. fw' \in Transfers
      BY <3>2, <3>3, <3>4
    <3> QED
      BY <1>2, <3>5 DEF FwCheck, FlashInv, FwTypes, Transfers, Attempts
  <2>2. WritingInv' /\ WrittenInv'
    BY <1>2 DEF FwCheck, WritingInv, WrittenInv, NoTransfer
  <2> QED
    BY <2>1, <2>2 DEF FlashInv
<1>3. ASSUME NEW c \in Clients, UploadEnd(c)
      PROVE  FlashInv'
  <2>1. fw' = NoTransfer
    BY <1>3 DEF UploadEnd
  <2>2. /\ mode' = mode \/ mode' = "io"
        /\ flash' = flash \/ flash' = [k \in Chunk |-> "old"]
    BY <1>3 DEF UploadEnd
  <2> QED
    BY <2>1, <2>2, FirmwareAssumption
       DEF FlashInv, FwTypes, WritingInv, WrittenInv, NoTransfer, Attempts, Chunk
<1> QED
  BY <1>1, <1>2, <1>3, FwStepFlash DEF Next, Uploads, UploadStart, UploadStep

-----------------------------------------------------------------------------
(* The inductive invariant holds in every reachable state.                 *)
THEOREM Invariance == Spec => []IndInv
<1>1. Init => IndInv
  BY TelegramInitial, FlashInitial DEF Init, IndInv
<1>2. IndInv /\ [Next]_vars => IndInv'
  <2>1. ASSUME IndInv, Next PROVE IndInv'
    BY <2>1, TelegramStep, FlashStep DEF IndInv
  <2>2. ASSUME IndInv, UNCHANGED vars PROVE IndInv'
    BY <2>2 DEF IndInv, TelegramInv, TelegramTypes, LockInv, PlaceInv, QuietInv, BoxInv,
       AnswerOwn, Waits, FlashInv, FwTypes, WritingInv, WrittenInv, vars, tvars, fvars
  <2> QED
    BY <2>1, <2>2
<1> QED
  BY <1>1, <1>2, PTL DEF Spec

(* No client ever gets a byte of an answer to another one's request, as    *)
(* RevPiDevice_handle_internal_telegrams() clears the buffer each time.    *)
THEOREM AnswersAreOwn == Spec => []AnswerOwn
<1>1. IndInv => AnswerOwn
  BY DEF IndInv, TelegramInv
<1> QED
  BY <1>1, Invariance, PTL

(* upload_firmware() and FWU_update() report success only if every chunk   *)
(* was written, though any telegram may get lost.                          *)
THEOREM SuccessMeansWritten == Spec => []FlashComplete
<1>1. IndInv => FlashComplete
  BY DEF IndInv, FlashInv, WrittenInv, FlashComplete
<1> QED
  BY <1>1, Invariance, PTL

(* flash_chunk() writes no chunk that erase_flash() has not erased, or     *)
(* that it has not written itself in an attempt before.                    *)
THEOREM ErasedBeforeWritten == Spec => WrittenOnErased
<1> DEFINE Erased == \A k \in Chunk :
                        flash'[k] = "new" /\ flash[k] # "new" => flash[k] = "blank"
<1>1. ASSUME IndInv, Next PROVE Erased \/ UNCHANGED flash
  <2>1. CASE UNCHANGED flash
    BY <2>1
  <2>2. ASSUME NEW a \in BOOLEAN, NEW b \in BOOLEAN, FwErase(a, b) PROVE Erased
    BY <2>2 DEF FwErase, IndInv, FlashInv, FwTypes
  <2>3. ASSUME NEW a \in BOOLEAN, NEW b \in BOOLEAN, FwWrite(a, b) PROVE Erased
    <3>1. CASE flash' = [flash EXCEPT ![fw.chunk] = "new"]
      BY <1>1, <2>3, <3>1 DEF FwWrite, IndInv, FlashInv, FwTypes, WritingInv
    <3>2. CASE flash' = flash
      BY <3>2
    <3> QED
      BY <2>3, <3>1, <3>2 DEF FwWrite
  <2>4. ASSUME NEW c \in Clients, UploadEnd(c) PROVE Erased
    BY <2>4 DEF UploadEnd
  <2>5. CASE UNCHANGED fvars
    BY <2>5 DEF fvars
  <2> QED
    BY <1>1, <2>1, <2>2, <2>3, <2>4, <2>5
       DEF Next, Uploads, UploadStart, UploadStep, FwStep, FwCheck, FwWritten, FwEnter, FwReset
<1>2. IndInv /\ [Next]_vars => [Erased]_flash
  BY <1>1 DEF vars, fvars
<1> QED
  BY <1>2, Invariance, PTL DEF Spec, WrittenOnErased

-----------------------------------------------------------------------------
(* The refinement                                                          *)

(* What Service maps call and answer to.                                   *)
Calls == [c \in Clients |-> IF pc[c] \in {"post", "down", "collect"}
                            THEN IF Served(c) THEN "served" ELSE "asked" ELSE "none"]
Replies == [c \in Clients |-> IF pc[c] \in {"down", "collect"} /\ Served(c)
                                  /\ box[Box(op[c])].status = "ok"
                               THEN box[Box(op[c])].first ELSE Zero]

(* The steps of RequestService in terms of these two.                      *)
LEMMA ServiceSteps ==
    /\ Service!Init <=> /\ Calls = [c \in Clients |-> "none"]
                        /\ Replies = [c \in Clients |-> Zero]
    /\ Service!Next <=> \E c \in Clients :
           \/ /\ \A d \in Clients : Calls[d] = "none"
              /\ Calls' = [Calls EXCEPT ![c] = "asked"] /\ UNCHANGED Replies
           \/ /\ Calls[c] = "asked" /\ Calls' = [Calls EXCEPT ![c] = "served"]
              /\ \E a \in {c, Zero} : Replies' = [Replies EXCEPT ![c] = a]
           \/ /\ Calls[c] = "served" /\ Calls' = [Calls EXCEPT ![c] = "none"]
              /\ Replies' = [Replies EXCEPT ![c] = Zero]
    /\ UNCHANGED Service!vars <=> UNCHANGED <<Calls, Replies>>
<1>1. Service!Init <=> /\ Calls = [c \in Clients |-> "none"]
                      /\ Replies = [c \in Clients |-> Zero]
  BY DEF Service!Init, Calls, Replies
<1>2. UNCHANGED Service!vars <=> UNCHANGED <<Calls, Replies>>
  BY DEF Service!vars, Calls, Replies
<1>3. ASSUME NEW c \in Clients
      PROVE  /\ Service!Ask(c) <=>
                    /\ \A d \in Clients : Calls[d] = "none"
                    /\ Calls' = [Calls EXCEPT ![c] = "asked"] /\ UNCHANGED Replies
             /\ Service!Serve(c) <=>
                    /\ Calls[c] = "asked" /\ Calls' = [Calls EXCEPT ![c] = "served"]
                    /\ \E a \in {c, Zero} : Replies' = [Replies EXCEPT ![c] = a]
             /\ Service!Return(c) <=>
                    /\ Calls[c] = "served" /\ Calls' = [Calls EXCEPT ![c] = "none"]
                    /\ Replies' = [Replies EXCEPT ![c] = Zero]
  BY DEF Service!Ask, Service!Serve, Service!Return, Calls, Replies
<1> QED
  BY <1>1, <1>2, <1>3 DEF Service!Next

(* Outside of the three places a call has no answer, before Down the       *)
(* semaphore of its mailbox decides.                                       *)
LEMMA CallValues ==
    ASSUME NEW c \in Clients
    PROVE  /\ pc[c] \notin {"post", "down", "collect"} => Calls[c] = "none" /\ Replies[c] = Zero
           /\ pc[c] = "post" => Calls[c] = "asked" /\ Replies[c] = Zero
           /\ pc[c] = "down" /\ ~(box[Box(op[c])].sem > 0) =>
                  Calls[c] = "asked" /\ Replies[c] = Zero
           /\ pc[c] = "collect" \/ (pc[c] = "down" /\ box[Box(op[c])].sem > 0) =>
                  Calls[c] = "served"
           /\ (pc[c] = "collect" \/ (pc[c] = "down" /\ box[Box(op[c])].sem > 0)) =>
                  Replies[c] = IF box[Box(op[c])].status = "ok" THEN box[Box(op[c])].first ELSE Zero
  BY DEF Calls, Replies, Served

(* The same of the next state.                                             *)
LEMMA CallValuesNext ==
    ASSUME NEW c \in Clients
    PROVE  /\ pc'[c] \notin {"post", "down", "collect"} => Calls'[c] = "none" /\ Replies'[c] = Zero
           /\ pc'[c] = "post" => Calls'[c] = "asked" /\ Replies'[c] = Zero
           /\ pc'[c] = "down" /\ ~(box'[Box(op'[c])].sem > 0) =>
                  Calls'[c] = "asked" /\ Replies'[c] = Zero
           /\ pc'[c] = "collect" \/ (pc'[c] = "down" /\ box'[Box(op'[c])].sem > 0) =>
                  Calls'[c] = "served"
           /\ (pc'[c] = "collect" \/ (pc'[c] = "down" /\ box'[Box(op'[c])].sem > 0)) =>
                  Replies'[c] = IF box'[Box(op'[c])].status = "ok" THEN box'[Box(op'[c])].first ELSE Zero
  BY DEF Calls, Replies, Served, Box

(* Both are functions of the clients.                                      *)
LEMMA CallFunctions ==
    /\ Calls \in [Clients -> {"none", "asked", "served"}] /\ DOMAIN Replies = Clients
    /\ Calls' \in [Clients -> {"none", "asked", "served"}] /\ DOMAIN Replies' = Clients
    /\ Replies = [c \in Clients |-> Replies[c]] /\ Replies' = [c \in Clients |-> Replies'[c]]
  BY DEF Calls, Replies

(* A step that changes the values of one client only.                      *)
LEMMA OneCall ==
    ASSUME NEW c \in Clients, NEW a, NEW r,
           \A d \in Clients : d # c => Calls'[d] = Calls[d] /\ Replies'[d] = Replies[d],
           Calls'[c] = a, Replies'[c] = r
    PROVE  Calls' = [Calls EXCEPT ![c] = a] /\ Replies' = [Replies EXCEPT ![c] = r]
  BY CallFunctions

(* A step that changes no value is one that Service does not see.          *)
LEMMA SameCalls ==
    ASSUME \A d \in Clients : Calls'[d] = Calls[d] /\ Replies'[d] = Replies[d]
    PROVE  UNCHANGED <<Calls, Replies>>
  BY CallFunctions

(* Call is Ask, the answer in a mailbox is Serve, Collect is Return.       *)
LEMMA ServiceStep ==
    ASSUME TelegramInv, Next
    PROVE  Service!Next \/ UNCHANGED Service!vars
<1> USE TelegramAssumption
<1>1. pc \in [Clients -> {"idle", "post", "down", "collect", "upload"}] /\ DOMAIN op = Clients
      /\ box \in [Mailboxes -> Boxes]
  BY DEF TelegramInv, TelegramTypes, Boxes
<1>2. \A c, d \in Clients : c # d /\ pc[c] # "idle" => pc[d] = "idle"
  BY DEF TelegramInv, LockInv
<1>3. \A c \in Clients : lockIoctl = Nobody => pc[c] = "idle"
  BY DEF TelegramInv, LockInv
<1>4. CASE UNCHANGED <<pc, op, box>>
  <2>1. UNCHANGED <<Calls, Replies>>
    BY <1>4 DEF Calls, Replies, Served
  <2> QED
    BY <2>1, ServiceSteps
<1>5. ASSUME NEW c \in Clients, NEW r \in Requests, Call(c, r)
      PROVE  Service!Next \/ UNCHANGED Service!vars
  <2>1. CASE Accepted(r)
    <3>1. lockIoctl = Nobody /\ pc' = [pc EXCEPT ![c] = "post"] /\ box' = box
      BY <1>5, <2>1 DEF Call
    <3>2. \A d \in Clients : Calls[d] = "none" /\ Replies[d] = Zero
      BY <1>3, <3>1, CallValues
    <3>3. \A d \in Clients : d # c => Calls'[d] = "none" /\ Replies'[d] = Zero
      BY <1>1, <1>3, <3>1, CallValuesNext
    <3>4. Calls'[c] = "asked" /\ Replies'[c] = Zero
      BY <1>1, <3>1, CallValuesNext
    <3>5. Calls' = [Calls EXCEPT ![c] = "asked"]
      BY <3>2, <3>3, <3>4, OneCall
    <3>6. UNCHANGED Replies
      BY <3>2, <3>3, <3>4, CallFunctions
    <3> QED
      BY <3>2, <3>5, <3>6, ServiceSteps
  <2>2. CASE ~Accepted(r)
    BY <1>4, <1>5, <2>2 DEF Call
  <2> QED
    BY <2>1, <2>2
<1>6. ASSUME NEW c \in Clients, Post(c)
      PROVE  Service!Next \/ UNCHANGED Service!vars
  <2>1. pc[c] = "post" /\ pc'[c] = "down" /\ op' = op /\ Box(op[c]) \in Mailboxes
        /\ \A d \in Clients : d # c => pc'[d] = pc[d] /\ pc[d] = "idle"
    BY <1>1, <1>2, <1>6, NamedBox DEF Post
  <2>2. box[Box(op[c])].sem = 0
    BY <1>1, <2>1 DEF TelegramInv, QuietInv, Waits, Boxes
  <2>3. ~(box'[Box(op'[c])].sem > 0)
    BY <1>1, <1>6, <2>1, <2>2 DEF Post, Boxes
  <2>4. \A d \in Clients : Calls'[d] = Calls[d] /\ Replies'[d] = Replies[d]
    BY <2>1, <2>3, CallValues, CallValuesNext
  <2> QED
    BY <2>4, SameCalls, ServiceSteps
<1>7. ASSUME NEW c \in Clients, Down(c)
      PROVE  Service!Next \/ UNCHANGED Service!vars
  <2>1. pc[c] = "down" /\ pc'[c] = "collect" /\ op' = op /\ Box(op[c]) \in Mailboxes
        /\ box[Box(op[c])].sem > 0
        /\ \A d \in Clients : d # c => pc'[d] = pc[d] /\ pc[d] = "idle"
    BY <1>1, <1>2, <1>7, NamedBox DEF Down
  <2>2. box'[Box(op[c])].status = box[Box(op[c])].status
        /\ box'[Box(op[c])].first = box[Box(op[c])].first
    BY <1>1, <1>7, <2>1 DEF Down, Boxes
  <2>3. \A d \in Clients : Calls'[d] = Calls[d] /\ Replies'[d] = Replies[d]
    BY <2>1, <2>2, CallValues, CallValuesNext
  <2> QED
    BY <2>3, SameCalls, ServiceSteps
<1>8. ASSUME NEW c \in Clients, Collect(c)
      PROVE  Service!Next \/ UNCHANGED Service!vars
  <2>1. pc[c] = "collect" /\ pc'[c] = "idle"
        /\ \A d \in Clients : d # c => pc'[d] = pc[d] /\ pc[d] = "idle"
    BY <1>1, <1>2, <1>8 DEF Collect
  <2>2. \A d \in Clients : d # c => Calls'[d] = Calls[d] /\ Replies'[d] = Replies[d]
    BY <2>1, CallValues, CallValuesNext
  <2>3. Calls[c] = "served" /\ Calls'[c] = "none" /\ Replies'[c] = Zero
    BY <2>1, CallValues, CallValuesNext
  <2>4. Calls' = [Calls EXCEPT ![c] = "none"] /\ Replies' = [Replies EXCEPT ![c] = Zero]
    BY <2>2, <2>3, OneCall
  <2> QED
    BY <2>3, <2>4, ServiceSteps
<1>9. ASSUME NEW b \in Mailboxes, NEW r \in Boxes, Answered(b, r), UNCHANGED <<pc, op>>
      PROVE  Service!Next \/ UNCHANGED Service!vars
  <2>1. PICK c \in Clients : Waits(c, b)
    BY <1>9 DEF Answered, TelegramInv, QuietInv
  <2>2. Requested(box[b], c) /\ pc[c] = "down" /\ Box(op[c]) = b
    BY <1>9, <2>1 DEF TelegramInv, BoxInv, Answers, Waits, Answered
  <2>3. \A d \in Clients : d # c => pc[d] = "idle"
    BY <1>2, <2>2
  <2>4. box'[b] = r /\ r.sem = 1 /\ Mine(r, c)
    BY <1>1, <1>9, <2>2 DEF Answered, Requested
  <2>5. \A d \in Clients : d # c => Calls'[d] = Calls[d] /\ Replies'[d] = Replies[d]
    BY <1>9, <2>3, CallValues, CallValuesNext
  <2>6. Calls[c] = "asked"
    BY <2>2, CallValues DEF Requested
  <2>7. Calls'[c] = "served" /\ Replies'[c] = IF r.status = "ok" THEN r.first ELSE Zero
    BY <1>9, <2>2, <2>4, CallValuesNext
  <2>8. Replies'[c] \in {c, Zero}
    BY <2>4, <2>7 DEF Mine
  <2>9. Calls' = [Calls EXCEPT ![c] = "served"] /\ Replies' = [Replies EXCEPT ![c] = Replies'[c]]
    BY <2>5, <2>7, OneCall
  <2> QED
    BY <2>6, <2>8, <2>9, ServiceSteps
<1>10. CASE LookIntoBoxes
  BY <1>4, <1>9, <1>10, Look DEF LookEffect
<1>11. ASSUME NEW c \in Clients, NEW by, NEW p, UploadStart(c, by, p) \/ UploadEnd(c)
       PROVE  Service!Next \/ UNCHANGED Service!vars
  <2>1. /\ pc[c] \in {"idle", "upload"} /\ pc'[c] \in {"idle", "upload"} /\ UNCHANGED <<op, box>>
        /\ \A d \in Clients : d # c => pc'[d] = pc[d]
    BY <1>1, <1>11 DEF UploadStart, UploadEnd
  <2>2. \A d \in Clients : d # c => Calls'[d] = Calls[d] /\ Replies'[d] = Replies[d]
    BY <2>1 DEF Calls, Replies, Served
  <2>3. Calls'[c] = Calls[c] /\ Replies'[c] = Replies[c]
    BY <2>1, CallValues, CallValuesNext
  <2> QED
    BY <2>2, <2>3, SameCalls, ServiceSteps
<1>12. CASE Telegrams
  BY <1>4, <1>5, <1>6, <1>7, <1>8, <1>10, <1>12
     DEF Telegrams, ClientStep, InitDone, ErrorStop, Manage, ConfigStart
<1>13. CASE Uploads
  BY <1>4, <1>11, <1>13 DEF Uploads, UploadStep, tvars
<1> QED
  BY <1>12, <1>13 DEF Next

(* The mailboxes implement the service: a call that was accepted is served *)
(* once, by itself, and returns after that.                                *)
THEOREM MailboxesImplementService == Spec => ServedOnce
<1>1. Init => Service!Init
  <2>1. Init => Calls = [c \in Clients |-> "none"] /\ Replies = [c \in Clients |-> Zero]
    BY DEF Init, TelegramInit, Calls, Replies
  <2> QED
    BY <2>1, ServiceSteps
<1>2. IndInv /\ [Next]_vars => [Service!Next]_(Service!vars)
  <2>1. ASSUME UNCHANGED vars PROVE UNCHANGED Service!vars
    <3>1. UNCHANGED <<Calls, Replies>>
      BY <2>1 DEF vars, tvars, Calls, Replies, Served
    <3> QED
      BY <3>1, ServiceSteps
  <2> QED
    BY <2>1, ServiceStep DEF IndInv
<1> QED
  BY <1>1, <1>2, Invariance, PTL DEF Spec, ServedOnce, Service!Spec
=============================================================================
