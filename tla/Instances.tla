------------------------------ MODULE Instances ------------------------------
(***************************************************************************)
(* The open instances of /dev/piControl0 (tpiControlInst), the list that   *)
(* links them, their event lists, and the two supervisions by which the    *)
(* I/O thread sets the outputs of a silent application to 0: the watchdog  *)
(* of an instance (KB_SET_OUTPUT_WATCHDOG, revpi_check_timeout) and the    *)
(* one of the main application (KB_SET_EXPORTED_OUTPUTS, piIoThread).      *)
(*                                                                         *)
(* The bridge runs all the time (PiControlIoctl models when it does not).  *)
(* Time stamps are kept relative to the clock: what the code compares are  *)
(* differences.  Several threads may share one instance.                   *)
(***************************************************************************)
EXTENDS Naturals, Integers, Sequences, SequencesExt

CONSTANTS
    Threads,        \* the threads of the applications
    InstanceOf,     \* the instance, an open file, that each of them uses
    Calls,          \* what each of them does with it
    Durations,      \* the watchdog periods they set, 0 among them
    MaxDuration,    \* bound of the periods that are told apart
    Nobody

Insts == {InstanceOf[t] : t \in Threads}
AllCalls == {"write", "watchdog", "export", "wait", "reset", "stopIO"}

ASSUME InstancesAssumption ==
    /\ DOMAIN InstanceOf = Threads
    /\ Calls \in [Threads -> SUBSET AllCalls]
    /\ MaxDuration \in Nat \ {0}
    /\ Durations \subseteq 0..MaxDuration
    /\ Nobody \notin Threads \cup Insts \cup {"io"}
    /\ "io" \notin Threads

VARIABLES
    listCon,        \* piDev_g.listCon
    lockListCon,    \* who holds piDev_g.lockListCon
    lockPI,         \* who holds piDev_g.lockPI over several steps
    file,           \* how far each instance is opened or released
    tTimeoutDurationMs,
    left,           \* tTimeoutTS - now of each instance
    events,         \* the length of its piEventList (all are piEvReset)
    outputs,        \* the outputs in the process image: are any set?
    since,          \* now - tLastOutput1, or Forever if tLastOutput1 is 0
    period,         \* tLastOutput1 - tLastOutput2
    stopIO,         \* PICONTROL_DEV_FLAG_STOP_IO
    pc,             \* where each thread is
    io,             \* where the I/O thread is
    todo,           \* the rest of the list the holder of lockListCon visits
    setter          \* history: the instance that last set outputs, or Nobody

tmo == <<tTimeoutDurationMs, left>>
rts == <<since, period>>
vars == <<listCon, lockListCon, lockPI, file, tmo, events, outputs, rts, stopIO,
          pc, io, todo, setter>>

(* A stamp of 0 is the time the system was started, long ago.              *)
Forever == 2 * MaxDuration + 2
Capped(n) == IF n > MaxDuration THEN MaxDuration ELSE n

IoPlaces == {"rtsCheck", "rtsCompare", "rtsZero", "rtsForget", "timeout", "scan",
             "zero", "rearm"}
Places == {"user", "stamp", "refresh", "exportStamp", "exportCopy", "wait", "take",
           "announce", "announcing"}

TypeOK ==
    /\ listCon \in Seq(Insts) /\ todo \in Seq(Insts)
    /\ lockListCon \in Threads \cup {Nobody, "io"}
    /\ lockPI \in Threads \cup {Nobody}
    /\ file \in [Insts -> {"closed", "open", "zeroed", "unlinked"}]
    /\ tTimeoutDurationMs \in [Insts -> Durations \cup {0}]
    /\ left \in [Insts -> -1..MaxDuration]
    /\ events \in [Insts -> {0, 1}]
    /\ outputs \in BOOLEAN /\ stopIO \in BOOLEAN
    /\ since \in 0..Forever
    /\ period \in 0..MaxDuration \cup {Forever}
    /\ pc \in [Threads -> Places] /\ io \in IoPlaces
    /\ setter \in Insts \cup {Nobody}

Goto(t, place) == pc' = [pc EXCEPT ![t] = place]

-----------------------------------------------------------------------------
(* piControlOpen() and piControlRelease().  The kernel releases a file     *)
(* when its last user is gone: no thread is inside a call then.            *)
Unused(i) == \A t \in Threads : InstanceOf[t] = i => pc[t] = "user"

Open(i) ==
    /\ file[i] = "closed"
    /\ lockListCon = Nobody
    /\ file' = [file EXCEPT ![i] = "open"]
    /\ listCon' = <<i>> \o listCon
    /\ tTimeoutDurationMs' = [tTimeoutDurationMs EXCEPT ![i] = 0]
    /\ left' = [left EXCEPT ![i] = -1]
    /\ events' = [events EXCEPT ![i] = 0]
    /\ UNCHANGED <<lockListCon, lockPI, outputs, rts, stopIO, pc, io, todo, setter>>

(* Mutant of ReleaseZero: the watchdog is not looked at.                   *)
ReleaseSilently(i) ==
    /\ file[i] = "open"
    /\ Unused(i)
    /\ file' = [file EXCEPT ![i] = "zeroed"]
    /\ UNCHANGED <<listCon, lockListCon, lockPI, tmo, events, outputs, rts, stopIO, pc,
                   io, todo, setter>>

ReleaseZero(i) ==
    /\ file[i] = "open"
    /\ Unused(i)
    /\ file' = [file EXCEPT ![i] = "zeroed"]
    /\ IF tTimeoutDurationMs[i] > 0
       THEN lockPI = Nobody /\ outputs' = FALSE /\ setter' = Nobody
       ELSE UNCHANGED <<outputs, setter>>
    /\ UNCHANGED <<listCon, lockListCon, lockPI, tmo, events, rts, stopIO, pc, io, todo>>

(* Mutant of ReleaseUnlink: it does not take lockListCon.                  *)
ReleaseUnlinkUnlocked(i) ==
    /\ file[i] = "zeroed"
    /\ \E k \in DOMAIN listCon : listCon[k] = i /\ listCon' = RemoveAt(listCon, k)
    /\ file' = [file EXCEPT ![i] = "unlinked"]
    /\ UNCHANGED <<lockListCon, lockPI, tmo, events, outputs, rts, stopIO, pc, io, todo,
                   setter>>

ReleaseUnlink(i) ==
    /\ file[i] = "zeroed"
    /\ lockListCon = Nobody
    /\ \E k \in DOMAIN listCon : listCon[k] = i /\ listCon' = RemoveAt(listCon, k)
    /\ file' = [file EXCEPT ![i] = "unlinked"]
    /\ UNCHANGED <<lockListCon, lockPI, tmo, events, outputs, rts, stopIO, pc, io, todo,
                   setter>>

(* The rest of the event list and the instance itself are freed.           *)
ReleaseFree(i) ==
    /\ file[i] = "unlinked"
    /\ file' = [file EXCEPT ![i] = "closed"]
    /\ events' = [events EXCEPT ![i] = 0]
    /\ UNCHANGED <<listCon, lockListCon, lockPI, tmo, outputs, rts, stopIO, pc, io, todo,
                   setter>>

-----------------------------------------------------------------------------
(* The calls of the applications.                                          *)
Begin(t, call) ==
    /\ pc[t] = "user"
    /\ call \in Calls[t]
    /\ file[InstanceOf[t]] = "open"

(* KB_SET_OUTPUT_WATCHDOG writes the period, then the time stamp; no lock. *)
SetOutputWatchdog(t, ms) ==
    /\ Begin(t, "watchdog")
    /\ tTimeoutDurationMs' = [tTimeoutDurationMs EXCEPT ![InstanceOf[t]] = ms]
    /\ Goto(t, "stamp")
    /\ UNCHANGED <<listCon, lockListCon, lockPI, file, left, events, outputs, rts, stopIO,
                   io, todo, setter>>

Stamp(i) == left' = [left EXCEPT ![i] = tTimeoutDurationMs[i]]

StampWatchdog(t) ==
    /\ pc[t] = "stamp"
    /\ Stamp(InstanceOf[t])
    /\ Goto(t, "user")
    /\ UNCHANGED <<listCon, lockListCon, lockPI, file, tTimeoutDurationMs, events, outputs,
                   rts, stopIO, io, todo, setter>>

(* write(): the data under lockPI, the time stamp after it.                *)
WriteData(t) ==
    /\ Begin(t, "write")
    /\ lockPI = Nobody
    /\ outputs' = TRUE
    /\ setter' = InstanceOf[t]
    /\ Goto(t, "refresh")
    /\ UNCHANGED <<listCon, lockListCon, lockPI, file, tmo, events, rts, stopIO, io, todo>>

Refresh(t) ==
    /\ pc[t] = "refresh"
    /\ IF tTimeoutDurationMs[InstanceOf[t]] > 0 THEN Stamp(InstanceOf[t]) ELSE UNCHANGED left
    /\ Goto(t, "user")
    /\ UNCHANGED <<listCon, lockListCon, lockPI, file, tTimeoutDurationMs, events, outputs,
                   rts, stopIO, io, todo, setter>>

(* KB_SET_EXPORTED_OUTPUTS: under lockPI the older stamp is overwritten    *)
(* with the newer one, the newer one with the time, and the outputs are    *)
(* copied; then the watchdog is fed.                                       *)
ExportBegin(t) ==
    /\ Begin(t, "export")
    /\ lockPI = Nobody
    /\ lockPI' = t
    /\ period' = 0
    /\ Goto(t, "exportStamp")
    /\ UNCHANGED <<listCon, lockListCon, file, tmo, events, outputs, since, stopIO, io,
                   todo, setter>>

ExportStamp(t) ==
    /\ pc[t] = "exportStamp"
    /\ since' = 0
    /\ period' = IF since = Forever THEN Forever ELSE Capped(since + period)
    /\ Goto(t, "exportCopy")
    /\ UNCHANGED <<listCon, lockListCon, lockPI, file, tmo, events, outputs, stopIO, io,
                   todo, setter>>

ExportCopy(t) ==
    /\ pc[t] = "exportCopy"
    /\ lockPI' = Nobody
    /\ outputs' = TRUE
    /\ setter' = InstanceOf[t]
    /\ Goto(t, "refresh")
    /\ UNCHANGED <<listCon, lockListCon, file, tmo, events, rts, stopIO, io, todo>>

StopIo(t) ==
    /\ Begin(t, "stopIO")
    /\ stopIO' = ~stopIO
    /\ UNCHANGED <<listCon, lockListCon, lockPI, file, tmo, events, outputs, rts, pc, io,
                   todo, setter>>

(* KB_WAIT_FOR_EVENT looks at the list without its lock, and takes the     *)
(* first entry under the lock.                                             *)
WaitForEvent(t) ==
    /\ Begin(t, "wait")
    /\ Goto(t, "wait")
    /\ UNCHANGED <<listCon, lockListCon, lockPI, file, tmo, events, outputs, rts, stopIO,
                   io, todo, setter>>

EventSeen(t) ==
    /\ pc[t] = "wait"
    /\ events[InstanceOf[t]] > 0
    /\ Goto(t, "take")
    /\ UNCHANGED <<listCon, lockListCon, lockPI, file, tmo, events, outputs, rts, stopIO,
                   io, todo, setter>>

TakeEvent(t) ==
    /\ pc[t] = "take"
    /\ events[InstanceOf[t]] > 0    \* else the head of the list is deleted
    /\ events' = [events EXCEPT ![InstanceOf[t]] = 0]
    /\ Goto(t, "user")
    /\ UNCHANGED <<listCon, lockListCon, lockPI, file, tmo, outputs, rts, stopIO, io, todo,
                   setter>>

-----------------------------------------------------------------------------
(* The end of piControlReset(): every other instance gets one reset event. *)
(* One thread at a time is there, it holds lockIoctl.                      *)
Announcing == \E t \in Threads : pc[t] \in {"announce", "announcing"}

ResetDone(t) ==
    /\ Begin(t, "reset")
    /\ ~Announcing
    /\ Goto(t, "announce")
    /\ UNCHANGED <<listCon, lockListCon, lockPI, file, tmo, events, outputs, rts, stopIO,
                   io, todo, setter>>

AnnounceBegin(t) ==
    /\ pc[t] = "announce"
    /\ lockListCon = Nobody
    /\ lockListCon' = t
    /\ todo' = listCon
    /\ Goto(t, "announcing")
    /\ UNCHANGED <<listCon, lockPI, file, tmo, events, outputs, rts, stopIO, io, setter>>

Announce(t) ==
    /\ pc[t] = "announcing"
    /\ todo # <<>>
    /\ todo' = Tail(todo)
    /\ events' = IF Head(todo) = InstanceOf[t] THEN events
                 ELSE [events EXCEPT ![Head(todo)] = 1]
    /\ UNCHANGED <<listCon, lockListCon, lockPI, file, tmo, outputs, rts, stopIO, pc, io,
                   setter>>

AnnounceEnd(t) ==
    /\ pc[t] = "announcing"
    /\ todo = <<>>
    /\ lockListCon' = Nobody
    /\ Goto(t, "user")
    /\ UNCHANGED <<listCon, lockPI, file, tmo, events, outputs, rts, stopIO, io, todo,
                   setter>>

-----------------------------------------------------------------------------
(* The I/O thread, after PiBridgeMaster_Run(): the outputs of the main     *)
(* application, if it did not export any for twice the period ...          *)
IoGoto(place) == io' = place

RtsCheck ==
    /\ io = "rtsCheck"
    /\ IoGoto(IF period # 0 THEN "rtsCompare" ELSE "timeout")
    /\ UNCHANGED <<listCon, lockListCon, lockPI, file, tmo, events, outputs, rts, stopIO,
                   pc, todo, setter>>

(* Mutant of RtsExpired: the doubled period is compared with the other     *)
(* stamp.                                                                  *)
RtsExpiredSwapped == since # Forever /\ period # Forever /\ period > 2 * since

RtsExpired == since # Forever /\ period # Forever /\ since > 2 * period

(* The flag of KB_STOP_IO is tested before lockPI is taken.                *)
RtsCompare ==
    /\ io = "rtsCompare"
    /\ IoGoto(IF ~RtsExpired THEN "timeout" ELSE IF stopIO THEN "rtsForget" ELSE "rtsZero")
    /\ UNCHANGED <<listCon, lockListCon, lockPI, file, tmo, events, outputs, rts, stopIO,
                   pc, todo, setter>>

(* Mutant of RtsZero: the process image is not locked.                     *)
RtsZeroUnlocked ==
    /\ io = "rtsZero"
    /\ outputs' = FALSE
    /\ setter' = Nobody
    /\ IoGoto("rtsForget")
    /\ UNCHANGED <<listCon, lockListCon, lockPI, file, tmo, events, rts, stopIO, pc, todo>>

RtsZero ==
    /\ io = "rtsZero"
    /\ lockPI = Nobody
    /\ outputs' = FALSE
    /\ setter' = Nobody
    /\ IoGoto("rtsForget")
    /\ UNCHANGED <<listCon, lockListCon, lockPI, file, tmo, events, rts, stopIO, pc, todo>>

RtsForget ==
    /\ io = "rtsForget"
    /\ since' = Forever
    /\ period' = 0
    /\ IoGoto("timeout")
    /\ UNCHANGED <<listCon, lockListCon, lockPI, file, tmo, events, outputs, stopIO, pc,
                   todo, setter>>

(* ... and revpi_check_timeout(): the first instance of the list whose     *)
(* watchdog expired has all outputs set to 0, and is armed anew.           *)
TimeoutBegin ==
    /\ io = "timeout"
    /\ lockListCon = Nobody
    /\ lockListCon' = "io"
    /\ todo' = listCon
    /\ IoGoto("scan")
    /\ UNCHANGED <<listCon, lockPI, file, tmo, events, outputs, rts, stopIO, pc, setter>>

Expired(i) == tTimeoutDurationMs[i] # 0 /\ left[i] < 0

(* Mutant of TimeoutCheck: it stops at the first instance, expired or not. *)
TimeoutCheckFirst ==
    /\ io = "scan"
    /\ todo # <<>>
    /\ IF Expired(Head(todo))
       THEN IoGoto("zero") /\ UNCHANGED todo
       ELSE UNCHANGED io /\ todo' = <<>>
    /\ UNCHANGED <<listCon, lockListCon, lockPI, file, tmo, events, outputs, rts, stopIO,
                   pc, setter>>

TimeoutCheck ==
    /\ io = "scan"
    /\ todo # <<>>
    /\ IF Expired(Head(todo))
       THEN IoGoto("zero") /\ UNCHANGED todo
       ELSE UNCHANGED io /\ todo' = Tail(todo)
    /\ UNCHANGED <<listCon, lockListCon, lockPI, file, tmo, events, outputs, rts, stopIO,
                   pc, setter>>

TimeoutZero ==
    /\ io = "zero"
    /\ lockPI = Nobody
    /\ outputs' = FALSE
    /\ setter' = Nobody
    /\ IoGoto("rearm")
    /\ UNCHANGED <<listCon, lockListCon, lockPI, file, tmo, events, rts, stopIO, pc, todo>>

TimeoutRearm ==
    /\ io = "rearm"
    /\ Stamp(Head(todo))
    /\ lockListCon' = Nobody
    /\ todo' = <<>>
    /\ IoGoto("rtsCheck")
    /\ UNCHANGED <<listCon, lockPI, file, tTimeoutDurationMs, events, outputs, rts, stopIO,
                   pc, setter>>

TimeoutEnd ==
    /\ io = "scan"
    /\ todo = <<>>
    /\ lockListCon' = Nobody
    /\ IoGoto("rtsCheck")
    /\ UNCHANGED <<listCon, lockPI, file, tmo, events, outputs, rts, stopIO, pc, todo,
                   setter>>

IoStep ==
    \/ RtsCheck \/ RtsCompare \/ RtsZero \/ RtsForget
    \/ TimeoutBegin \/ TimeoutCheck \/ TimeoutZero \/ TimeoutRearm \/ TimeoutEnd

(* The clock: one unit of the watchdog periods passes.                     *)
Tick ==
    /\ left' = [i \in Insts |-> IF left[i] < 0 THEN left[i] ELSE left[i] - 1]
    /\ since' = IF since >= Forever - 1 THEN since ELSE since + 1
    /\ UNCHANGED <<listCon, lockListCon, lockPI, file, tTimeoutDurationMs, events, outputs,
                   period, stopIO, pc, io, todo, setter>>

-----------------------------------------------------------------------------
Release(i) == ReleaseZero(i) \/ ReleaseUnlink(i) \/ ReleaseFree(i)

Return(t) ==
    \/ StampWatchdog(t) \/ Refresh(t)
    \/ ExportStamp(t) \/ ExportCopy(t)
    \/ EventSeen(t) \/ TakeEvent(t)
    \/ AnnounceBegin(t) \/ Announce(t) \/ AnnounceEnd(t)

Enter(t) ==
    \/ \E ms \in Durations : SetOutputWatchdog(t, ms)
    \/ WriteData(t) \/ ExportBegin(t) \/ StopIo(t)
    \/ WaitForEvent(t) \/ ResetDone(t)

Init ==
    /\ listCon = <<>>
    /\ lockListCon = Nobody
    /\ lockPI = Nobody
    /\ file = [i \in Insts |-> "closed"]
    /\ tTimeoutDurationMs = [i \in Insts |-> 0]
    /\ left = [i \in Insts |-> -1]
    /\ events = [i \in Insts |-> 0]
    /\ outputs = FALSE
    /\ since = Forever
    /\ period = 0
    /\ stopIO = FALSE
    /\ pc = [t \in Threads |-> "user"]
    /\ io = "rtsCheck"
    /\ todo = <<>>
    /\ setter = Nobody

Next ==
    \/ IoStep
    \/ Tick
    \/ \E i \in Insts : Open(i) \/ Release(i)
    \/ \E t \in Threads : Enter(t) \/ Return(t)

Spec == Init /\ [][Next]_vars

(* The clock runs, the I/O thread cycles, calls that are begun come to     *)
(* their end; nobody has to begin one.  Tick is never disabled, and a      *)
(* thread that wants a lock gets it: the rt_mutexes hand it to the waiter  *)
(* of the highest priority, so none of them starves (strong fairness).     *)
Fairness ==
    /\ WF_vars(Tick)
    /\ WF_vars(IoStep) /\ SF_vars(TimeoutBegin) /\ SF_vars(TimeoutZero) /\ SF_vars(RtsZero)
    /\ \A i \in Insts : WF_vars(ReleaseUnlink(i)) /\ WF_vars(ReleaseFree(i))
    /\ \A t \in Threads : WF_vars(Return(t)) /\ SF_vars(AnnounceBegin(t))

FairSpec == Spec /\ Fairness

-----------------------------------------------------------------------------
(* Properties                                                              *)

(* Whoever walks through listCon finds every instance of it allocated,     *)
(* whatever is released meanwhile.                                         *)
ListedAlive == \A i \in ToSet(listCon) \cup ToSet(todo) : file[i] \in {"open", "zeroed"}

(* An application whose watchdog was active when it closed the device, or  *)
(* died, leaves no outputs set.                                            *)
ClosedLeavesNoOutputs ==
    \A i \in Insts : setter = i /\ file[i] # "open" => tTimeoutDurationMs[i] = 0

(* The outputs of an application that stopped feeding its watchdog are set *)
(* to 0, again and again, whoever else is in the list.                     *)
Silent(i) ==
    /\ file[i] = "open"
    /\ tTimeoutDurationMs[i] > 0
    /\ \A t \in Threads : InstanceOf[t] = i => pc[t] \in {"user", "wait"}
SilenceZeroes == \A i \in Insts : <>[]Silent(i) => []<>~outputs

(* Outputs that the main application exported twice within a period are    *)
(* not kept for ever: they are exported anew or set to 0 (if I/O is not    *)
(* stopped, and unless the I/O thread, having reacted to an earlier        *)
(* silence, is just about to forget the stamps).                           *)
Supervised ==
    /\ outputs /\ ~stopIO
    /\ since \in 1..Forever - 1 /\ period \in 1..MaxDuration
    /\ io \notin {"rtsZero", "rtsForget"}
ExportsSupervised == Supervised ~> (~outputs \/ since = 0 \/ stopIO)

(* Between the time stamps and the outputs of an export nobody changes the *)
(* outputs: the two supervisions wait, so that what is exported is what    *)
(* the I/O modules get.                                                    *)
ExportUndisturbed == [][lockPI # Nobody /\ lockPI' = lockPI => outputs' = outputs]_vars

-----------------------------------------------------------------------------
(* What the code is meant to do and does not.                              *)

(* The main application is not found silent while it exports outputs: the  *)
(* stamps are compared without lockPI, and a difference of 0, when the     *)
(* newer one was just copied to the older one, is taken for a period.      *)
RtsZeroedAfterSilence == [][io = "rtsCompare" /\ io' = "rtsZero" => lockPI = Nobody]_vars

(* A thread that is told of an event finds it in the list: not if another  *)
(* thread waits on the same open file.                                     *)
EventFound == \A t \in Threads : pc[t] = "take" => events[InstanceOf[t]] > 0

=============================================================================
