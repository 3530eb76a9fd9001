--------------------------- MODULE Instances_proofs ---------------------------
(***************************************************************************)
(* What TLAPS proves of Instances, for any number of threads and instances *)
(* and any watchdog periods: the list of instances and whoever walks       *)
(* through it, and the outputs of a closed instance and of an export.      *)
(***************************************************************************)
EXTENDS Instances, SequenceTheorems, TLAPS

Distinct(s) == \A j, k \in DOMAIN s : s[j] = s[k] => j = k

(* An instance is in the list once, from the end of piControlOpen() up to  *)
(* list_del() in piControlRelease().                                       *)
ListInv ==
    /\ Distinct(listCon)
    /\ ToSet(listCon) = {i \in Insts : file[i] \in {"open", "zeroed"}}

(* Who holds lockListCon walks through what is left of the list.           *)
WalkInv ==
    /\ lockListCon = Nobody => todo = <<>>
    /\ lockListCon = "io" <=> io \in {"scan", "zero", "rearm"}
    /\ \A t \in Threads : lockListCon = t <=> pc[t] = "announcing"
    /\ ToSet(todo) \subseteq ToSet(listCon)
    /\ io \in {"zero", "rearm"} => todo # <<>>

(* A thread inside of a call keeps its file open, and has lockPI while it  *)
(* exports.                                                                *)
CallInv ==
    /\ \A t \in Threads : pc[t] # "user" => file[InstanceOf[t]] = "open"
    /\ \A t \in Threads : lockPI = t <=> pc[t] \in {"exportStamp", "exportCopy"}

IndInv == TypeOK /\ ListInv /\ WalkInv /\ CallInv /\ ClosedLeavesNoOutputs

-----------------------------------------------------------------------------
(* Sequences without repetitions                                           *)

LEMMA Concatenated ==
    ASSUME NEW S, NEW a \in Seq(S), NEW b \in Seq(S), NEW j \in 1..(Len(a) + Len(b))
    PROVE  (a \o b)[j] = IF j <= Len(a) THEN a[j] ELSE b[j - Len(a)]
  OBVIOUS

(* list_del() takes one entry out of a list, and leaves the others.        *)
LEMMA RemoveEntry ==
    ASSUME NEW S, NEW s \in Seq(S), Distinct(s), NEW k \in DOMAIN s
    PROVE  /\ RemoveAt(s, k) \in Seq(S)
           /\ Distinct(RemoveAt(s, k))
           /\ ToSet(RemoveAt(s, k)) = ToSet(s) \ {s[k]}
<1> DEFINE a == SubSeq(s, 1, k - 1)
           b == SubSeq(s, k + 1, Len(s))
           r == RemoveAt(s, k)
<1>1. k \in 1..Len(s) /\ Len(s) \in Nat /\ DOMAIN s = 1..Len(s)
  OBVIOUS
<1>2. a \in Seq(S) /\ Len(a) = k - 1 /\ \A j \in 1..(k - 1) : a[j] = s[j]
  BY <1>1
<1>3. b \in Seq(S) /\ Len(b) = Len(s) - k /\ \A j \in 1..(Len(s) - k) : b[j] = s[k + j]
  BY <1>1
<1>4. r = a \o b
  BY DEF RemoveAt
<1>5. /\ r \in Seq(S) /\ Len(r) = Len(s) - 1
      /\ \A j \in 1..(Len(s) - 1) : r[j] = IF j < k THEN s[j] ELSE s[j + 1]
  <2>1. r \in Seq(S) /\ Len(r) = Len(a) + Len(b)
    BY <1>2, <1>3, <1>4
  <2>2. ASSUME NEW j \in 1..(Len(s) - 1) PROVE r[j] = IF j < k THEN s[j] ELSE s[j + 1]
    <3>1. r[j] = IF j <= Len(a) THEN a[j] ELSE b[j - Len(a)]
      <4> HIDE DEF a, b, r
      <4>1. j \in 1..(Len(a) + Len(b)) /\ a \in Seq(S) /\ b \in Seq(S)
        BY <1>1, <1>2, <1>3
      <4>2. (a \o b)[j] = IF j <= Len(a) THEN a[j] ELSE b[j - Len(a)]
        BY <4>1, Concatenated
      <4> QED
        BY <1>4, <4>2
    <3> HIDE DEF a, b, r
    <3>2. CASE j < k
      BY <1>1, <1>2, <3>1, <3>2
    <3>3. CASE j >= k
      <4>1. j - Len(a) \in 1..(Len(s) - k) /\ k + (j - Len(a)) = j + 1 /\ ~(j <= Len(a))
        BY <1>1, <1>2, <3>3
      <4> QED
        BY <1>1, <1>3, <3>1, <3>3, <4>1
    <3> QED
      BY <1>1, <3>2, <3>3
  <2> QED
    BY <1>1, <1>2, <1>3, <2>1, <2>2
<1>6. DOMAIN r = 1..(Len(s) - 1)
  BY <1>5
<1>7. Distinct(r)
  <2> SUFFICES ASSUME NEW i \in 1..(Len(s) - 1), NEW j \in 1..(Len(s) - 1), r[i] = r[j]
               PROVE  i = j
    BY <1>6 DEF Distinct
  <2> DEFINE m == IF i < k THEN i ELSE i + 1
             n == IF j < k THEN j ELSE j + 1
  <2>1. m \in DOMAIN s /\ n \in DOMAIN s /\ s[m] = r[i] /\ s[n] = r[j]
    BY <1>1, <1>5
  <2>2. m = n
    BY <2>1 DEF Distinct
  <2> QED
    BY <1>1, <2>2
<1>8. ASSUME NEW x \in ToSet(r) PROVE x \in ToSet(s) \ {s[k]}
  <2>1. PICK j \in 1..(Len(s) - 1) : x = r[j]
    BY <1>6 DEF ToSet
  <2> DEFINE m == IF j < k THEN j ELSE j + 1
  <2>2. m \in DOMAIN s /\ m # k /\ x = s[m]
    BY <1>1, <1>5, <2>1
  <2> QED
    BY <2>2 DEF Distinct, ToSet
<1>9. ASSUME NEW x \in ToSet(s) \ {s[k]} PROVE x \in ToSet(r)
  <2>1. PICK m \in DOMAIN s : x = s[m] /\ m # k
    BY DEF ToSet
  <2> DEFINE j == IF m < k THEN m ELSE m - 1
  <2>2. j \in 1..(Len(s) - 1) /\ r[j] = x
    BY <1>1, <1>5, <2>1
  <2> QED
    BY <1>6, <2>2 DEF ToSet
<1> QED
  BY <1>5, <1>7, <1>8, <1>9

(* list_add() puts an entry in front.                                      *)
LEMMA AddEntry ==
    ASSUME NEW S, NEW s \in Seq(S), Distinct(s), NEW x \in S, x \notin ToSet(s)
    PROVE  /\ <<x>> \o s \in Seq(S)
           /\ Distinct(<<x>> \o s)
           /\ ToSet(<<x>> \o s) = ToSet(s) \cup {x}
<1> DEFINE r == <<x>> \o s
<1>1. /\ r \in Seq(S) /\ Len(r) = Len(s) + 1 /\ r[1] = x
      /\ \A j \in 1..Len(s) : r[j + 1] = s[j]
  OBVIOUS
<1>2. DOMAIN r = 1..(Len(s) + 1) /\ DOMAIN s = 1..Len(s) /\ Len(s) \in Nat
  BY <1>1
<1>3. \A j \in DOMAIN r : j = 1 \/ (j - 1 \in DOMAIN s /\ r[j] = s[j - 1])
  <2> SUFFICES ASSUME NEW j \in DOMAIN r, j # 1
               PROVE  j - 1 \in 1..Len(s) /\ r[j] = s[j - 1]
    BY <1>2
  <2>1. j - 1 \in 1..Len(s) /\ (j - 1) + 1 = j
    BY <1>2
  <2> QED
    BY <1>1, <2>1
<1>4. Distinct(r)
  <2> SUFFICES ASSUME NEW i \in DOMAIN r, NEW j \in DOMAIN r, r[i] = r[j] PROVE i = j
    BY DEF Distinct
  <2> QED
    BY <1>1, <1>2, <1>3 DEF Distinct, ToSet
<1>5. ToSet(r) \subseteq ToSet(s) \cup {x}
  BY <1>1, <1>3 DEF ToSet
<1>6. x \in ToSet(r)
  BY <1>1, <1>2 DEF ToSet
<1>7. ToSet(s) \subseteq ToSet(r)
  <2> SUFFICES ASSUME NEW j \in 1..Len(s) PROVE s[j] \in ToSet(r)
    BY <1>2 DEF ToSet
  <2>1. j + 1 \in DOMAIN r /\ r[j + 1] = s[j]
    BY <1>1, <1>2
  <2> QED
    BY <2>1 DEF ToSet
<1> QED
  BY <1>1, <1>4, <1>5, <1>6, <1>7

(* A walk looks at the head, and goes on with the rest.                    *)
LEMMA Walk ==
    ASSUME NEW S, NEW s \in Seq(S), s # <<>>
    PROVE  Tail(s) \in Seq(S) /\ Head(s) \in ToSet(s) /\ ToSet(Tail(s)) \subseteq ToSet(s)
<1>1. Len(s) \in Nat /\ Len(s) > 0 /\ DOMAIN s = 1..Len(s)
  OBVIOUS
<1>2. /\ Tail(s) \in Seq(S) /\ Len(Tail(s)) = Len(s) - 1
      /\ \A j \in 1..(Len(s) - 1) : Tail(s)[j] = s[j + 1]
  BY <1>1
<1>3. Head(s) \in ToSet(s)
  BY <1>1 DEF ToSet
<1>4. ASSUME NEW x \in ToSet(Tail(s)) PROVE x \in ToSet(s)
  <2>1. PICK j \in 1..(Len(s) - 1) : x = Tail(s)[j]
    BY <1>1, <1>2 DEF ToSet
  <2>2. j + 1 \in DOMAIN s /\ x = s[j + 1]
    BY <1>1, <1>2, <2>1
  <2> QED
    BY <2>2 DEF ToSet
<1> QED
  BY <1>2, <1>3, <1>4

-----------------------------------------------------------------------------
(* Every step                                                              *)

LEMMA Initial == Init => IndInv
<1> SUFFICES ASSUME Init PROVE IndInv
  OBVIOUS
<1> USE InstancesAssumption DEF Init
<1>1. TypeOK
  <2>1. \A t \in Threads : pc[t] \in Places
    BY DEF Places
  <2>2. io \in IoPlaces /\ since \in 0..Forever /\ period \in 0..MaxDuration
    BY DEF IoPlaces, Forever
  <2>3. left \in [Insts -> -1..MaxDuration]
    OBVIOUS
  <2>4. <<>> \in Seq(Insts)
    OBVIOUS
  <2> QED
    BY <2>1, <2>2, <2>3, <2>4 DEF TypeOK
<1>2. ToSet(<<>>) = {}
  BY DEF ToSet
<1>3. ListInv /\ WalkInv /\ CallInv
  BY <1>2 DEF Distinct, ListInv, WalkInv, CallInv
<1> QED
  BY <1>1, <1>3 DEF IndInv, ClosedLeavesNoOutputs

(* The instance of a thread is one.                                        *)
LEMMA OwnInstance == ASSUME NEW t \in Threads PROVE InstanceOf[t] \in Insts
  BY DEF Insts

(* A watchdog is off, or its period is positive.                           *)
LEMMA Periods == ASSUME TypeOK, NEW i \in Insts
                 PROVE  tTimeoutDurationMs[i] \in Nat /\ tTimeoutDurationMs[i] <= MaxDuration
<1>1. tTimeoutDurationMs[i] \in Durations \cup {0}
  BY DEF TypeOK
<1>2. Durations \subseteq 0..MaxDuration /\ MaxDuration \in Nat
  BY InstancesAssumption
<1>3. CASE tTimeoutDurationMs[i] \in Durations
  <2>1. tTimeoutDurationMs[i] \in 0..MaxDuration
    BY <1>2, <1>3
  <2> QED
    BY <1>2, <2>1
<1>4. CASE tTimeoutDurationMs[i] = 0
  BY <1>2, <1>4
<1> QED
  BY <1>1, <1>3, <1>4

LEMMA OpenStep ==
    ASSUME IndInv, NEW i \in Insts, Open(i)
    PROVE  IndInv'
<1> USE InstancesAssumption DEF IndInv, Open
<1>1. i \notin ToSet(listCon) /\ todo = <<>> /\ ToSet(todo) = {}
  BY DEF ListInv, WalkInv, ToSet
<1>2. /\ listCon' \in Seq(Insts)
      /\ Distinct(listCon')
      /\ ToSet(listCon') = ToSet(listCon) \cup {i}
  <2>1. listCon \in Seq(Insts) /\ Distinct(listCon) /\ listCon' = <<i>> \o listCon
    BY DEF ListInv, TypeOK
  <2> QED
    BY <1>1, <2>1, AddEntry
<1>3. TypeOK'
  BY <1>2 DEF TypeOK, rts
<1>4. ListInv'
  <2>1. {j \in Insts : file'[j] \in {"open", "zeroed"}}
            = {j \in Insts : file[j] \in {"open", "zeroed"}} \cup {i}
    BY DEF TypeOK
  <2> QED
    BY <1>2, <2>1 DEF ListInv
<1>5. WalkInv'
  BY <1>1 DEF WalkInv, ToSet
<1>6. CallInv'
  BY DEF CallInv, TypeOK, rts
<1>7. ClosedLeavesNoOutputs'
  BY DEF ClosedLeavesNoOutputs, TypeOK
<1> QED
  BY <1>3, <1>4, <1>5, <1>6, <1>7

LEMMA ReleaseStep ==
    ASSUME IndInv, NEW i \in Insts, Release(i)
    PROVE  IndInv'
<1> USE InstancesAssumption DEF IndInv, tmo, rts
<1>1. CASE ReleaseZero(i)
  <2> USE <1>1 DEF ReleaseZero
  <2>1. TypeOK'
    BY DEF TypeOK
  <2>2. ListInv' /\ WalkInv'
    BY DEF ListInv, WalkInv, TypeOK
  <2>3. CallInv'
    BY DEF CallInv, Unused, TypeOK
  <2>4. ClosedLeavesNoOutputs'
    BY Periods DEF ClosedLeavesNoOutputs, TypeOK
  <2> QED
    BY <2>1, <2>2, <2>3, <2>4
<1>2. CASE ReleaseUnlink(i)
  <2> USE <1>2 DEF ReleaseUnlink
  <2>1. /\ listCon' \in Seq(Insts)
        /\ Distinct(listCon')
        /\ ToSet(listCon') = ToSet(listCon) \ {i}
    <3>1. PICK k \in DOMAIN listCon : listCon[k] = i /\ listCon' = RemoveAt(listCon, k)
      OBVIOUS
    <3> QED
      BY <3>1, RemoveEntry DEF ListInv, TypeOK
  <2>2. TypeOK'
    BY <2>1 DEF TypeOK
  <2>3. ListInv'
    BY <2>1 DEF ListInv, TypeOK
  <2>4. todo' = <<>> /\ ToSet(todo') = {}
    BY DEF WalkInv, ToSet
  <2>5. WalkInv'
    BY <2>4 DEF WalkInv
  <2>6. CallInv'
    BY DEF CallInv, TypeOK
  <2>7. ClosedLeavesNoOutputs'
    BY DEF ClosedLeavesNoOutputs, TypeOK
  <2> QED
    BY <2>2, <2>3, <2>5, <2>6, <2>7
<1>3. CASE ReleaseFree(i)
  <2> USE <1>3 DEF ReleaseFree
  <2>1. TypeOK'
    BY DEF TypeOK
  <2>2. ListInv' /\ WalkInv'
    BY DEF ListInv, WalkInv, TypeOK
  <2>3. CallInv'
    BY DEF CallInv, TypeOK
  <2>4. ClosedLeavesNoOutputs'
    BY DEF ClosedLeavesNoOutputs, TypeOK
  <2> QED
    BY <2>1, <2>2, <2>3, <2>4
<1> QED
  BY <1>1, <1>2, <1>3 DEF Release

(* A call begins with the file open.                                       *)
LEMMA EnterStep ==
    ASSUME IndInv, NEW t \in Threads, Enter(t)
    PROVE  IndInv'
<1> USE InstancesAssumption, OwnInstance DEF IndInv, Begin, Goto, tmo, rts
<1>1. CASE \E ms \in Durations : SetOutputWatchdog(t, ms)
  BY <1>1 DEF SetOutputWatchdog, TypeOK, Places, ListInv, WalkInv, CallInv, ClosedLeavesNoOutputs
<1>2. CASE WriteData(t)
  BY <1>2 DEF WriteData, TypeOK, Places, ListInv, WalkInv, CallInv, ClosedLeavesNoOutputs
<1>3. CASE ExportBegin(t)
  BY <1>3 DEF ExportBegin, TypeOK, Places, ListInv, WalkInv, CallInv, ClosedLeavesNoOutputs
<1>4. CASE StopIo(t)
  BY <1>4 DEF StopIo, TypeOK, Places, ListInv, WalkInv, CallInv, ClosedLeavesNoOutputs
<1>5. CASE WaitForEvent(t)
  BY <1>5 DEF WaitForEvent, TypeOK, Places, ListInv, WalkInv, CallInv, ClosedLeavesNoOutputs
<1>6. CASE ResetDone(t)
  BY <1>6 DEF ResetDone, TypeOK, Places, ListInv, WalkInv, CallInv, ClosedLeavesNoOutputs
<1> QED
  BY <1>1, <1>2, <1>3, <1>4, <1>5, <1>6 DEF Enter

LEMMA ReturnStep ==
    ASSUME IndInv, NEW t \in Threads, Return(t)
    PROVE  IndInv'
<1> USE InstancesAssumption, OwnInstance DEF IndInv, Goto, tmo, rts, Stamp
<1>1. CASE StampWatchdog(t)
  <2> USE <1>1 DEF StampWatchdog
  <2>1. TypeOK'
    BY Periods DEF TypeOK, Places
  <2>2. ListInv' /\ WalkInv' /\ CallInv' /\ ClosedLeavesNoOutputs'
    BY DEF ListInv, WalkInv, CallInv, ClosedLeavesNoOutputs, TypeOK
  <2> QED
    BY <2>1, <2>2
<1>2. CASE Refresh(t)
  <2> USE <1>2 DEF Refresh
  <2>1. TypeOK'
    <3>1. InstanceOf[t] \in Insts /\ tTimeoutDurationMs[InstanceOf[t]] \in -1..MaxDuration
      BY Periods, InstancesAssumption
    <3>2. left' \in [Insts -> -1..MaxDuration]
      BY <3>1 DEF TypeOK
    <3>3. pc' \in [Threads -> Places]
      BY DEF TypeOK, Places
    <3> QED
      BY <3>2, <3>3 DEF TypeOK
  <2>2. ListInv' /\ WalkInv' /\ CallInv' /\ ClosedLeavesNoOutputs'
    BY DEF ListInv, WalkInv, CallInv, ClosedLeavesNoOutputs, TypeOK
  <2> QED
    BY <2>1, <2>2
<1>3. CASE ExportStamp(t)
  BY <1>3 DEF ExportStamp, TypeOK, Places, ListInv, WalkInv, CallInv, ClosedLeavesNoOutputs,
     Capped, Forever
<1>4. CASE ExportCopy(t)
  BY <1>4 DEF ExportCopy, TypeOK, Places, ListInv, WalkInv, CallInv, ClosedLeavesNoOutputs
<1>5. CASE EventSeen(t)
  BY <1>5 DEF EventSeen, TypeOK, Places, ListInv, WalkInv, CallInv, ClosedLeavesNoOutputs
<1>6. CASE TakeEvent(t)
  BY <1>6 DEF TakeEvent, TypeOK, Places, ListInv, WalkInv, CallInv, ClosedLeavesNoOutputs
<1>7. CASE AnnounceBegin(t)
  BY <1>7 DEF AnnounceBegin, TypeOK, Places, ListInv, WalkInv, CallInv, ClosedLeavesNoOutputs
<1>8. CASE Announce(t)
  <2> USE <1>8 DEF Announce
  <2>1. /\ todo' \in Seq(Insts) /\ Head(todo) \in ToSet(todo)
        /\ ToSet(todo') \subseteq ToSet(todo)
    BY Walk DEF TypeOK
  <2>2. TypeOK'
    BY <2>1 DEF TypeOK
  <2>3. ListInv' /\ CallInv' /\ ClosedLeavesNoOutputs'
    BY DEF ListInv, CallInv, ClosedLeavesNoOutputs
  <2>4. WalkInv'
    BY <2>1 DEF WalkInv
  <2> QED
    BY <2>2, <2>3, <2>4
<1>9. CASE AnnounceEnd(t)
  BY <1>9 DEF AnnounceEnd, TypeOK, Places, ListInv, WalkInv, CallInv, ClosedLeavesNoOutputs
<1> QED
  BY <1>1, <1>2, <1>3, <1>4, <1>5, <1>6, <1>7, <1>8, <1>9 DEF Return

LEMMA IoThreadStep ==
    ASSUME IndInv, IoStep
    PROVE  IndInv'
<1> USE InstancesAssumption DEF IndInv, IoGoto, tmo, rts
<1>1. CASE RtsCheck
  BY <1>1 DEF RtsCheck, TypeOK, IoPlaces, ListInv, WalkInv, CallInv, ClosedLeavesNoOutputs
<1>2. CASE RtsCompare
  BY <1>2 DEF RtsCompare, TypeOK, IoPlaces, ListInv, WalkInv, CallInv, ClosedLeavesNoOutputs
<1>3. CASE RtsZero
  <2> USE <1>3 DEF RtsZero
  <2>1. TypeOK'
    BY DEF TypeOK, IoPlaces
  <2>2. ListInv' /\ WalkInv' /\ CallInv'
    BY DEF ListInv, WalkInv, CallInv
  <2>3. ClosedLeavesNoOutputs'
    BY DEF ClosedLeavesNoOutputs
  <2> QED
    BY <2>1, <2>2, <2>3
<1>4. CASE RtsForget
  BY <1>4 DEF RtsForget, TypeOK, IoPlaces, ListInv, WalkInv, CallInv, ClosedLeavesNoOutputs,
     Forever
<1>5. CASE TimeoutBegin
  BY <1>5 DEF TimeoutBegin, TypeOK, IoPlaces, ListInv, WalkInv, CallInv, ClosedLeavesNoOutputs
<1>6. CASE TimeoutCheck
  <2> USE <1>6 DEF TimeoutCheck
  <2>1. Tail(todo) \in Seq(Insts) /\ ToSet(Tail(todo)) \subseteq ToSet(todo)
    BY Walk DEF TypeOK
  <2>2. TypeOK'
    BY <2>1 DEF TypeOK, IoPlaces
  <2>3. ListInv' /\ CallInv' /\ ClosedLeavesNoOutputs'
    BY DEF ListInv, CallInv, ClosedLeavesNoOutputs
  <2>4. WalkInv'
    BY <2>1 DEF WalkInv
  <2> QED
    BY <2>2, <2>3, <2>4
<1>7. CASE TimeoutZero
  BY <1>7 DEF TimeoutZero, TypeOK, IoPlaces, ListInv, WalkInv, CallInv, ClosedLeavesNoOutputs
<1>8. CASE TimeoutRearm
  <2> USE <1>8 DEF TimeoutRearm, Stamp
  <2>1. Head(todo) \in Insts
    BY DEF TypeOK, WalkInv
  <2>2. TypeOK'
    BY <2>1, Periods DEF TypeOK, IoPlaces
  <2>3. ListInv' /\ CallInv' /\ ClosedLeavesNoOutputs'
    BY DEF ListInv, CallInv, ClosedLeavesNoOutputs
  <2>4. WalkInv'
    BY DEF WalkInv, ToSet
  <2> QED
    BY <2>2, <2>3, <2>4
<1>9. CASE TimeoutEnd
  BY <1>9 DEF TimeoutEnd, TypeOK, IoPlaces, ListInv, WalkInv, CallInv, ClosedLeavesNoOutputs
<1> QED
  BY <1>1, <1>2, <1>3, <1>4, <1>5, <1>6, <1>7, <1>8, <1>9 DEF IoStep

LEMMA ClockStep == IndInv /\ Tick => IndInv'
  BY InstancesAssumption DEF IndInv, Tick, TypeOK, Forever, ListInv, WalkInv, CallInv,
     ClosedLeavesNoOutputs

-----------------------------------------------------------------------------
(* The list, the walks through it and the calls are in order in every      *)
(* reachable state.                                                        *)
THEOREM Invariance == Spec => []IndInv
<1>1. ASSUME IndInv, Next PROVE IndInv'
  BY <1>1, OpenStep, ReleaseStep, EnterStep, ReturnStep, IoThreadStep, ClockStep DEF Next
<1>2. ASSUME IndInv, UNCHANGED vars PROVE IndInv'
  BY <1>2 DEF IndInv, TypeOK, ListInv, WalkInv, CallInv, ClosedLeavesNoOutputs, vars, tmo, rts
<1>3. IndInv /\ [Next]_vars => IndInv'
  BY <1>1, <1>2
<1> QED
  BY <1>3, Initial, PTL DEF Spec

(* revpi_check_timeout() and the announcement of a reset never meet a      *)
(* freed instance, because piControlRelease() unlinks it under the lock    *)
(* they hold.                                                              *)
THEOREM WalksMeetNoFreed == Spec => []ListedAlive
<1>1. IndInv => ListedAlive
  BY DEF IndInv, ListInv, WalkInv, ListedAlive
<1> QED
  BY <1>1, Invariance, PTL

(* piControlRelease() sets the outputs to 0 if the watchdog was on.        *)
THEOREM ReleaseZeroesOutputs == Spec => []ClosedLeavesNoOutputs
<1>1. IndInv => ClosedLeavesNoOutputs
  BY DEF IndInv
<1> QED
  BY <1>1, Invariance, PTL

(* Nothing changes the outputs while an export has stamped them and not    *)
(* copied them yet: all who do wait for lockPI.                            *)
THEOREM ExportsAreUndisturbed == Spec => ExportUndisturbed
<1> USE DEF tmo, rts, Goto, IoGoto, Begin
<1> DEFINE Same == lockPI # Nobody /\ lockPI' = lockPI => outputs' = outputs
<1>1. ASSUME NEW i \in Insts, Open(i) \/ Release(i) PROVE Same
  BY <1>1 DEF Open, Release, ReleaseZero, ReleaseUnlink, ReleaseFree
<1>2. ASSUME NEW t \in Threads, Enter(t) PROVE Same
  BY <1>2 DEF Enter, SetOutputWatchdog, WriteData, ExportBegin, StopIo, WaitForEvent, ResetDone
<1>3. ASSUME NEW t \in Threads, Return(t) PROVE Same
  BY <1>3 DEF Return, StampWatchdog, Refresh, ExportStamp, ExportCopy, EventSeen, TakeEvent,
     AnnounceBegin, Announce, AnnounceEnd
<1>4. ASSUME IoStep PROVE Same
  BY <1>4 DEF IoStep, RtsCheck, RtsCompare, RtsZero, RtsForget, TimeoutBegin, TimeoutCheck,
     TimeoutZero, TimeoutRearm, TimeoutEnd
<1>5. ASSUME Tick PROVE Same
  BY <1>5 DEF Tick
<1>6. [Next]_vars => [Same]_vars
  BY <1>1, <1>2, <1>3, <1>4, <1>5 DEF Next
<1> QED
  BY <1>6, PTL DEF Spec, ExportUndisturbed

===============================================================================
