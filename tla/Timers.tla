-------------------------------- MODULE Timers --------------------------------
(***************************************************************************)
(* The timers kbUT_Timer of the bridge master, which count milliseconds in *)
(* 32 bits: the counter wraps around every 49 days.  A time is a natural   *)
(* number here, and the tick counter is cut from it.  The theorem holds    *)
(* for every width.                                                        *)
(***************************************************************************)
EXTENDS Integers, TLAPS

CONSTANT Width                  \* the number of values of u32, 2^32
U32(n) == n % Width

kbGetTickCount(time) == U32(time)

kbUT_TimerStart(time, duration) ==
    [start |-> kbGetTickCount(time), duration |-> duration, run |-> TRUE, expired |-> FALSE]

kbUT_TimeElapsed(t, time) == IF t.run THEN U32(kbGetTickCount(time) - t.start) ELSE 0

(* What a look at the timer makes of it, kbUT_TimerRunning ...             *)
Polled(t, time) ==
    IF t.run /\ kbUT_TimeElapsed(t, time) >= t.duration
    THEN [t EXCEPT !.expired = TRUE, !.run = FALSE] ELSE t
kbUT_TimerRunning(t, time) == Polled(t, time).run

(* ... and kbUT_TimerExpired, whose answer is given only once.             *)
kbUT_TimerExpired(t, time) == Polled(t, time).expired
Acknowledged(t, time) == [Polled(t, time) EXCEPT !.expired = FALSE]

-----------------------------------------------------------------------------
(* Every number is a multiple of the width and what U32 leaves of it; and  *)
(* there is only one way to write it so.                                   *)
LEMMA Remainder ==
    ASSUME Width \in Nat \ {0}, NEW n \in Int
    PROVE  /\ U32(n) \in 0..(Width - 1)
           /\ \E q \in Int : n = Width * q + U32(n)
  <1>1. n % Width \in 0..(Width - 1)
    BY SMT
  <1>2. n \div Width \in Int /\ n = Width * (n \div Width) + (n % Width)
    BY SMT
  <1> QED
    BY <1>1, <1>2 DEF U32

LEMMA Multiple ==
    ASSUME NEW w \in Nat \ {0}, NEW k \in Int, k >= 1
    PROVE  w * k >= w
  <1>1. w * k = w * (k - 1) + w /\ w * (k - 1) >= 0
    BY SMT
  <1>2. w * k \in Int /\ w * (k - 1) \in Int
    BY SMT
  <1> QED
    BY <1>1, <1>2, SMT

LEMMA Unique ==
    ASSUME Width \in Nat \ {0},
           NEW q \in Int, NEW r \in 0..(Width - 1),
           NEW p \in Int, NEW s \in 0..(Width - 1),
           Width * q + r = Width * p + s
    PROVE  r = s
  <1>1. Width * q \in Int /\ Width * p \in Int /\ q - p \in Int /\ p - q \in Int
    BY SMT
  <1>2. Width * (q - p) = s - r /\ Width * (p - q) = r - s
    BY SMT
  <1>3. ~(q - p >= 1)
    BY <1>1, <1>2, Multiple, SMT
  <1>4. ~(p - q >= 1)
    BY <1>1, <1>2, Multiple, SMT
  <1>5. q = p
    BY <1>3, <1>4, SMT
  <1> QED
    BY <1>1, <1>5, SMT

(* The difference of two tick counts less than 49 days apart is the time   *)
(* between them, wherever the counter wraps around.                        *)
LEMMA Difference ==
    ASSUME Width \in Nat \ {0}, NEW time \in Nat, NEW d \in 0..(Width - 1)
    PROVE  U32(kbGetTickCount(time + d) - kbGetTickCount(time)) = d
  <1>1. time \in Int /\ d \in Int /\ time + d \in Int
    BY SMT
  <1>2. PICK q \in Int : time = Width * q + U32(time)
    BY <1>1, Remainder
  <1>3. PICK p \in Int : time + d = Width * p + U32(time + d)
    BY <1>1, Remainder
  <1>4. U32(time) \in Int /\ U32(time + d) \in Int
    BY <1>1, Remainder, SMT
  <1> DEFINE e == U32(time + d) - U32(time)
  <1>5. e \in Int /\ q - p \in Int
    BY <1>4
  <1>6. PICK o \in Int : e = Width * o + U32(e)
    BY <1>5, Remainder
  <1>7. U32(e) \in 0..(Width - 1)
    BY <1>5, Remainder
  <1>8. e = Width * (q - p) + d
    <2>1. Width * q \in Int /\ Width * p \in Int /\ Width * (q - p) = Width * q - Width * p
      BY SMT
    <2> QED
      BY <1>1, <1>2, <1>3, <1>4, <2>1, SMT
  <1>9. Width * o + U32(e) = Width * (q - p) + d
    BY <1>6, <1>8
  <1>10. U32(e) = d
    <2> HIDE DEF e
    <2> QED
      BY <1>5, <1>7, <1>9, Unique
  <1> QED
    BY <1>10 DEF kbGetTickCount

(* A timer that is looked at within 49 days reports its expiry if, and     *)
(* only if, its duration is over, also when the tick counter has wrapped   *)
(* around; it reports it once, and neither runs nor reports it later.      *)
THEOREM ExpiresInTime ==
    ASSUME Width \in Nat \ {0}, NEW time \in Nat, NEW duration \in 0..(Width - 1), NEW d \in 0..(Width - 1)
    PROVE  LET t == kbUT_TimerStart(time, duration) IN
           /\ kbUT_TimerExpired(t, time + d) <=> d >= duration
           /\ kbUT_TimerRunning(t, time + d) <=> d < duration
           /\ d >= duration =>
                 \A later \in Nat :
                     /\ ~kbUT_TimerExpired(Acknowledged(t, time + d), later)
                     /\ ~kbUT_TimerRunning(Acknowledged(t, time + d), later)
  <1> DEFINE t == kbUT_TimerStart(time, duration)
             p == Polled(t, time + d)
             a == Acknowledged(t, time + d)
  <1>1. t.run = TRUE /\ t.expired = FALSE /\ t.duration = duration
        /\ t.start = kbGetTickCount(time)
    BY DEF kbUT_TimerStart
  <1>2. kbUT_TimeElapsed(t, time + d) = d
    BY <1>1, Difference DEF kbUT_TimeElapsed
  <1>3. CASE d >= duration
    <2>1. p = [t EXCEPT !.expired = TRUE, !.run = FALSE]
      BY <1>1, <1>2, <1>3 DEF Polled
    <2>2. p.expired = TRUE /\ p.run = FALSE
      BY <2>1 DEF kbUT_TimerStart
    <2>3. a.expired = FALSE /\ a.run = FALSE
      BY <2>1 DEF Acknowledged, kbUT_TimerStart
    <2>4. \A later \in Nat : Polled(a, later) = a
      BY <2>3 DEF Polled
    <2> QED
      BY <1>3, <2>2, <2>3, <2>4 DEF kbUT_TimerExpired, kbUT_TimerRunning
  <1>4. CASE ~(d >= duration)
    <2>1. p = t
      BY <1>1, <1>2, <1>4 DEF Polled
    <2> QED
      BY <1>1, <1>4, <2>1 DEF kbUT_TimerExpired, kbUT_TimerRunning
  <1> QED
    BY <1>3, <1>4
===============================================================================
