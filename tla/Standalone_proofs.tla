------------------------- MODULE Standalone_proofs -------------------------
(***************************************************************************)
(* Proofs about Standalone, for all sets of inputs, outputs, levels and    *)
(* configurations: a failed analog output is reported on both machines,    *)
(* and the reset of RevPi Compact leaves no old measurement behind.        *)
(***************************************************************************)
EXTENDS Standalone, Sequences, FiniteSetTheorems, TLAPS

-----------------------------------------------------------------------------
(* RevPi Compact.                                                          *)

(* The ain thread polls the inputs of one configuration, all others read 0.*)
Adopted(inputs) ==
    /\ chans \in C!Enabled(inputs)
    /\ \A c \in Ain \ inputs : image.drv.ain[c] = 0

(* The thread is at one of its inputs, if it has any.                      *)
AinInv ==
    /\ \E inputs \in Configs \cup {{}} : Adopted(inputs)
    /\ chans # <<>> => next \in 1..Len(chans)
    /\ ain.pc \in {"poll", "store"} => chans # <<>>

(* The handshake: only a reset that waits has told the thread to adopt the *)
(* configuration, but for the first, before which the thread is off.       *)
HandshakeInv ==
    /\ ain.pc = "off" => shouldReset /\ ~done /\ reset \in {"adjust", "config", "arm"}
    /\ ain.pc # "off" /\ reset # "wait" => ~shouldReset /\ ~done /\ ain.pc # "complete"
    /\ reset = "idle" => Adopted(config)
    /\ reset = "wait" =>
          /\ shouldReset => ~done /\ ain.pc # "complete"
          /\ ~shouldReset => Adopted(config) /\ (done <=> ain.pc # "complete")

(* An analog output that was written shows what the io thread remembers.   *)
(* In a cycle, one that is not to be written any more shows what the       *)
(* thread was told, or an error was met, or its value is the mark 65535.   *)
AoutInv ==
    /\ \A a \in Aout : prev[a] # C!Unwritten => dac[a] = prev[a]
    /\ io.pc = "aout" =>
          \A a \in Aout \ io.left : dac[a] # image.usr.aout[a] =>
              \/ io.err /\ prev[a] # image.usr.aout[a]
              \/ C!TakenForWritten(a, image.usr.aout[a])
    /\ C!FailureReported

CompactInv ==
    /\ C!TypeOK
    /\ AinInv
    /\ HandshakeInv
    /\ AoutInv

-----------------------------------------------------------------------------
(* RevPi Flat.                                                             *)

(* What is still to be written is what was taken; otherwise the relay      *)
(* shows it, and the analog output does, or its error is reported, or it   *)
(* is 0 and was never written.                                             *)
DoutInv ==
    /\ dout.pc = "dout" =>
          IF dout.dout = F!Nothing THEN pin = F!Relay(image.usr.dout)
          ELSE dout.dout = image.usr.dout
    /\ dout.pc \in {"take", "aout"} => pin = F!Relay(image.usr.dout)
    /\ dout.pc = "take" \/ dout.aout = F!Nothing =>
          (dac # image.usr.aout => IF told THEN image.drv.aoutErr ELSE image.usr.aout = 0)

FlatInv ==
    /\ F!TypeOK
    /\ DoutInv

IndInv ==
    \/ machine = "compact" /\ CompactInv
    \/ machine = "flat" /\ FlatInv

-----------------------------------------------------------------------------
(* The order the inputs of a configuration are polled in.                  *)
LEMMA CompactCardinality == ASSUME NEW S PROVE C!Cardinality(S) = Cardinality(S)
    BY DEF C!Cardinality, Cardinality

LEMMA EnabledInputs ==
    ASSUME NEW inputs \in SUBSET Ain, NEW s \in C!Enabled(inputs)
    PROVE  /\ s \in Seq(Ain)
           /\ \A k \in 1..Len(s) : s[k] \in inputs
    <1>1. Cardinality(inputs) \in Nat
        BY StandaloneAssumption, FS_Subset, FS_CardinalityType
    <1>2. s \in [1..Cardinality(inputs) -> inputs]
        BY CompactCardinality DEF C!Enabled
    <1>3. s \in Seq(inputs) /\ Len(s) = Cardinality(inputs)
        BY <1>1, <1>2
    <1>. QED BY <1>3

LEMMA NoInputsEnabled == <<>> \in C!Enabled({})
    <1>1. Cardinality({}) = 0
        BY FS_EmptySet
    <1>2. <<>> \in [1..0 -> {}]
        OBVIOUS
    <1>. QED BY <1>1, <1>2, CompactCardinality DEF C!Enabled

LEMMA PolledInputs ==
    ASSUME NEW inputs \in Configs \cup {{}}, chans \in C!Enabled(inputs),
           chans # <<>> => next \in 1..Len(chans), chans # <<>>
    PROVE  chans[next] \in inputs /\ chans[next] \in Ain
    BY StandaloneAssumption, EnabledInputs

(* What a read of an input changes of the image.                           *)
LEMMA ReadInput ==
    ASSUME CompactInv, chans # <<>>, NEW value \in C!Reading,
           image' = [image EXCEPT !.drv.ain[chans[next]] = value], UNCHANGED chans
    PROVE  /\ image' \in [drv: C!Inputs, usr: C!Outputs]
           /\ image'.usr = image.usr /\ image'.drv.aoutErr = image.drv.aoutErr
           /\ \A inputs \in Configs \cup {{}} : Adopted(inputs) => Adopted(inputs)'
    <1>. USE DEF CompactInv, AinInv
    <1>1. image \in [drv: C!Inputs, usr: C!Outputs]
        BY DEF C!TypeOK
    <1>2. image.drv \in C!Inputs /\ image.drv.ain \in [Ain -> C!Reading]
        BY <1>1 DEF C!Inputs
    <1>3. chans[next] \in Ain
        BY PolledInputs DEF Adopted
    <1>. DEFINE read == [image.drv.ain EXCEPT ![chans[next]] = value]
    <1>4. read \in [Ain -> C!Reading]
        BY <1>2, <1>3
    <1>5. image' = [image EXCEPT !.drv = [image.drv EXCEPT !.ain = read]]
        BY <1>1, <1>2
    <1>6. /\ image'.drv.ain = read /\ image'.drv.aoutErr = image.drv.aoutErr
          /\ image'.usr = image.usr
        BY <1>1, <1>2, <1>5 DEF C!Inputs
    <1>7. [image.drv EXCEPT !.ain = read] \in C!Inputs
        BY <1>2, <1>4 DEF C!Inputs
    <1>8. image' \in [drv: C!Inputs, usr: C!Outputs]
        BY <1>1, <1>5, <1>7
    <1>9. ASSUME NEW inputs \in Configs \cup {{}}, Adopted(inputs)
          PROVE  Adopted(inputs)'
        <2>1. chans[next] \in inputs
            BY <1>9, PolledInputs DEF Adopted
        <2>. QED BY <1>2, <1>6, <1>9, <2>1 DEF Adopted
    <1>. QED BY <1>6, <1>8, <1>9

-----------------------------------------------------------------------------
(* The io thread of RevPi Compact.                                         *)
LEMMA DriveTyped ==
    ASSUME C!TypeOK, NEW usr \in C!Outputs, C!Drive(usr)
    PROVE  /\ pin' \in Douts
           /\ io' \in [pc: {"first", "flip", "flipping", "aout"}, left: SUBSET Aout, err: BOOLEAN]
           /\ io'.pc = "aout" /\ \A a \in Aout \ io'.left : usr.aout[a] = prev[a]
    BY DEF C!Drive, C!Outputs, C!TypeOK

(* What is driven is what was remembered as written, or will be written.   *)
LEMMA DriveStep ==
    ASSUME CompactInv, NEW usr \in C!Outputs, C!Drive(usr), image'.usr = usr,
           UNCHANGED <<prev, dac>>
    PROVE  AoutInv'
    <1>. USE DEF CompactInv
    <1>1. io'.pc = "aout" /\ \A a \in Aout \ io'.left : usr.aout[a] = prev[a]
        BY DriveTyped
    <1>2. \A a \in Aout \ io'.left : dac[a] # usr.aout[a] => C!TakenForWritten(a, usr.aout[a])'
        BY <1>1 DEF AoutInv, C!FailureReported, C!TakenForWritten
    <1>3. C!FailureReported'
        BY <1>1 DEF C!FailureReported
    <1>. QED BY <1>1, <1>2, <1>3 DEF AoutInv, C!FailureReported, C!TakenForWritten

LEMMA TestStopStep == ASSUME CompactInv, C!TestStop PROVE CompactInv'
    <1>. USE DEF CompactInv, C!TestStop, C!hw, C!cfg, C!poll
    <1>1. image.usr \in C!Outputs
        BY DEF C!TypeOK
    <1>3. C!TypeOK'
        BY <1>1, DriveTyped DEF C!TypeOK
    <1>4. AinInv' /\ HandshakeInv'
        BY DEF AinInv, HandshakeInv, Adopted
    <1>5. AoutInv'
        <2>1. CASE C!Drive(image.usr)
            BY <1>1, <2>1, DriveStep
        <2>2. CASE io' = [io EXCEPT !.pc = "flipping"]
            BY <2>2 DEF AoutInv, C!TypeOK, C!FailureReported, C!TakenForWritten
        <2>. QED BY <2>1, <2>2
    <1>. QED BY <1>3, <1>4, <1>5

LEMMA FlipStep == ASSUME CompactInv, C!Flip PROVE CompactInv'
    <1>. USE DEF CompactInv, C!Flip, C!hw, C!cfg, C!poll
    <1>1. pi \in C!Outputs /\ image'.usr = pi /\ image'.drv = image.drv
        BY DEF C!TypeOK
    <1>2. C!TypeOK'
        BY <1>1, DriveTyped DEF C!TypeOK
    <1>3. AinInv' /\ HandshakeInv'
        BY <1>1 DEF AinInv, HandshakeInv, Adopted
    <1>4. AoutInv'
        BY <1>1, DriveStep
    <1>. QED BY <1>2, <1>3, <1>4

LEMMA WriteAoutStep ==
    ASSUME CompactInv, NEW a \in Aout, NEW ok \in BOOLEAN, C!WriteAout(a, ok)
    PROVE  CompactInv'
    <1>. USE DEF CompactInv, C!WriteAout, C!hw, C!cfg, C!poll
    <1>1. image.usr.aout[a] \in Level
        BY DEF C!TypeOK, C!Outputs
    <1>2. /\ dac' \in [Aout -> Level] /\ prev' \in [Aout -> Level \cup {C!Unwritten}]
          /\ io' \in [pc: {"first", "flip", "flipping", "aout"}, left: SUBSET Aout, err: BOOLEAN]
          /\ io'.pc = "aout" /\ io'.left = io.left \ {a} /\ io'.err = (io.err \/ ~ok)
        BY <1>1 DEF C!TypeOK
    <1>3. C!TypeOK'
        BY <1>2 DEF C!TypeOK
    <1>4. AinInv' /\ HandshakeInv'
        BY DEF AinInv, HandshakeInv, Adopted
    <1>5. AoutInv'
        BY <1>2 DEF AoutInv, C!TypeOK, C!FailureReported, C!TakenForWritten
    <1>. QED BY <1>3, <1>4, <1>5

LEMMA EndCycleStep == ASSUME CompactInv, C!EndCycle PROVE CompactInv'
    <1>. USE DEF CompactInv, C!EndCycle, C!hw, C!cfg, C!poll
    <1>1. /\ image' \in [drv: C!Inputs, usr: C!Outputs]
          /\ image'.usr = image.usr /\ image'.drv.ain = image.drv.ain /\ image'.drv.aoutErr = io.err
        BY DEF C!TypeOK, C!Inputs
    <1>2. io' \in [pc: {"first", "flip", "flipping", "aout"}, left: SUBSET Aout, err: BOOLEAN]
          /\ io'.pc = "flip"
        BY DEF C!TypeOK
    <1>3. C!TypeOK'
        BY <1>1, <1>2 DEF C!TypeOK
    <1>4. AinInv' /\ HandshakeInv'
        BY <1>1 DEF AinInv, HandshakeInv, Adopted
    <1>5. AoutInv'
        BY <1>1, <1>2 DEF AoutInv, C!FailureReported, C!TakenForWritten
    <1>. QED BY <1>3, <1>4, <1>5

-----------------------------------------------------------------------------
(* The ain thread.                                                         *)
LEMMA AinTopStep == ASSUME CompactInv, C!AinTop PROVE CompactInv'
    <1>. USE DEF CompactInv, C!AinTop, C!hw, C!cfg, C!poll
    <1>1. C!TypeOK'
        BY DEF C!TypeOK
    <1>2. AinInv' /\ HandshakeInv'
        BY DEF AinInv, HandshakeInv, Adopted, C!TypeOK
    <1>3. AoutInv'
        BY DEF AoutInv, C!FailureReported, C!TakenForWritten
    <1>. QED BY <1>1, <1>2, <1>3

LEMMA AinAdoptStep == ASSUME CompactInv, C!AinAdopt PROVE CompactInv'
    <1>. USE DEF CompactInv, C!AinAdopt, C!hw, C!cfg, C!poll
    <1>. DEFINE readings == [c \in Ain |-> IF c \in config THEN image.drv.ain[c] ELSE 0]
    <1>1. image.drv \in C!Inputs /\ image.drv.ain \in [Ain -> C!Reading]
        BY DEF C!TypeOK, C!Inputs
    <1>2. readings \in [Ain -> C!Reading]
        BY <1>1 DEF C!Reading
    <1>3. image' = [image EXCEPT !.drv = [image.drv EXCEPT !.ain = readings]]
        BY <1>1 DEF C!TypeOK
    <1>4. /\ image' \in [drv: C!Inputs, usr: C!Outputs]
          /\ image'.usr = image.usr /\ image'.drv.ain = readings
          /\ image'.drv.aoutErr = image.drv.aoutErr
        BY <1>1, <1>2, <1>3 DEF C!TypeOK, C!Inputs
    <1>5. config \in Configs /\ config \subseteq Ain
        BY StandaloneAssumption DEF C!TypeOK
    <1>6. chans' \in Seq(Ain)
        BY <1>5, EnabledInputs
    <1>7. next' \in 1..(Len(chans') + 1) /\ (chans' # <<>> => next' \in 1..Len(chans'))
        BY <1>6
    <1>8. C!TypeOK'
        BY <1>4, <1>6, <1>7 DEF C!TypeOK
    <1>9. Adopted(config)'
        BY <1>4 DEF Adopted
    <1>10. ain'.pc = "complete"
        BY DEF C!TypeOK
    <1>11. AinInv'
        BY <1>5, <1>7, <1>9, <1>10 DEF AinInv, Adopted
    <1>12. HandshakeInv'
        BY <1>9, <1>10 DEF HandshakeInv, Adopted
    <1>13. AoutInv'
        BY <1>4 DEF AoutInv, C!FailureReported, C!TakenForWritten
    <1>. QED BY <1>8, <1>11, <1>12, <1>13

LEMMA AinCompleteStep == ASSUME CompactInv, C!AinComplete PROVE CompactInv'
    <1>. USE DEF CompactInv, C!AinComplete, C!hw, C!cfg, C!poll
    <1>1. C!TypeOK'
        BY DEF C!TypeOK
    <1>2. AinInv' /\ HandshakeInv'
        BY DEF AinInv, HandshakeInv, Adopted, C!TypeOK
    <1>3. AoutInv'
        BY DEF AoutInv, C!FailureReported, C!TakenForWritten
    <1>. QED BY <1>1, <1>2, <1>3

(* The next input, or the first again.                                     *)
LEMMA AfterTyped ==
    ASSUME C!TypeOK, AinInv, chans # <<>>
    PROVE  C!After \in 1..Len(chans) /\ C!After \in 1..(Len(chans) + 1)
    BY DEF C!After, AinInv, C!TypeOK

LEMMA AinPollStep ==
    ASSUME CompactInv, NEW ok \in BOOLEAN, C!AinPoll(ok)
    PROVE  CompactInv'
    <1>. USE DEF CompactInv, C!AinPoll, C!hw, C!cfg, C!poll
    <1>1. chans # <<>>
        BY DEF AinInv
    <1>2. /\ image' \in [drv: C!Inputs, usr: C!Outputs]
          /\ image'.usr = image.usr /\ image'.drv.aoutErr = image.drv.aoutErr
          /\ \A inputs \in Configs \cup {{}} : Adopted(inputs) => Adopted(inputs)'
        <2>1. chans[next] \in Ain
            BY <1>1, PolledInputs DEF AinInv, Adopted
        <2>2. image.drv.ain[chans[next]] \in C!Reading /\ 0 \in C!Reading
            BY <2>1 DEF C!TypeOK, C!Inputs, C!Reading
        <2>. QED BY <1>1, <2>2, ReadInput
    <1>3. /\ next' \in 1..Len(chans) /\ next' \in 1..(Len(chans) + 1)
          /\ ain' \in [pc: {"off", "top", "complete", "poll", "store"}, got: C!Reading]
          /\ ain'.pc \in {"store", "top"}
        BY <1>1, AfterTyped DEF AinInv, C!TypeOK, C!Reading
    <1>4. C!TypeOK'
        BY <1>2, <1>3 DEF C!TypeOK
    <1>5. AinInv'
        BY <1>1, <1>2, <1>3 DEF AinInv
    <1>6. HandshakeInv'
        <2>1. Adopted(config) => Adopted(config)'
            BY <1>2 DEF C!TypeOK
        <2>2. UNCHANGED config
            OBVIOUS
        <2>. QED BY <1>3, <2>1, <2>2 DEF HandshakeInv, Adopted
    <1>7. AoutInv'
        BY <1>2 DEF AoutInv, C!FailureReported, C!TakenForWritten
    <1>. QED BY <1>4, <1>5, <1>6, <1>7

LEMMA AinStoreStep == ASSUME CompactInv, C!AinStore PROVE CompactInv'
    <1>. USE DEF CompactInv, C!AinStore, C!hw, C!cfg, C!poll
    <1>1. chans # <<>>
        BY DEF AinInv
    <1>2. /\ image' \in [drv: C!Inputs, usr: C!Outputs]
          /\ image'.usr = image.usr /\ image'.drv.aoutErr = image.drv.aoutErr
          /\ \A inputs \in Configs \cup {{}} : Adopted(inputs) => Adopted(inputs)'
        <2>1. ain.got \in C!Reading
            BY DEF C!TypeOK
        <2>. QED BY <1>1, <2>1, ReadInput
    <1>3. /\ next' \in 1..Len(chans) /\ next' \in 1..(Len(chans) + 1)
          /\ ain' \in [pc: {"off", "top", "complete", "poll", "store"}, got: C!Reading]
          /\ ain'.pc \in {"store", "top"}
        BY <1>1, AfterTyped DEF C!TypeOK, C!Reading
    <1>4. C!TypeOK'
        BY <1>2, <1>3 DEF C!TypeOK
    <1>5. AinInv'
        BY <1>1, <1>2, <1>3 DEF AinInv
    <1>6. HandshakeInv'
        <2>1. Adopted(config) => Adopted(config)'
            BY <1>2 DEF C!TypeOK
        <2>2. UNCHANGED config
            OBVIOUS
        <2>. QED BY <1>3, <2>1, <2>2 DEF HandshakeInv, Adopted
    <1>7. AoutInv'
        BY <1>2 DEF AoutInv, C!FailureReported, C!TakenForWritten
    <1>. QED BY <1>4, <1>5, <1>6, <1>7

-----------------------------------------------------------------------------
(* The reset, the applications, and steps of nobody.                       *)
LEMMA ResetStartStep == ASSUME CompactInv, C!ResetStart PROVE CompactInv'
    <1>. USE DEF CompactInv, C!ResetStart, C!hw, C!cfg, C!poll
    <1>1. C!TypeOK'
        BY DEF C!TypeOK
    <1>2. AinInv' /\ HandshakeInv'
        BY DEF AinInv, HandshakeInv, Adopted, C!TypeOK
    <1>3. AoutInv'
        BY DEF AoutInv, C!FailureReported, C!TakenForWritten
    <1>. QED BY <1>1, <1>2, <1>3

LEMMA ResetConfigStep == ASSUME CompactInv, C!ResetConfig PROVE CompactInv'
    <1>. USE DEF CompactInv, C!ResetConfig, C!hw, C!cfg, C!poll
    <1>1. C!TypeOK'
        BY DEF C!TypeOK
    <1>2. AinInv' /\ HandshakeInv'
        BY DEF AinInv, HandshakeInv, Adopted, C!TypeOK
    <1>3. AoutInv'
        BY DEF AoutInv, C!FailureReported, C!TakenForWritten
    <1>. QED BY <1>1, <1>2, <1>3

LEMMA ResetArmStep == ASSUME CompactInv, C!ResetArm PROVE CompactInv'
    <1>. USE DEF CompactInv, C!ResetArm, C!hw, C!cfg, C!poll
    <1>1. C!TypeOK'
        BY DEF C!TypeOK
    <1>2. AinInv' /\ HandshakeInv'
        BY DEF AinInv, HandshakeInv, Adopted, C!TypeOK
    <1>3. AoutInv'
        BY DEF AoutInv, C!FailureReported, C!TakenForWritten
    <1>. QED BY <1>1, <1>2, <1>3

LEMMA ResetWaitStep == ASSUME CompactInv, C!ResetWait PROVE CompactInv'
    <1>. USE DEF CompactInv, C!ResetWait, C!hw, C!cfg, C!poll
    <1>1. C!TypeOK'
        BY DEF C!TypeOK
    <1>2. AinInv' /\ HandshakeInv'
        BY DEF AinInv, HandshakeInv, Adopted, C!TypeOK
    <1>3. AoutInv'
        BY DEF AoutInv, C!FailureReported, C!TakenForWritten
    <1>. QED BY <1>1, <1>2, <1>3

LEMMA StopIOStep == ASSUME CompactInv, C!StopIO PROVE CompactInv'
    <1>. USE DEF CompactInv, C!StopIO, C!hw, C!cfg, C!poll
    <1>1. C!TypeOK'
        BY DEF C!TypeOK
    <1>2. AinInv' /\ HandshakeInv'
        BY DEF AinInv, HandshakeInv, Adopted, C!TypeOK
    <1>3. AoutInv'
        BY DEF AoutInv, C!FailureReported, C!TakenForWritten
    <1>. QED BY <1>1, <1>2, <1>3

LEMMA ResetAdjustStep == ASSUME CompactInv, C!ResetAdjust PROVE CompactInv'
    <1>. USE DEF CompactInv, C!ResetAdjust, C!hw, C!cfg, C!poll
    <1>1. pi' \in C!Outputs
        BY StandaloneAssumption DEF C!AllZero, C!Outputs
    <1>2. C!TypeOK'
        BY <1>1 DEF C!TypeOK
    <1>3. AinInv' /\ HandshakeInv'
        BY DEF AinInv, HandshakeInv, Adopted
    <1>4. AoutInv'
        BY DEF AoutInv, C!FailureReported, C!TakenForWritten
    <1>. QED BY <1>2, <1>3, <1>4

LEMMA WriteStep == ASSUME CompactInv, C!Write PROVE CompactInv'
    <1>. USE DEF CompactInv, C!Write, C!hw, C!cfg, C!poll
    <1>1. pi' \in C!Outputs
        <2>1. pi \in C!Outputs
            BY DEF C!TypeOK
        <2>2. CASE \E v \in Douts : pi' = [pi EXCEPT !.dout = v]
            BY <2>1, <2>2 DEF C!Outputs
        <2>3. ASSUME NEW a \in Aout, NEW v \in Level, pi' = [pi EXCEPT !.aout[a] = v]
              PROVE  pi' \in C!Outputs
            <3>1. pi' = [pi EXCEPT !.aout = [pi.aout EXCEPT ![a] = v]]
                BY <2>1, <2>3 DEF C!Outputs
            <3>2. [pi.aout EXCEPT ![a] = v] \in [Aout -> Level]
                BY <2>1 DEF C!Outputs
            <3>. QED BY <2>1, <3>1, <3>2 DEF C!Outputs
        <2>. QED BY <2>2, <2>3
    <1>2. C!TypeOK'
        BY <1>1 DEF C!TypeOK
    <1>3. AinInv' /\ HandshakeInv'
        BY DEF AinInv, HandshakeInv, Adopted
    <1>4. AoutInv'
        BY DEF AoutInv, C!FailureReported, C!TakenForWritten
    <1>. QED BY <1>2, <1>3, <1>4

LEMMA CompactStutter == ASSUME CompactInv, UNCHANGED C!vars PROVE CompactInv'
    <1>. USE DEF CompactInv, C!vars, C!hw, C!cfg, C!poll
    <1>1. C!TypeOK'
        BY DEF C!TypeOK
    <1>2. AinInv' /\ HandshakeInv'
        BY DEF AinInv, HandshakeInv, Adopted, C!TypeOK
    <1>3. AoutInv'
        BY DEF AoutInv, C!FailureReported, C!TakenForWritten
    <1>. QED BY <1>1, <1>2, <1>3

LEMMA CompactInit == ASSUME C!Init PROVE CompactInv
    <1>. USE StandaloneAssumption DEF C!Init
    <1>1. /\ pi \in C!Outputs /\ image \in [drv: C!Inputs, usr: C!Outputs]
          /\ image.drv.ain = [c \in Ain |-> 0] /\ image.usr = C!AllZero
        <2>1. C!AllZero \in C!Outputs
            BY DEF C!AllZero, C!Outputs
        <2>2. C!NoInputs \in C!Inputs
            BY DEF C!NoInputs, C!Inputs, C!Reading
        <2>. QED BY <2>1, <2>2 DEF C!NoInputs
    <1>2. /\ prev \in [Aout -> Level \cup {C!Unwritten}]
          /\ io \in [pc: {"first", "flip", "flipping", "aout"}, left: SUBSET Aout, err: BOOLEAN]
          /\ ain \in [pc: {"off", "top", "complete", "poll", "store"}, got: C!Reading]
        BY DEF C!Reading
    <1>3. chans \in Seq(Ain) /\ Len(chans) = 0 /\ next \in 1..(Len(chans) + 1)
        OBVIOUS
    <1>4. C!TypeOK
        BY <1>1, <1>2, <1>3 DEF C!TypeOK
    <1>5. Adopted({})
        BY <1>1, NoInputsEnabled DEF Adopted
    <1>6. AinInv /\ HandshakeInv
        BY <1>5 DEF AinInv, HandshakeInv
    <1>7. AoutInv
        BY DEF AoutInv, C!FailureReported, C!TakenForWritten
    <1>. QED BY <1>4, <1>6, <1>7 DEF CompactInv

LEMMA CompactStep == ASSUME CompactInv, C!Next PROVE CompactInv'
    <1>1. CASE C!IoThread
        BY <1>1, TestStopStep, FlipStep, WriteAoutStep, EndCycleStep DEF C!IoThread
    <1>2. CASE C!AinThread
        BY <1>2, AinTopStep, AinAdoptStep, AinCompleteStep, AinPollStep, AinStoreStep
        DEF C!AinThread
    <1>3. CASE C!ResetStart \/ C!Reset
        BY <1>3, ResetStartStep, ResetAdjustStep, ResetConfigStep, ResetArmStep, ResetWaitStep
        DEF C!Reset
    <1>4. CASE C!Write \/ C!StopIO
        BY <1>4, WriteStep, StopIOStep
    <1>. QED BY <1>1, <1>2, <1>3, <1>4 DEF C!Next

-----------------------------------------------------------------------------
(* RevPi Flat.                                                             *)
LEMMA FlatInit == ASSUME F!Init PROVE FlatInv
    <1>. USE StandaloneAssumption DEF F!Init
    <1>1. F!AllZero \in F!Outputs /\ F!NoInputs \in F!Inputs
        BY DEF F!AllZero, F!Outputs, F!NoInputs, F!Inputs
    <1>2. F!TypeOK
        BY <1>1 DEF F!TypeOK
    <1>3. DoutInv
        BY DEF DoutInv, F!AllZero, F!Relay
    <1>. QED BY <1>2, <1>3 DEF FlatInv

LEMMA FlatStep == ASSUME FlatInv, F!Next PROVE FlatInv'
    <1>. USE StandaloneAssumption DEF FlatInv
    <1>1. CASE F!Take
        <2>1. pi \in F!Outputs /\ image'.usr = pi /\ image'.drv = image.drv
            BY <1>1 DEF F!TypeOK, F!Take
        <2>2. F!TypeOK'
            BY <1>1, <2>1 DEF F!TypeOK, F!Take, F!Outputs
        <2>3. pi.dout # F!Nothing /\ pi.aout # F!Nothing
            BY <2>1 DEF F!Outputs, F!Nothing
        <2>4. DoutInv'
            BY <1>1, <2>1, <2>3 DEF DoutInv, F!Take
        <2>. QED BY <2>2, <2>4
    <1>2. CASE F!SetRelay
        <2>1. F!TypeOK'
            BY <1>2 DEF F!TypeOK, F!SetRelay, F!Nothing, F!Relay
        <2>2. DoutInv'
            BY <1>2 DEF DoutInv, F!TypeOK, F!SetRelay, F!Relay
        <2>. QED BY <2>1, <2>2
    <1>3. CASE F!KeepDac
        <2>1. F!TypeOK'
            BY <1>3 DEF F!TypeOK, F!KeepDac
        <2>2. DoutInv'
            BY <1>3 DEF DoutInv, F!TypeOK, F!KeepDac
        <2>. QED BY <2>1, <2>2
    <1>4. ASSUME NEW ok \in BOOLEAN, F!WriteDac(ok) PROVE FlatInv'
        <2>. USE <1>4 DEF F!WriteDac
        <2>1. /\ image' \in [drv: F!Inputs, usr: F!Outputs]
              /\ image'.usr = image.usr /\ image'.drv.aoutErr = ~ok
            BY DEF F!TypeOK, F!Inputs
        <2>2. image.usr.aout \in Level
            BY DEF F!TypeOK, F!Outputs
        <2>3. F!TypeOK'
            BY <2>1, <2>2 DEF F!TypeOK
        <2>4. DoutInv'
            BY <2>1 DEF DoutInv, F!TypeOK
        <2>. QED BY <2>3, <2>4
    <1>5. CASE F!ReadAin \/ F!ResetTable
        BY <1>5 DEF F!ReadAin, F!ResetTable, F!TypeOK, DoutInv, F!Relay
    <1>6. CASE F!StoreAin
        <2>1. /\ image' \in [drv: F!Inputs, usr: F!Outputs]
              /\ image'.usr = image.usr /\ image'.drv.aoutErr = image.drv.aoutErr
            BY <1>6 DEF F!TypeOK, F!Inputs, F!StoreAin
        <2>. QED BY <1>6, <2>1 DEF F!StoreAin, F!TypeOK, DoutInv, F!Relay
    <1>7. CASE F!ResetDefaults \/ F!Write
        <2>1. pi' \in F!Outputs
            BY <1>7 DEF F!ResetDefaults, F!Write, F!AllZero, F!Outputs, F!TypeOK
        <2>. QED BY <1>7, <2>1 DEF F!ResetDefaults, F!Write, F!TypeOK, DoutInv, F!Relay
    <1>. QED BY <1>1, <1>2, <1>3, <1>4, <1>5, <1>6, <1>7 DEF F!Next, F!DoutThread, F!AinThread

LEMMA FlatStutter == ASSUME FlatInv, UNCHANGED F!vars PROVE FlatInv'
    BY DEF FlatInv, F!vars, F!TypeOK, DoutInv, F!Relay

-----------------------------------------------------------------------------
LEMMA InitStep == ASSUME Init PROVE IndInv
    BY CompactInit, FlatInit DEF Init, IndInv

LEMMA NextStep == ASSUME IndInv, [Next]_vars PROVE IndInv'
    <1>1. CASE Compact(C!Next)
        BY <1>1, CompactStep DEF Compact, IndInv
    <1>2. CASE Flat(F!Next)
        BY <1>2, FlatStep DEF Flat, IndInv
    <1>3. CASE UNCHANGED vars
        <2>1. UNCHANGED machine /\ UNCHANGED C!vars /\ UNCHANGED F!vars
            BY <1>3 DEF vars, ofCompact, C!vars, C!hw, C!cfg, C!poll, F!vars
        <2>. QED BY <2>1, CompactStutter, FlatStutter DEF IndInv
    <1>. QED BY <1>1, <1>2, <1>3 DEF Next

(* The inductive invariant holds in every state of either machine.         *)
THEOREM Invariance == Spec => []IndInv
    <1>1. Init => IndInv
        BY InitStep
    <1>2. IndInv /\ [Next]_vars => IndInv'
        BY NextStep
    <1>. QED BY <1>1, <1>2, PTL DEF Spec

(* When revpi_compact_reset() has returned, the thread of the analog       *)
(* inputs polls those of the new configuration and no disabled one shows   *)
(* what was measured under the old: whenever the thread was met.           *)
THEOREM ResetIsAdopted == Spec => []AinReflectsConfig
    <1>1. IndInv => AinReflectsConfig
        BY DEF IndInv, CompactInv, HandshakeInv, Adopted, AinReflectsConfig,
               C!AinReflectsConfig
    <1>. QED BY <1>1, Invariance, PTL

(* An analog output that does not show what it was told is reported; on    *)
(* RevPi Compact it is written again as well.  This is so for all levels,  *)
(* 65535 among them, and for every value the DAC may have at the probe; in *)
(* the two cases before the first write the property says what is missed.  *)
THEOREM FailuresAreReported == Spec => []FailureReported
    <1>1. IndInv => FailureReported
        <2>1. ASSUME CompactInv PROVE C!FailureReported
            BY <2>1 DEF CompactInv, AoutInv
        <2>2. ASSUME FlatInv PROVE F!FailureReported
            BY <2>2 DEF FlatInv, DoutInv, F!FailureReported
        <2>3. ASSUME machine = "flat" PROVE machine # "compact"
            BY <2>3
        <2>. QED BY <2>1, <2>2, <2>3 DEF IndInv, FailureReported
    <1>. QED BY <1>1, Invariance, PTL

=============================================================================
