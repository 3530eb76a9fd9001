--------------------------- MODULE CyclicExchange ---------------------------
(***************************************************************************)
(* The cyclic exchange of the I/O thread with the I/O modules of the       *)
(* bridge (RevPiDevice_run): one telegram after the other, what each kind  *)
(* of module is sent of the process image, the caches of what it was sent  *)
(* before, lost requests and lost answers, the error counters, the         *)
(* configuration telegrams before the first cycle, and KB_STOP_IO.         *)
(*                                                                         *)
(* The outputs of a module are words: Pins are sent in every telegram, a   *)
(* channel (a PWM value of a DIO, an analog output of a MIO) only when the *)
(* driver takes it for changed.  AIO and RO get all words every time.      *)
(* The module behind the bus (modOut, gotConfig) is external: it shows     *)
(* what it is sent, and shows Off after a reset.                           *)
(***************************************************************************)
EXTENDS Naturals, Sequences, FiniteSets

CONSTANTS
    Tables,         \* the device tables: sequences of Modules
    MaxDevices,     \* none is longer
    Channel,        \* the channels of a module
    Pins,           \* its direct outputs
    Value, Off,     \* values of a word, and the one that KB_STOP_IO sends
    Default,        \* the value of every word in ai8uPIDefault
    MaxErrorCnt,    \* 255: where the error counter of a module saturates
    ErrorLimit2,    \* i16uRS485ErrorLimit2, 0 if there is no limit
    MaxRestarts     \* bound of the resets and restarts of the bridge

Word == Channel \cup {Pins}
Kinds == {"dio", "aio", "ro", "mio"}
(* listed: PiCtory configured it; fits: its sId has the output length that *)
(* the driver expects.                                                     *)
Modules == [kind: Kinds, listed: BOOLEAN, fits: BOOLEAN]

ASSUME ExchangeAssumption ==
    /\ Tables \subseteq Seq(Modules)
    /\ MaxDevices \in Nat /\ \A t \in Tables : Len(t) <= MaxDevices
    /\ Pins \notin Channel
    /\ Off \in Value /\ Default \in Value
    /\ MaxErrorCnt \in Nat /\ MaxErrorCnt > 1
    /\ ErrorLimit2 \in Nat /\ MaxRestarts \in Nat

VARIABLES
    table,          \* RevPiDevices_s.dev
    active,         \* i8uActive of each
    errCnt,         \* i16uErrorCnt of each
    offline,        \* i8uModuleState is IOSTATE_OFFLINE
    image,          \* the outputs of each in the process image
    forced,         \* aio.i8uChannels of a MIO there
    cache,          \* last_out of a DIO, mio_aio_request_last of a MIO
    stopIO,         \* PICONTROL_DEV_FLAG_STOP_IO
    running,        \* eBridgeState is piBridgeRun
    io,             \* where the I/O thread is: see IoStates
    modOut,         \* what the module shows
    gotConfig,      \* it got all configuration telegrams that it was sent
    restarts,
    stale,          \* history: channels the driver may be wrong about
    late            \* history: what went past a stop of the I/Os

dev == <<table, active, errCnt, offline>>
pi == <<image, forced>>
modules == <<modOut, gotConfig>>
hist == <<stale, late>>
vars == <<dev, pi, cache, stopIO, running, io, modules, restarts, hist>>

Devices == 1..Len(table)
Kind(d) == table[d].kind
AllOff == [w \in Word |-> Off]
Shut == [d \in Devices |-> AllOff]

(* How a module is configured: the number of telegrams, and whether one    *)
(* that fails ends it with an error.                                       *)
piDIOComm_Init == [telegrams |-> 1, checked |-> TRUE]
piAIOComm_Init == [telegrams |-> 3, checked |-> TRUE]
revpi_ro_init == [telegrams |-> 1, checked |-> TRUE]
revpi_mio_init == [telegrams |-> 3, checked |-> FALSE]

Setup(d) == CASE Kind(d) = "dio" -> piDIOComm_Init [] Kind(d) = "aio" -> piAIOComm_Init
              [] Kind(d) = "ro" -> revpi_ro_init [] Kind(d) = "mio" -> revpi_mio_init

(* tel: the words of the telegram; out: the outputs that it was made from; *)
(* n: the device, or one behind the last; part: the configuration telegram *)
(* or, of a MIO, 1 for the digital and 2 for the analog exchange; sum:     *)
(* RevPiDevices_s.i16uErrorCnt; failed: the exchange had an error.         *)
Places == {"idle", "configure", "next", "test", "fetch", "send", "testStore", "store"}
Telegrams == UNION {[ws -> Value] : ws \in SUBSET Word}
IoStates == [pc: Places, n: 1..(Len(table) + 1), part: 1..3,
             out: [Word -> Value], tel: Telegrams, sum: Nat, failed: BOOLEAN]
Begin(place) == [pc |-> place, n |-> 1, part |-> 1, out |-> AllOff, tel |-> <<>>,
                 sum |-> 0, failed |-> FALSE]
Idle == Begin("idle")

TypeOK ==
    /\ table \in Tables
    /\ active \in [Devices -> BOOLEAN]
    /\ errCnt \in [Devices -> 0..MaxErrorCnt]
    /\ offline \in [Devices -> BOOLEAN]
    /\ image \in [Devices -> [Word -> Value]]
    /\ forced \in [Devices -> SUBSET Channel]
    /\ cache \in [Devices -> [Word -> Value]]
    /\ stopIO \in BOOLEAN /\ running \in BOOLEAN
    /\ io \in IoStates
    /\ modOut \in [Devices -> [Word -> Value]]
    /\ gotConfig \in [Devices -> BOOLEAN]
    /\ restarts \in 0..MaxRestarts
    /\ stale \in [Devices -> SUBSET Channel]
    /\ late \in [sent: 0..2, stored: 0..2]

(* The bridge after its first scan, about to configure the modules.        *)
Init ==
    /\ table \in Tables
    /\ active = [d \in Devices |-> TRUE]
    /\ errCnt = [d \in Devices |-> 0]
    /\ offline = [d \in Devices |-> FALSE]
    /\ image = [d \in Devices |-> [w \in Word |-> Default]]
    /\ forced = [d \in Devices |-> {}]
    /\ cache = Shut
    /\ stopIO = FALSE /\ running = TRUE
    /\ io = Begin("configure")
    /\ modOut = Shut
    /\ gotConfig = [d \in Devices |-> FALSE]
    /\ restarts = 0
    /\ stale = [d \in Devices |-> {}]
    /\ late = [sent |-> 0, stored |-> 0]

-----------------------------------------------------------------------------
(* PiBridgeMaster_Configure: the configuration of each active module, one  *)
(* telegram after the other.  A module that PiCtory does not know, or that *)
(* a telegram fails for, is deactivated; the errors of a MIO are ignored.  *)
ConfigNext == [io EXCEPT !.n = io.n + 1, !.part = 1]

ConfigSkip ==
    /\ io.pc = "configure" /\ io.n \in Devices
    /\ ~active[io.n] \/ ~table[io.n].listed
    /\ active' = [active EXCEPT ![io.n] = FALSE]
    /\ io' = ConfigNext
    /\ UNCHANGED <<table, errCnt, offline, pi, cache, stopIO, running, modules,
                   restarts, hist>>

(* A bug: only the last configuration telegram of a module is checked.     *)
ConfigSendLastChecked(arrived, answered) ==
    /\ io.pc = "configure" /\ io.n \in Devices
    /\ active[io.n] /\ table[io.n].listed
    /\ answered => arrived
    /\ gotConfig' = [gotConfig EXCEPT ![io.n] = arrived /\ (@ \/ io.part = 1)]
    /\ active' = [active EXCEPT ![io.n] =
                    answered \/ ~Setup(io.n).checked \/ io.part < Setup(io.n).telegrams]
    /\ io' = IF io.part < Setup(io.n).telegrams THEN [io EXCEPT !.part = @ + 1] ELSE ConfigNext
    /\ UNCHANGED <<table, errCnt, offline, pi, cache, stopIO, running, modOut,
                   restarts, hist>>

(* answered: the driver got an answer; arrived: the module got the request.*)
ConfigSend(arrived, answered) ==
    /\ io.pc = "configure" /\ io.n \in Devices
    /\ active[io.n] /\ table[io.n].listed
    /\ answered => arrived
    /\ gotConfig' = [gotConfig EXCEPT ![io.n] = arrived /\ (@ \/ io.part = 1)]
    /\ \/ /\ answered \/ ~Setup(io.n).checked
          /\ io' = IF io.part < Setup(io.n).telegrams
                   THEN [io EXCEPT !.part = @ + 1] ELSE ConfigNext
          /\ UNCHANGED active
       \/ /\ ~answered /\ Setup(io.n).checked
          /\ active' = [active EXCEPT ![io.n] = FALSE]
          /\ io' = ConfigNext
    /\ UNCHANGED <<table, errCnt, offline, pi, cache, stopIO, running, modOut,
                   restarts, hist>>

(* Then the first exchange follows in the same cycle.                      *)
StartCycle ==
    /\ running
    /\ \/ io.pc = "configure" /\ io.n \notin Devices
       \/ io.pc = "idle"
    /\ io' = Begin("next")
    /\ UNCHANGED <<dev, pi, cache, stopIO, running, modules, restarts, hist>>

-----------------------------------------------------------------------------
(* A bug: the error counter of a module does not saturate.                 *)
FinishUnbounded(d, ok) ==
    /\ errCnt' = [errCnt EXCEPT ![d] = IF ok THEN 0 ELSE @ + 1]
    /\ offline' = [offline EXCEPT ![d] = ~ok /\ (@ \/ errCnt[d] >= MaxErrorCnt)]
    /\ io' = [io EXCEPT
                !.pc = "next", !.n = d + 1, !.part = 1, !.out = AllOff, !.tel = <<>>,
                !.failed = @ \/ ~ok,
                !.sum = @ + IF errCnt'[d] > 1 THEN errCnt'[d] ELSE 0]
    /\ UNCHANGED <<table, active>>

(* revpi_dev_update_state, and on to the next device.                      *)
Finish(d, ok) ==
    /\ errCnt' = [errCnt EXCEPT ![d] =
                    IF ok THEN 0 ELSE IF @ < MaxErrorCnt THEN @ + 1 ELSE @]
    /\ offline' = [offline EXCEPT ![d] = ~ok /\ (@ \/ errCnt[d] = MaxErrorCnt)]
    /\ io' = [io EXCEPT
                !.pc = "next", !.n = d + 1, !.part = 1, !.out = AllOff, !.tel = <<>>,
                !.failed = @ \/ ~ok,
                !.sum = @ + IF errCnt'[d] > 1 THEN errCnt'[d] ELSE 0]
    /\ UNCHANGED <<table, active>>

NextDevice ==
    /\ io.pc = "next" /\ io.n \in Devices
    /\ \/ ~active[io.n] /\ io' = [io EXCEPT !.n = @ + 1]
          /\ UNCHANGED <<dev, hist>>
       \/ /\ active[io.n] /\ ~table[io.n].fits /\ Kind(io.n) \in {"dio", "aio"}
          /\ Finish(io.n, FALSE) /\ UNCHANGED <<stale, late>>
       \/ /\ active[io.n] /\ (table[io.n].fits \/ Kind(io.n) \notin {"dio", "aio"})
          /\ io' = [io EXCEPT !.pc = "test"] /\ UNCHANGED <<dev, hist>>
    /\ UNCHANGED <<pi, cache, stopIO, running, modules, restarts>>

Changed(d, out) == {c \in Channel : out[c] # cache[d][c]}

(* The words of the next telegram, if the outputs are out and forced       *)
(* channels are sent in any case.                                          *)
piDIOComm_telegram(d, out) == {Pins} \cup Changed(d, out)
piAIOComm_telegram == Word
revpi_ro_telegram == Word
revpi_mio_digital == {Pins}
revpi_mio_analog(d, out, force) == Changed(d, out) \cup force

Sent(d, out, force) ==
    CASE Kind(d) = "dio" -> piDIOComm_telegram(d, out)
      [] Kind(d) = "aio" -> piAIOComm_telegram
      [] Kind(d) = "ro" -> revpi_ro_telegram
      [] Kind(d) = "mio" -> IF io.part = 1 THEN revpi_mio_digital
                            ELSE revpi_mio_analog(d, out, force)

(* A bug: the MIO remembers its outputs before they are sent, too.         *)
PrepareRemembering(d, out, force) ==
    /\ io' = [io EXCEPT !.pc = "send", !.out = out,
                        !.tel = [w \in Sent(d, out, force) |-> out[w]]]
    /\ cache' = IF Kind(d) = "dio" \/ (Kind(d) = "mio" /\ io.part = 2)
                THEN [cache EXCEPT ![d] = out] ELSE cache

(* The DIO remembers its outputs before they are sent.                     *)
Prepare(d, out, force) ==
    /\ io' = [io EXCEPT !.pc = "send", !.out = out,
                        !.tel = [w \in Sent(d, out, force) |-> out[w]]]
    /\ cache' = IF Kind(d) = "dio" THEN [cache EXCEPT ![d] = out] ELSE cache

(* A bug: a stopped MIO is sent only the channels that seem to be on.      *)
TestStopChanged ==
    /\ io.pc = "test"
    /\ \/ stopIO /\ Prepare(io.n, AllOff, {})
       \/ ~stopIO /\ io' = [io EXCEPT !.pc = "fetch"] /\ UNCHANGED cache
    /\ UNCHANGED <<dev, pi, stopIO, running, modules, restarts, hist>>

(* The flag is tested before lockPI is taken.                              *)
TestStop ==
    /\ io.pc = "test"
    /\ \/ stopIO /\ Prepare(io.n, AllOff, Channel)
       \/ ~stopIO /\ io' = [io EXCEPT !.pc = "fetch"] /\ UNCHANGED cache
    /\ UNCHANGED <<dev, pi, stopIO, running, modules, restarts, hist>>

Fetch ==
    /\ io.pc = "fetch"
    /\ Prepare(io.n, image[io.n], forced[io.n])
    /\ UNCHANGED <<dev, pi, stopIO, running, modules, restarts, hist>>

-----------------------------------------------------------------------------
(* pibridge_req_io: the request arrives or is lost, the answer as well.    *)
Show(d, tel) == [w \in Word |-> IF w \in DOMAIN tel THEN tel[w] ELSE modOut[d][w]]
Capped(n) == IF n > 2 THEN 2 ELSE n
LateSent == [late EXCEPT !.sent =
    IF stopIO /\ \E w \in DOMAIN io.tel : io.tel[w] # Off THEN Capped(@ + 1) ELSE @]

Answered ==
    /\ io.pc = "send"
    /\ modOut' = [modOut EXCEPT ![io.n] = Show(io.n, io.tel)]
    /\ io' = [io EXCEPT !.pc = "testStore"]
    /\ stale' = [stale EXCEPT ![io.n] = @ \ DOMAIN io.tel]
    /\ late' = LateSent
    /\ UNCHANGED <<dev, pi, cache, stopIO, running, gotConfig, restarts>>

(* A DIO takes the channels of a lost request for sent.                    *)
RequestLost ==
    /\ io.pc = "send"
    /\ Finish(io.n, FALSE)
    /\ stale' = [stale EXCEPT ![io.n] =
                    IF Kind(io.n) = "dio" THEN @ \cup (Channel \cap DOMAIN io.tel) ELSE @]
    /\ late' = LateSent
    /\ UNCHANGED <<pi, cache, stopIO, running, modules, restarts>>

(* A MIO takes the channels of an unanswered request for not sent.         *)
AnswerLost ==
    /\ io.pc = "send"
    /\ modOut' = [modOut EXCEPT ![io.n] = Show(io.n, io.tel)]
    /\ Finish(io.n, FALSE)
    /\ stale' = [stale EXCEPT ![io.n] =
                    IF Kind(io.n) = "mio" THEN @ \cup (Channel \cap DOMAIN io.tel)
                    ELSE @ \ DOMAIN io.tel]
    /\ late' = LateSent
    /\ UNCHANGED <<pi, cache, stopIO, running, gotConfig, restarts>>

(* After the inputs: the MIO goes on with its analog part, or remembers    *)
(* all its outputs if it was sent a channel.                               *)
Answer(d) ==
    \/ /\ Kind(d) = "mio" /\ io.part = 1
       /\ io' = [io EXCEPT !.pc = "test", !.part = 2, !.out = AllOff, !.tel = <<>>]
       /\ UNCHANGED <<dev, cache>>
    \/ /\ ~(Kind(d) = "mio" /\ io.part = 1)
       /\ Finish(d, TRUE)
       /\ cache' = IF Kind(d) = "mio" /\ DOMAIN io.tel # {}
                   THEN [cache EXCEPT ![d] = io.out] ELSE cache

(* A bug: the inputs are stored whatever the flag says.                    *)
TestStoreAlways ==
    /\ io.pc = "testStore"
    /\ io' = [io EXCEPT !.pc = "store"]
    /\ UNCHANGED <<dev, pi, cache, stopIO, running, modules, restarts, hist>>

TestStore ==
    /\ io.pc = "testStore"
    /\ \/ ~stopIO /\ io' = [io EXCEPT !.pc = "store"] /\ UNCHANGED <<dev, cache>>
       \/ stopIO /\ Answer(io.n)
    /\ UNCHANGED <<pi, stopIO, running, modules, restarts, stale, late>>

Store ==
    /\ io.pc = "store"
    /\ late' = [late EXCEPT !.stored = IF stopIO THEN Capped(@ + 1) ELSE @]
    /\ Answer(io.n)
    /\ UNCHANGED <<pi, stopIO, running, modules, restarts, stale>>

(* PiBridgeMaster_Run after RevPiDevice_run: too many errors stop it.      *)
TooManyErrors == io.failed /\ ErrorLimit2 > 0 /\ ErrorLimit2 < io.sum

EndCycle ==
    /\ io.pc = "next" /\ io.n \notin Devices
    /\ running' = ~TooManyErrors
    /\ io' = Idle
    /\ UNCHANGED <<dev, pi, cache, stopIO, modules, restarts, hist>>

-----------------------------------------------------------------------------
(* The applications: outputs (and forced channels) of a module, and        *)
(* KB_STOP_IO.  Both are refused while the bridge does not run.            *)
Write(d) ==
    /\ running
    /\ \/ \E w \in Word, v \in Value :
            image' = [image EXCEPT ![d][w] = v] /\ UNCHANGED forced
       \/ /\ Kind(d) = "mio"
          /\ \E cs \in SUBSET Channel : forced' = [forced EXCEPT ![d] = cs]
          /\ UNCHANGED image
    /\ UNCHANGED <<dev, cache, stopIO, running, io, modules, restarts, hist>>

(* data: 0 starts, 1 stops, 2 toggles.                                     *)
StopIO(data) ==
    /\ running
    /\ stopIO' = CASE data = 2 -> ~stopIO [] data = 1 -> TRUE [] data = 0 -> FALSE
    /\ late' = IF stopIO' /\ ~stopIO THEN [sent |-> 0, stored |-> 0] ELSE late
    /\ UNCHANGED <<dev, pi, cache, running, io, modules, restarts, stale>>

(* KB_RESET, piControlReset() and what follows from it: the configuration  *)
(* is read again, which clears the cache of the MIOs (revpi_mio_reset);    *)
(* PiBridgeMaster_Reset and the scan have the modules reset and found      *)
(* anew, and PiBridgeMaster_Adjust sets the outputs to their defaults.     *)
(* RevPiDevice_init leaves the error counters alone.                       *)
Restart ==
    /\ io.pc = "idle" /\ restarts < MaxRestarts
    /\ restarts' = restarts + 1
    /\ active' = [d \in Devices |-> TRUE]
    /\ image' = [d \in Devices |-> [w \in Word |-> Default]]
    /\ forced' = [d \in Devices |-> {}]
    /\ cache' = [d \in Devices |-> IF Kind(d) = "mio" THEN AllOff ELSE cache[d]]
    /\ running' = TRUE
    /\ io' = Begin("configure")
    /\ modOut' = Shut
    /\ gotConfig' = [d \in Devices |-> FALSE]
    /\ stale' = [d \in Devices |->
                    IF Kind(d) = "dio" THEN {c \in Channel : cache[d][c] # Off} ELSE {}]
    /\ UNCHANGED <<table, errCnt, offline, stopIO, late>>

(* KB_CONFIG_STOP, and KB_CONFIG_START, which configures the modules that  *)
(* are still active once more.                                             *)
Stop ==
    /\ io.pc = "idle" /\ running
    /\ running' = FALSE
    /\ UNCHANGED <<dev, pi, cache, stopIO, io, modules, restarts, hist>>

Continue ==
    /\ io.pc = "idle" /\ ~running /\ restarts < MaxRestarts
    /\ running' = TRUE
    /\ io' = Begin("configure")
    /\ restarts' = restarts + 1
    /\ UNCHANGED <<dev, pi, cache, stopIO, modules, hist>>

Configure == ConfigSkip \/ \E a, b \in BOOLEAN : ConfigSend(a, b)
Cycle == StartCycle \/ NextDevice \/ TestStop \/ Fetch \/ TestStore \/ Store \/ EndCycle
Transfer == Answered \/ RequestLost \/ AnswerLost
Client == (\E d \in Devices : Write(d)) \/ \E n \in 0..2 : StopIO(n)
Next == Configure \/ Cycle \/ Transfer \/ Client \/ Restart \/ Stop \/ Continue

Spec == Init /\ [][Next]_vars

(* The I/O thread runs, and the bus answers every module now and then.     *)
AnsweredBy(d, part) == io.n = d /\ io.part = part /\ Answered
Fairness ==
    /\ WF_vars(Configure) /\ WF_vars(Cycle) /\ WF_vars(Transfer)
    /\ \A d \in 1..MaxDevices, part \in 1..2 : SF_vars(AnsweredBy(d, part))
FairSpec == Spec /\ Fairness

-----------------------------------------------------------------------------
(* KB_STOP_IO takes effect within one telegram: the I/O thread tests the   *)
(* flag without a lock, so after a stop it may send the outputs it has     *)
(* read already, and store the inputs it has asked for, once and not more; *)
(* then the inputs belong to the simulation.                               *)
StopTakesEffect == late.sent <= 1 /\ late.stored <= 1

(* A module whose exchange was answered shows the outputs the telegram was *)
(* made from, though most of its channels are not sent: only channels that *)
(* a lost telegram (or, of a DIO, a reset of the module) left the driver   *)
(* wrong about may differ.  Pins, AIO and RO never do.                     *)
OutputsShown ==
    io.pc \in {"testStore", "store"} =>
        LET d == io.n
            told == CASE Kind(d) # "mio" -> Word
                      [] Kind(d) = "mio" -> IF io.part = 1 THEN {Pins} ELSE Channel
        IN  \A w \in told : modOut[d][w] = io.out[w] \/ w \in stale[d]

(* What the driver remembers is what the module shows, except for these.   *)
CacheTrue ==
    \A d \in Devices, c \in Channel :
        Kind(d) \in {"dio", "mio"} /\ cache[d][c] # modOut[d][c] =>
            c \in stale[d] \/ (io.n = d /\ io.pc \in {"send", "testStore", "store"})

(* Data is exchanged only with modules that got all of their configuration;*)
(* for a MIO revpi_mio_init() does not check it.                           *)
ActiveConfigured ==
    io.pc # "configure" =>
        \A d \in Devices :
            active[d] /\ Setup(d).checked => gotConfig[d]

(* While the I/Os are stopped, all outputs of the modules that take part   *)
(* in the exchange become Off and stay so, except for channels of a DIO    *)
(* that a lost telegram left the driver wrong about.                       *)
ShowsOff(d) == \A w \in Word : modOut[d][w] = Off \/ (Kind(d) = "dio" /\ w \in stale[d])
Takes(d) == active[d] /\ (table[d].fits \/ Kind(d) \in {"mio", "ro"})
StopZeroes ==
    <>[](stopIO /\ running) =>
        <>[](\A d \in Devices : Takes(d) => ShowsOff(d))

-----------------------------------------------------------------------------
(* What the code is meant to do and does not, as picontrol_ioctl.4 says:   *)
(* "If the I/O updates are stopped, piControls writes 0 to the outputs".   *)
(* An answered exchange of a stopped bridge leaves none on: but a PWM      *)
(* channel of a DIO whose telegram was lost is not sent again, because the *)
(* driver remembers it as sent.                                            *)
StoppedMeansOff ==
    [][stopIO /\ io.pc = "testStore" /\ io'.pc = "next"
        /\ io.out = AllOff => modOut[io.n] = AllOff]_vars
=============================================================================
