----------------------- MODULE CyclicExchange_proofs -----------------------
(***************************************************************************)
(* Proofs about CyclicExchange, for all device tables, channels and        *)
(* values: what the driver remembers of the outputs it has sent, what an   *)
(* answered module shows, how late KB_STOP_IO takes effect, and that only  *)
(* modules with their configuration take part in the exchange.             *)
(***************************************************************************)
EXTENDS CyclicExchange, TLAPS

(* Outside of the configuration, and of the gaps between the modules, the  *)
(* I/O thread is at one of the modules.                                    *)
AtModule == {"test", "fetch", "send", "testStore", "store"}
PlaceInv == io.pc \in AtModule => io.n \in Devices

(* The telegram that is made and not yet dealt with has words of the       *)
(* outputs it was made from.  A DIO takes all of them for sent; a MIO is   *)
(* not sent the channels that are as the driver remembers them.            *)
TelegramInv ==
    io.pc \in {"send", "testStore", "store"} =>
        /\ DOMAIN io.tel \subseteq Word
        /\ \A w \in DOMAIN io.tel : io.tel[w] = io.out[w]
        /\ Kind(io.n) = "dio" => cache[io.n] = io.out /\ Pins \in DOMAIN io.tel
        /\ Kind(io.n) = "mio" /\ io.part = 1 => DOMAIN io.tel = {Pins}
        /\ Kind(io.n) = "mio" /\ io.part # 1 =>
              \A c \in Channel \ DOMAIN io.tel : cache[io.n][c] = io.out[c]
        /\ Kind(io.n) \in {"aio", "ro"} => DOMAIN io.tel = Word

(* The module shows the words of an answered telegram.                     *)
ShownInv ==
    io.pc \in {"testStore", "store"} =>
        \A w \in DOMAIN io.tel : modOut[io.n][w] = io.tel[w]

(* What the driver remembers differs from what the module shows only in    *)
(* stale channels and in those of the telegram: of a DIO before it is      *)
(* sent, of a MIO after.                                                   *)
CacheInv ==
    \A d \in Devices, c \in Channel :
        Kind(d) \in {"dio", "mio"} /\ cache[d][c] # modOut[d][c] /\ c \notin stale[d] =>
            /\ io.n = d /\ c \in DOMAIN io.tel
            /\ \/ Kind(d) = "dio" /\ io.pc = "send"
               \/ Kind(d) = "mio" /\ io.pc \in {"testStore", "store"}

(* What is still on its way when the I/Os are stopped: outputs that are    *)
(* fetched or about to be, inputs that are about to be stored.             *)
OnItsWay == \/ io.pc = "fetch"
            \/ io.pc = "send" /\ \E w \in DOMAIN io.tel : io.tel[w] # Off
StopInv ==
    stopIO => /\ OnItsWay => late.sent = 0
              /\ io.pc = "store" => late.stored = 0

(* The modules that were dealt with, and the one that got a telegram, have *)
(* their configuration up to there.                                        *)
ConfigInv ==
    io.pc = "configure" =>
        /\ \A d \in Devices : d < io.n /\ active[d] /\ Setup(d).checked => gotConfig[d]
        /\ io.n \in Devices /\ io.part > 1 /\ Setup(io.n).checked => gotConfig[io.n]

IndInv ==
    /\ TypeOK
    /\ PlaceInv
    /\ TelegramInv
    /\ ShownInv
    /\ CacheInv
    /\ StopInv
    /\ StopTakesEffect
    /\ ConfigInv
    /\ ActiveConfigured

-----------------------------------------------------------------------------
(* Devices and telegrams.                                                  *)
LEMMA KindsOfDevices ==
    ASSUME TypeOK, NEW d \in Devices
    PROVE  /\ table[d] \in Modules
           /\ Kind(d) \in Kinds
    <1>1. table \in Seq(Modules)
        BY ExchangeAssumption DEF TypeOK
    <1>2. table[d] \in Modules
        BY <1>1 DEF Devices
    <1>. QED BY <1>2 DEF Kind, Modules

LEMMA SetupShort ==
    ASSUME TypeOK, NEW d \in Devices
    PROVE  Setup(d).telegrams \in 1..3
    <1>. QED BY KindsOfDevices DEF Setup, Kinds, piDIOComm_Init, piAIOComm_Init,
                revpi_ro_init, revpi_mio_init

LEMMA EmptyTelegram == <<>> \in Telegrams /\ DOMAIN <<>> = {}
    <1>1. DOMAIN <<>> = {}
        OBVIOUS
    <1>2. <<>> = [w \in {} |-> Off]
        OBVIOUS
    <1>3. <<>> \in [{} -> Value]
        BY <1>2
    <1>. QED BY <1>1, <1>3 DEF Telegrams

LEMMA PartOfOutputs ==
    ASSUME NEW out \in [Word -> Value], NEW ws \in SUBSET Word
    PROVE  [w \in ws |-> out[w]] \in Telegrams
    <1>1. [w \in ws |-> out[w]] \in [ws -> Value]
        OBVIOUS
    <1>. QED BY <1>1 DEF Telegrams

LEMMA TelegramTyped ==
    ASSUME NEW tel \in Telegrams
    PROVE  DOMAIN tel \subseteq Word /\ \A w \in DOMAIN tel : tel[w] \in Value
    BY DEF Telegrams

LEMMA AllOffTyped == AllOff \in [Word -> Value]
    BY ExchangeAssumption DEF AllOff

LEMMA LengthOfTable == ASSUME TypeOK PROVE Len(table) \in Nat
    <1>1. table \in Seq(Modules)
        BY ExchangeAssumption DEF TypeOK
    <1>. QED BY <1>1

LEMMA BeginTyped ==
    ASSUME TypeOK, NEW place \in Places
    PROVE  Begin(place) \in IoStates
    <1>1. 1 \in 1..(Len(table) + 1)
        BY LengthOfTable
    <1>. QED BY <1>1, AllOffTyped, EmptyTelegram DEF Begin, IoStates

-----------------------------------------------------------------------------
(* What the steps of an exchange have in common.                           *)
LEMMA FinishTyped ==
    ASSUME TypeOK, io.n \in Devices, NEW ok \in BOOLEAN, Finish(io.n, ok)
    PROVE  /\ errCnt' \in [Devices -> 0..MaxErrorCnt]
           /\ offline' \in [Devices -> BOOLEAN]
           /\ io' \in IoStates /\ io'.pc = "next"
    <1>. USE ExchangeAssumption DEF Finish
    <1>1. errCnt' \in [Devices -> 0..MaxErrorCnt]
        BY DEF TypeOK
    <1>2. offline' \in [Devices -> BOOLEAN]
        BY DEF TypeOK
    <1>3. io.n + 1 \in 1..(Len(table) + 1)
        BY LengthOfTable DEF Devices
    <1>4. errCnt'[io.n] \in Nat
        BY <1>1
    <1>5. io \in IoStates
        BY DEF TypeOK
    <1>6. io.sum + (IF errCnt'[io.n] > 1 THEN errCnt'[io.n] ELSE 0) \in Nat
        BY <1>4, <1>5 DEF IoStates
    <1>7. (io.failed \/ ~ok) \in BOOLEAN
        OBVIOUS
    <1>8. \A sum \in Nat, failed \in BOOLEAN :
             [io EXCEPT !.pc = "next", !.n = io.n + 1, !.part = 1, !.out = AllOff, !.tel = <<>>,
                        !.failed = failed, !.sum = sum] \in IoStates
        <2>1. /\ AllOff \in [Word -> Value] /\ <<>> \in Telegrams
              /\ "next" \in Places /\ 1 \in 1..3
            BY AllOffTyped, EmptyTelegram DEF Places
        <2>. QED BY ONLY <1>3, <1>5, <2>1 DEF IoStates
    <1>9. io' \in IoStates
        BY <1>6, <1>7, <1>8
    <1>10. io'.pc = "next"
        BY <1>5 DEF IoStates
    <1>. QED BY <1>1, <1>2, <1>9, <1>10

LEMMA SentWords ==
    ASSUME TypeOK, io.n \in Devices, NEW out \in [Word -> Value], NEW force \in SUBSET Channel
    PROVE  /\ Sent(io.n, out, force) \subseteq Word
           /\ Kind(io.n) = "dio" => Sent(io.n, out, force) = {Pins} \cup Changed(io.n, out)
           /\ Kind(io.n) = "mio" /\ io.part = 1 => Sent(io.n, out, force) = {Pins}
           /\ Kind(io.n) = "mio" /\ io.part # 1 =>
                 Sent(io.n, out, force) = Changed(io.n, out) \cup force
           /\ Kind(io.n) \in {"aio", "ro"} => Sent(io.n, out, force) = Word
    <1>1. Kind(io.n) \in Kinds
        BY KindsOfDevices
    <1>. QED BY <1>1 DEF Kinds, Sent, Changed, Word, piDIOComm_telegram, piAIOComm_telegram,
                revpi_ro_telegram, revpi_mio_digital, revpi_mio_analog

LEMMA PrepareStep ==
    ASSUME IndInv, io.pc \in {"test", "fetch"},
           NEW out \in [Word -> Value], NEW force \in SUBSET Channel,
           Prepare(io.n, out, force),
           UNCHANGED <<dev, stopIO, running, modules, restarts, hist>>
    PROVE  /\ io' \in IoStates /\ cache' \in [Devices -> [Word -> Value]]
           /\ io'.pc = "send" /\ io'.n = io.n /\ io'.out = out
           /\ PlaceInv' /\ TelegramInv' /\ CacheInv'
    <1>. USE DEF IndInv, Prepare
    <1>1. io.n \in Devices
        BY DEF PlaceInv, AtModule
    <1>2. io \in IoStates /\ cache \in [Devices -> [Word -> Value]]
        BY DEF TypeOK
    <1>. DEFINE words == Sent(io.n, out, force)
                tel == [w \in words |-> out[w]]
    <1>3. words \subseteq Word
        BY <1>1, SentWords
    <1>4. tel \in Telegrams
        BY <1>3, PartOfOutputs
    <1>5. io' \in IoStates
        BY <1>2, <1>4 DEF IoStates, Places
    <1>6. cache' \in [Devices -> [Word -> Value]]
        BY <1>2
    <1>7. /\ io'.pc = "send" /\ io'.n = io.n /\ io'.out = out /\ io'.part = io.part
          /\ io'.tel = tel
        BY <1>2 DEF IoStates
    <1>8. DOMAIN io'.tel = words /\ \A w \in words : io'.tel[w] = out[w]
        BY <1>7
    <1>9. Devices' = Devices /\ \A d \in Devices : Kind(d)' = Kind(d)
        BY DEF dev, Devices, Kind
    <1>. HIDE DEF words, tel
    <1>10. PlaceInv'
        BY <1>1, <1>7, <1>9 DEF PlaceInv
    <1>11. cache'[io.n] = IF Kind(io.n) = "dio" THEN out ELSE cache[io.n]
        BY <1>1, <1>2
    <1>12. Kind(io.n)' = Kind(io.n)
        BY <1>7 DEF Kind, dev
    <1>13. TelegramInv'
        <2>1. words \subseteq Word /\ \A w \in words : tel[w] = out[w]
            BY <1>3 DEF tel
        <2>2. Kind(io.n) = "dio" => cache'[io.n] = out /\ Pins \in words
            BY <1>1, <1>11, SentWords DEF words
        <2>3. Kind(io.n) = "mio" /\ io.part = 1 => words = {Pins}
            BY <1>1, SentWords DEF words
        <2>4. Kind(io.n) = "mio" /\ io.part # 1 =>
                 \A c \in Channel \ words : cache'[io.n][c] = out[c]
            BY <1>1, <1>11, SentWords DEF words, Changed
        <2>5. Kind(io.n) \in {"aio", "ro"} => words = Word
            BY <1>1, SentWords DEF words
        <2>6. DOMAIN tel = words
            BY DEF tel
        <2>. QED BY <1>7, <1>12, <2>1, <2>2, <2>3, <2>4, <2>5, <2>6 DEF TelegramInv
    <1>14. CacheInv'
        <2>. SUFFICES ASSUME NEW d \in Devices, NEW c \in Channel, Kind(d) \in {"dio", "mio"},
                             cache'[d][c] # modOut[d][c], c \notin stale[d]
                      PROVE  io.n = d /\ c \in words /\ Kind(d) = "dio"
            BY <1>7, <1>8, <1>9 DEF CacheInv, modules, hist
        <2>1. cache[d][c] = modOut[d][c]
            BY DEF CacheInv
        <2>2. io.n = d /\ Kind(d) = "dio" /\ out[c] # cache[d][c]
            BY <1>2, <2>1
        <2>. QED BY <1>1, <2>2, SentWords DEF Changed, words
    <1>. QED BY <1>5, <1>6, <1>7, <1>10, <1>13, <1>14

LEMMA AnswerStep ==
    ASSUME IndInv, io.pc \in {"testStore", "store"}, Answer(io.n),
           UNCHANGED <<modules, stale>>
    PROVE  /\ io' \in IoStates /\ cache' \in [Devices -> [Word -> Value]]
           /\ errCnt' \in [Devices -> 0..MaxErrorCnt] /\ offline' \in [Devices -> BOOLEAN]
           /\ UNCHANGED <<table, active>>
           /\ io'.pc \in {"test", "next"}
           /\ PlaceInv' /\ CacheInv'
    <1>. USE DEF IndInv
    <1>1. io.n \in Devices
        BY DEF PlaceInv, AtModule
    <1>2. io \in IoStates /\ cache \in [Devices -> [Word -> Value]]
        BY DEF TypeOK
    <1>3. CASE /\ Kind(io.n) = "mio" /\ io.part = 1
               /\ io' = [io EXCEPT !.pc = "test", !.part = 2, !.out = AllOff, !.tel = <<>>]
               /\ UNCHANGED <<dev, cache>>
        <2>. USE <1>3
        <2>1. io' \in IoStates
            <3>1. /\ AllOff \in [Word -> Value] /\ <<>> \in Telegrams
                  /\ "test" \in Places /\ 2 \in 1..3
                BY AllOffTyped, EmptyTelegram DEF Places
            <3>. QED BY ONLY <1>2, <1>3, <3>1 DEF IoStates
        <2>2. io'.pc = "test" /\ io'.n = io.n
            BY <1>2 DEF IoStates
        <2>3. PlaceInv'
            BY <1>1, <2>2 DEF PlaceInv, Devices, dev
        <2>4. CacheInv'
            <3>1. DOMAIN io.tel = {Pins}
                BY DEF TelegramInv
            <3>2. \A c \in Channel : c \notin DOMAIN io.tel
                BY <3>1, ExchangeAssumption
            <3>. QED BY <3>2 DEF CacheInv, Devices, Kind, dev, modules
        <2>. QED BY <2>1, <2>2, <2>3, <2>4 DEF dev, TypeOK
    <1>4. CASE /\ ~(Kind(io.n) = "mio" /\ io.part = 1)
               /\ Finish(io.n, TRUE)
               /\ cache' = IF Kind(io.n) = "mio" /\ DOMAIN io.tel # {}
                           THEN [cache EXCEPT ![io.n] = io.out] ELSE cache
        <2>. USE <1>4
        <2>1. /\ errCnt' \in [Devices -> 0..MaxErrorCnt] /\ offline' \in [Devices -> BOOLEAN]
              /\ io' \in IoStates /\ io'.pc = "next"
            BY <1>1, FinishTyped
        <2>2. UNCHANGED <<table, active>>
            BY DEF Finish
        <2>3. cache' \in [Devices -> [Word -> Value]]
            BY <1>2 DEF IoStates
        <2>4. PlaceInv'
            BY <2>1 DEF PlaceInv, AtModule
        <2>5. CacheInv'
            <3>. SUFFICES ASSUME NEW d \in Devices, NEW c \in Channel, Kind(d) \in {"dio", "mio"},
                                 cache'[d][c] # modOut[d][c], c \notin stale[d]
                          PROVE  FALSE
                BY <2>2 DEF CacheInv, Devices, Kind, modules
            <3>1. CASE d # io.n \/ Kind(d) = "dio"
                BY <3>1, <1>2 DEF CacheInv
            <3>2. CASE d = io.n /\ Kind(d) = "mio" /\ DOMAIN io.tel = {}
                BY <3>2, <1>2 DEF CacheInv
            <3>3. CASE d = io.n /\ Kind(d) = "mio" /\ DOMAIN io.tel # {}
                <4>1. cache'[d][c] = io.out[c]
                    BY <3>3, <1>2
                <4>2. CASE c \in DOMAIN io.tel
                    BY <3>3, <4>1, <4>2 DEF TelegramInv, ShownInv
                <4>3. CASE c \notin DOMAIN io.tel
                    BY <3>3, <4>1, <4>3 DEF TelegramInv, CacheInv
                <4>. QED BY <4>2, <4>3
            <3>. QED BY <3>1, <3>2, <3>3
        <2>. QED BY <2>1, <2>2, <2>3, <2>4, <2>5
    <1>. QED BY <1>3, <1>4 DEF Answer

-----------------------------------------------------------------------------
(* The configuration.                                                      *)
LEMMA ConfigNextTyped ==
    ASSUME TypeOK, io.n \in Devices
    PROVE  /\ ConfigNext \in IoStates
           /\ ConfigNext.pc = io.pc /\ ConfigNext.n = io.n + 1 /\ ConfigNext.part = 1
    <1>1. io \in IoStates
        BY DEF TypeOK
    <1>2. io.n + 1 \in 1..(Len(table) + 1)
        BY LengthOfTable DEF Devices
    <1>3. 1 \in 1..3
        OBVIOUS
    <1>4. ConfigNext \in IoStates
        BY ONLY <1>1, <1>2, <1>3 DEF ConfigNext, IoStates
    <1>. QED BY <1>1, <1>4 DEF ConfigNext, IoStates

LEMMA ConfigSkipStep == ASSUME IndInv, ConfigSkip PROVE IndInv'
    <1>. USE DEF IndInv, ConfigSkip, pi, modules, hist
    <1>1. /\ io' \in IoStates
          /\ io'.pc = "configure" /\ io'.n = io.n + 1 /\ io'.part = 1
        BY ConfigNextTyped
    <1>2. TypeOK'
        BY <1>1 DEF TypeOK, IoStates, Devices
    <1>3. PlaceInv' /\ TelegramInv' /\ ShownInv' /\ StopInv' /\ StopTakesEffect'
        BY <1>1 DEF PlaceInv, AtModule, TelegramInv, ShownInv, StopInv, OnItsWay, StopTakesEffect
    <1>4. CacheInv'
        BY <1>1 DEF CacheInv, Devices, Kind
    <1>5. ConfigInv'
        <2>1. \A d \in Devices : d < io.n + 1 => d < io.n \/ d = io.n
            BY DEF Devices, TypeOK, IoStates
        <2>2. active \in [Devices -> BOOLEAN]
            BY DEF TypeOK
        <2>3. Devices' = Devices /\ \A d \in Devices : Setup(d)' = Setup(d)
            BY DEF Devices, Setup, Kind
        <2>4. \A d \in Devices : d < io'.n /\ active'[d] /\ Setup(d).checked => gotConfig[d]
            BY <1>1, <2>1, <2>2 DEF ConfigInv
        <2>5. (\A d \in Devices : d < io.n /\ active[d] /\ Setup(d).checked => gotConfig[d])'
            BY <2>3, <2>4
        <2>. QED BY <1>1, <2>5 DEF ConfigInv
    <1>6. ActiveConfigured'
        BY <1>1 DEF ActiveConfigured
    <1>. QED BY <1>2, <1>3, <1>4, <1>5, <1>6

LEMMA ConfigSendStep ==
    ASSUME IndInv, NEW arrived \in BOOLEAN, NEW answered \in BOOLEAN,
           ConfigSend(arrived, answered)
    PROVE  IndInv'
    <1>. USE DEF IndInv, ConfigSend, pi, hist
    <1>1. io \in IoStates /\ io.n \in Devices
        BY DEF TypeOK
    <1>2. /\ io' \in IoStates /\ io'.pc = "configure"
          /\ \/ io'.n = io.n + 1 /\ io'.part = 1
             \/ io'.n = io.n /\ (answered \/ ~Setup(io.n).checked)
        <2>1. CASE io' = ConfigNext
            BY <2>1, ConfigNextTyped
        <2>2. CASE io' = [io EXCEPT !.part = @ + 1] /\ io.part < Setup(io.n).telegrams
            <3>1. io.part + 1 \in 1..3
                BY <1>1, <2>2, SetupShort DEF IoStates
            <3>2. io' \in IoStates /\ io'.pc = "configure" /\ io'.n = io.n
                BY <1>1, <2>2, <3>1 DEF IoStates
            <3>3. answered \/ ~Setup(io.n).checked
                BY <1>1, <2>2, <3>2, ConfigNextTyped DEF IoStates
            <3>. QED BY <3>2, <3>3
        <2>. QED BY <2>1, <2>2
    <1>3. gotConfig' \in [Devices -> BOOLEAN] /\ active' \in [Devices -> BOOLEAN]
        BY DEF TypeOK
    <1>4. TypeOK'
        BY <1>2, <1>3 DEF TypeOK, IoStates, Devices
    <1>5. PlaceInv' /\ TelegramInv' /\ ShownInv' /\ StopInv' /\ StopTakesEffect'
        BY <1>2 DEF PlaceInv, AtModule, TelegramInv, ShownInv, StopInv, OnItsWay, StopTakesEffect
    <1>6. CacheInv'
        BY <1>2 DEF CacheInv, Devices, Kind
    <1>7. ConfigInv'
        <2>1. \A d \in Devices : d < io.n + 1 => d < io.n \/ d = io.n
            BY <1>1 DEF Devices, IoStates
        <2>2. \A d \in Devices : d < io.n => d # io.n
            BY <1>1 DEF Devices, IoStates
        <2>3. /\ answered /\ Setup(io.n).checked => gotConfig'[io.n]
              /\ ~answered /\ Setup(io.n).checked => ~active'[io.n]
            BY <1>1 DEF ConfigInv, TypeOK, IoStates
        <2>4. \A d \in Devices : d # io.n => gotConfig'[d] = gotConfig[d] /\ active'[d] = active[d]
            BY <1>3 DEF TypeOK
        <2>5. Devices' = Devices /\ \A d \in Devices : Setup(d)' = Setup(d)
            BY DEF Devices, Setup, Kind
        <2>6. io'.n = io.n => Setup(io.n)' = Setup(io.n)
            BY DEF Setup, Kind
        <2>7. \A d \in Devices : d < io'.n /\ active'[d] /\ Setup(d).checked => gotConfig'[d]
            BY <1>1, <1>2, <2>1, <2>2, <2>3, <2>4 DEF ConfigInv
        <2>8. io'.part > 1 => io'.n = io.n /\ (Setup(io.n).checked => answered)
            BY <1>2
        <2>9. (\A d \in Devices : d < io.n /\ active[d] /\ Setup(d).checked => gotConfig[d])'
            BY <2>5, <2>7
        <2>10. (io.n \in Devices /\ io.part > 1 /\ Setup(io.n).checked => gotConfig[io.n])'
            <3>. SUFFICES ASSUME io'.part > 1, Setup(io.n)'.checked PROVE gotConfig'[io'.n]
                OBVIOUS
            <3>. QED BY <2>3, <2>6, <2>8
        <2>. QED BY <2>9, <2>10 DEF ConfigInv
    <1>8. ActiveConfigured'
        BY <1>2 DEF ActiveConfigured
    <1>. QED BY <1>4, <1>5, <1>6, <1>7, <1>8

LEMMA StartCycleStep == ASSUME IndInv, StartCycle PROVE IndInv'
    <1>. USE DEF IndInv, StartCycle, dev, pi, modules, hist
    <1>1. io' \in IoStates /\ io'.pc = "next"
        <2>1. "next" \in Places
            BY DEF Places
        <2>. QED BY <2>1, BeginTyped DEF Begin
    <1>2. TypeOK'
        BY <1>1 DEF TypeOK, IoStates, Devices
    <1>3. /\ PlaceInv' /\ TelegramInv' /\ ShownInv' /\ StopInv' /\ StopTakesEffect'
          /\ ConfigInv'
        BY <1>1 DEF PlaceInv, AtModule, TelegramInv, ShownInv, StopInv, OnItsWay,
                    StopTakesEffect, ConfigInv
    <1>4. CacheInv'
        BY <1>1 DEF CacheInv, Devices, Kind
    <1>5. ActiveConfigured'
        <2>1. \A d \in Devices : active[d] /\ Setup(d).checked => gotConfig[d]
            <3>1. CASE io.pc = "idle"
                BY <3>1 DEF ActiveConfigured
            <3>2. CASE io.pc = "configure" /\ io.n \notin Devices
                <4>1. \A d \in Devices : d < io.n
                    BY <3>2, LengthOfTable DEF TypeOK, IoStates, Devices
                <4>. QED BY <3>2, <4>1 DEF ConfigInv
            <3>. QED BY <3>1, <3>2
        <2>. QED BY <2>1 DEF ActiveConfigured, Devices, Setup, Kind
    <1>. QED BY <1>2, <1>3, <1>4, <1>5

-----------------------------------------------------------------------------
(* The exchange.  Nothing of it changes what is active or configured.      *)
LEMMA SameConfiguration ==
    ASSUME ActiveConfigured, UNCHANGED <<table, active, gotConfig>>,
           io.pc # "configure", io'.pc # "configure"
    PROVE  ActiveConfigured' /\ ConfigInv'
    BY DEF ActiveConfigured, ConfigInv, Devices, Setup, Kind

LEMMA NextDeviceStep == ASSUME IndInv, NextDevice PROVE IndInv'
    <1>. USE DEF IndInv, NextDevice, dev, pi, modules, hist
    <1>1. io \in IoStates
        BY DEF TypeOK
    <1>2. /\ io' \in IoStates
          /\ io'.pc \in {"next", "test"} /\ (io'.pc = "test" => io'.n = io.n)
          /\ errCnt' \in [Devices -> 0..MaxErrorCnt] /\ offline' \in [Devices -> BOOLEAN]
          /\ UNCHANGED <<table, active>>
        <2>1. CASE UNCHANGED dev /\ io' = [io EXCEPT !.n = @ + 1]
            <3>1. io.n + 1 \in 1..(Len(table) + 1)
                BY LengthOfTable DEF Devices
            <3>. QED BY <1>1, <2>1, <3>1 DEF TypeOK, IoStates
        <2>2. CASE Finish(io.n, FALSE)
            BY <2>2, FinishTyped DEF Finish
        <2>3. CASE UNCHANGED dev /\ io' = [io EXCEPT !.pc = "test"]
            BY <1>1, <2>3 DEF TypeOK, IoStates, Places
        <2>. QED BY <2>1, <2>2, <2>3
    <1>3. TypeOK'
        BY <1>2 DEF TypeOK, IoStates, Devices
    <1>4. PlaceInv' /\ TelegramInv' /\ ShownInv' /\ StopInv' /\ StopTakesEffect'
        BY <1>2 DEF PlaceInv, AtModule, TelegramInv, ShownInv, StopInv, OnItsWay,
                    StopTakesEffect, Devices
    <1>5. CacheInv'
        BY <1>2 DEF CacheInv, Devices, Kind
    <1>6. ActiveConfigured' /\ ConfigInv'
        BY <1>2, SameConfiguration
    <1>. QED BY <1>3, <1>4, <1>5, <1>6

LEMMA TestStopStep == ASSUME IndInv, TestStop PROVE IndInv'
    <1>. USE DEF IndInv, TestStop, dev, pi, modules, hist
    <1>1. CASE stopIO /\ Prepare(io.n, AllOff, Channel)
        <2>. USE <1>1
        <2>1. /\ io' \in IoStates /\ cache' \in [Devices -> [Word -> Value]]
              /\ io'.pc = "send" /\ io'.out = AllOff
              /\ PlaceInv' /\ TelegramInv' /\ CacheInv'
            BY PrepareStep, AllOffTyped
        <2>2. TypeOK'
            BY <2>1 DEF TypeOK, IoStates, Devices
        <2>3. \A w \in DOMAIN io'.tel : io'.tel[w] = Off
            BY <2>1 DEF TelegramInv, AllOff
        <2>4. ShownInv' /\ StopInv' /\ StopTakesEffect'
            BY <2>1, <2>3 DEF ShownInv, StopInv, OnItsWay, StopTakesEffect
        <2>5. ActiveConfigured' /\ ConfigInv'
            BY <2>1, SameConfiguration
        <2>. QED BY <2>1, <2>2, <2>4, <2>5
    <1>2. CASE ~stopIO /\ io' = [io EXCEPT !.pc = "fetch"] /\ UNCHANGED cache
        <2>. USE <1>2
        <2>1. io' \in IoStates /\ io'.pc = "fetch" /\ io'.n = io.n
            BY DEF TypeOK, IoStates, Places
        <2>2. TypeOK'
            BY <2>1 DEF TypeOK, IoStates, Devices
        <2>3. PlaceInv' /\ TelegramInv' /\ ShownInv' /\ StopInv' /\ StopTakesEffect'
            BY <2>1 DEF PlaceInv, AtModule, TelegramInv, ShownInv, StopInv, StopTakesEffect, Devices
        <2>4. CacheInv'
            BY <2>1 DEF CacheInv, Devices, Kind
        <2>5. ActiveConfigured' /\ ConfigInv'
            BY <2>1, SameConfiguration
        <2>. QED BY <2>2, <2>3, <2>4, <2>5
    <1>. QED BY <1>1, <1>2

LEMMA FetchStep == ASSUME IndInv, Fetch PROVE IndInv'
    <1>. USE DEF IndInv, Fetch, dev, pi, modules, hist
    <1>1. image[io.n] \in [Word -> Value] /\ forced[io.n] \in SUBSET Channel
        BY DEF PlaceInv, AtModule, TypeOK
    <1>2. /\ io' \in IoStates /\ cache' \in [Devices -> [Word -> Value]]
          /\ io'.pc = "send" /\ PlaceInv' /\ TelegramInv' /\ CacheInv'
        BY <1>1, PrepareStep
    <1>3. TypeOK'
        BY <1>2 DEF TypeOK, IoStates, Devices
    <1>4. ShownInv' /\ StopInv' /\ StopTakesEffect'
        BY <1>2 DEF ShownInv, StopInv, OnItsWay, StopTakesEffect
    <1>5. ActiveConfigured' /\ ConfigInv'
        BY <1>2, SameConfiguration
    <1>. QED BY <1>2, <1>3, <1>4, <1>5

-----------------------------------------------------------------------------
(* The telegram on the bus.                                                *)
LEMMA Shown ==
    ASSUME TypeOK, io.n \in Devices
    PROVE  /\ Show(io.n, io.tel) \in [Word -> Value]
           /\ \A w \in DOMAIN io.tel : Show(io.n, io.tel)[w] = io.tel[w]
           /\ \A w \in Word \ DOMAIN io.tel : Show(io.n, io.tel)[w] = modOut[io.n][w]
    <1>1. DOMAIN io.tel \subseteq Word /\ \A w \in DOMAIN io.tel : io.tel[w] \in Value
        BY TelegramTyped DEF TypeOK, IoStates
    <1>. QED BY <1>1 DEF Show, TypeOK

(* A telegram that shows outputs after a stop was on its way before.       *)
LEMMA LateOnce ==
    ASSUME TypeOK, StopInv, StopTakesEffect, io.pc = "send", late' = LateSent, UNCHANGED stopIO,
           io'.pc \notin {"fetch", "send", "store"}
    PROVE  /\ late' \in [sent: 0..2, stored: 0..2]
           /\ StopInv' /\ StopTakesEffect'
    <1>1. late \in [sent: 0..2, stored: 0..2]
        BY DEF TypeOK
    <1>2. CASE stopIO /\ \E w \in DOMAIN io.tel : io.tel[w] # Off
        <2>1. late.sent = 0
            BY <1>2 DEF StopInv, OnItsWay
        <2>2. late' = [late EXCEPT !.sent = 1]
            BY <1>2, <2>1 DEF LateSent, Capped
        <2>. QED BY <1>1, <2>2 DEF StopInv, OnItsWay, StopTakesEffect
    <1>3. CASE ~(stopIO /\ \E w \in DOMAIN io.tel : io.tel[w] # Off)
        <2>1. late' = late
            BY <1>1, <1>3 DEF LateSent
        <2>. QED BY <1>1, <2>1 DEF StopInv, OnItsWay, StopTakesEffect
    <1>. QED BY <1>2, <1>3

LEMMA AnsweredStep == ASSUME IndInv, Answered PROVE IndInv'
    <1>. USE DEF IndInv, Answered, dev, pi
    <1>1. io \in IoStates /\ io.n \in Devices
        BY DEF TypeOK, PlaceInv, AtModule
    <1>2. /\ io' \in IoStates /\ io'.pc = "testStore"
          /\ io'.n = io.n /\ io'.tel = io.tel /\ io'.out = io.out /\ io'.part = io.part
        BY <1>1 DEF IoStates, Places
    <1>3. modOut' \in [Devices -> [Word -> Value]] /\ modOut'[io.n] = Show(io.n, io.tel)
        BY <1>1, Shown DEF TypeOK
    <1>4. stale' \in [Devices -> SUBSET Channel]
        BY DEF TypeOK
    <1>5. late' \in [sent: 0..2, stored: 0..2] /\ StopInv' /\ StopTakesEffect'
        BY <1>2, LateOnce
    <1>6. TypeOK'
        BY <1>2, <1>3, <1>4, <1>5 DEF TypeOK, IoStates, Devices
    <1>7. Devices' = Devices /\ \A d \in Devices : Kind(d)' = Kind(d)
        BY DEF Devices, Kind
    <1>8. Kind(io.n)' = Kind(io.n)
        BY <1>2 DEF Kind
    <1>9. PlaceInv' /\ TelegramInv'
        BY <1>1, <1>2, <1>7, <1>8 DEF PlaceInv, TelegramInv
    <1>10. ShownInv'
        BY <1>1, <1>2, <1>3, Shown DEF ShownInv
    <1>11. CacheInv'
        <2>. SUFFICES ASSUME NEW d \in Devices, NEW c \in Channel, Kind(d) \in {"dio", "mio"},
                             cache[d][c] # modOut'[d][c], c \notin stale'[d]
                      PROVE  io.n = d /\ c \in DOMAIN io.tel /\ Kind(d) = "mio"
            BY <1>2, <1>7 DEF CacheInv
        <2>1. CASE d # io.n
            BY <2>1 DEF CacheInv, TypeOK
        <2>2. CASE d = io.n /\ c \notin DOMAIN io.tel
            <3>1. modOut'[d][c] = modOut[d][c]
                BY <1>1, <1>3, <2>2, Shown DEF Word
            <3>2. c \notin stale[d]
                BY <2>2 DEF TypeOK
            <3>. QED BY <2>2, <3>1, <3>2 DEF CacheInv
        <2>3. CASE d = io.n /\ c \in DOMAIN io.tel
            <3>1. modOut'[d][c] = io.out[c]
                BY <1>1, <1>3, <2>3, Shown DEF TelegramInv
            <3>. QED BY <2>3, <3>1 DEF TelegramInv
        <2>. QED BY <2>1, <2>2, <2>3
    <1>12. ActiveConfigured' /\ ConfigInv'
        BY <1>2, SameConfiguration
    <1>. QED BY <1>5, <1>6, <1>9, <1>10, <1>11, <1>12

LEMMA RequestLostStep == ASSUME IndInv, RequestLost PROVE IndInv'
    <1>. USE DEF IndInv, RequestLost, modules, pi
    <1>1. io.n \in Devices /\ UNCHANGED <<table, active>>
        BY DEF PlaceInv, AtModule, Finish
    <1>2. /\ errCnt' \in [Devices -> 0..MaxErrorCnt] /\ offline' \in [Devices -> BOOLEAN]
          /\ io' \in IoStates /\ io'.pc = "next"
        BY <1>1, FinishTyped
    <1>3. stale' \in [Devices -> SUBSET Channel]
        BY DEF TypeOK
    <1>4. late' \in [sent: 0..2, stored: 0..2] /\ StopInv' /\ StopTakesEffect'
        BY <1>2, LateOnce
    <1>5. TypeOK'
        BY <1>1, <1>2, <1>3, <1>4 DEF TypeOK, IoStates, Devices
    <1>6. PlaceInv' /\ TelegramInv' /\ ShownInv'
        BY <1>2 DEF PlaceInv, AtModule, TelegramInv, ShownInv
    <1>7. CacheInv'
        <2>. SUFFICES ASSUME NEW d \in Devices, NEW c \in Channel, Kind(d) \in {"dio", "mio"},
                             cache[d][c] # modOut[d][c], c \notin stale'[d]
                      PROVE  FALSE
            BY <1>1 DEF CacheInv, Devices, Kind
        <2>1. CASE d # io.n \/ Kind(d) # "dio"
            BY <1>1, <2>1 DEF CacheInv, TypeOK
        <2>2. CASE d = io.n /\ Kind(d) = "dio"
            <3>1. stale'[d] = stale[d] \cup (Channel \cap DOMAIN io.tel)
                BY <2>2 DEF TypeOK
            <3>. QED BY <2>2, <3>1 DEF CacheInv
        <2>. QED BY <2>1, <2>2
    <1>8. ActiveConfigured' /\ ConfigInv'
        BY <1>1, <1>2, SameConfiguration
    <1>. QED BY <1>4, <1>5, <1>6, <1>7, <1>8

LEMMA AnswerLostStep == ASSUME IndInv, AnswerLost PROVE IndInv'
    <1>. USE DEF IndInv, AnswerLost, pi
    <1>1. io.n \in Devices /\ UNCHANGED <<table, active>>
        BY DEF PlaceInv, AtModule, Finish
    <1>2. /\ errCnt' \in [Devices -> 0..MaxErrorCnt] /\ offline' \in [Devices -> BOOLEAN]
          /\ io' \in IoStates /\ io'.pc = "next"
        BY <1>1, FinishTyped
    <1>3. stale' \in [Devices -> SUBSET Channel]
        BY DEF TypeOK
    <1>4. late' \in [sent: 0..2, stored: 0..2] /\ StopInv' /\ StopTakesEffect'
        BY <1>2, LateOnce
    <1>5. modOut' \in [Devices -> [Word -> Value]] /\ modOut'[io.n] = Show(io.n, io.tel)
        BY <1>1, Shown DEF TypeOK
    <1>6. TypeOK'
        BY <1>1, <1>2, <1>3, <1>4, <1>5 DEF TypeOK, IoStates, Devices
    <1>7. PlaceInv' /\ TelegramInv' /\ ShownInv'
        BY <1>2 DEF PlaceInv, AtModule, TelegramInv, ShownInv
    <1>8. CacheInv'
        <2>. SUFFICES ASSUME NEW d \in Devices, NEW c \in Channel, Kind(d) \in {"dio", "mio"},
                             cache[d][c] # modOut'[d][c], c \notin stale'[d]
                      PROVE  FALSE
            BY <1>1 DEF CacheInv, Devices, Kind
        <2>1. CASE d # io.n
            BY <1>1, <2>1 DEF CacheInv, TypeOK
        <2>2. CASE d = io.n /\ c \notin DOMAIN io.tel
            <3>1. modOut'[d][c] = modOut[d][c]
                BY <1>1, <1>5, <2>2, Shown DEF Word
            <3>2. c \notin stale[d]
                BY <2>2 DEF TypeOK
            <3>. QED BY <2>2, <3>1, <3>2 DEF CacheInv
        <2>3. CASE d = io.n /\ c \in DOMAIN io.tel
            <3>1. modOut'[d][c] = io.out[c]
                BY <1>1, <1>5, <2>3, Shown DEF TelegramInv
            <3>2. Kind(d) = "dio"
                BY <2>3 DEF TypeOK
            <3>. QED BY <2>3, <3>1, <3>2 DEF TelegramInv
        <2>. QED BY <2>1, <2>2, <2>3
    <1>9. ActiveConfigured' /\ ConfigInv'
        BY <1>1, <1>2, SameConfiguration
    <1>. QED BY <1>4, <1>6, <1>7, <1>8, <1>9

-----------------------------------------------------------------------------
(* The answer, and the end of the cycle.                                   *)
LEMMA TestStoreStep == ASSUME IndInv, TestStore PROVE IndInv'
    <1>. USE DEF IndInv, TestStore, dev, pi, modules
    <1>1. CASE ~stopIO /\ io' = [io EXCEPT !.pc = "store"] /\ UNCHANGED <<dev, cache>>
        <2>. USE <1>1
        <2>1. /\ io' \in IoStates /\ io'.pc = "store"
              /\ io'.n = io.n /\ io'.tel = io.tel /\ io'.out = io.out /\ io'.part = io.part
            BY DEF TypeOK, IoStates, Places
        <2>2. TypeOK'
            BY <2>1 DEF TypeOK, IoStates, Devices
        <2>3. Devices' = Devices /\ (\A d \in Devices : Kind(d)' = Kind(d)) /\ Kind(io.n)' = Kind(io.n)
            BY <2>1 DEF Devices, Kind
        <2>4. PlaceInv' /\ TelegramInv' /\ ShownInv' /\ StopInv' /\ StopTakesEffect'
            BY <2>1, <2>3 DEF PlaceInv, AtModule, TelegramInv, ShownInv, StopInv, StopTakesEffect
        <2>5. CacheInv'
            BY <2>1, <2>3 DEF CacheInv
        <2>6. ActiveConfigured' /\ ConfigInv'
            BY <2>1, SameConfiguration
        <2>. QED BY <2>2, <2>4, <2>5, <2>6
    <1>2. CASE stopIO /\ Answer(io.n)
        <2>. USE <1>2
        <2>1. /\ io' \in IoStates /\ cache' \in [Devices -> [Word -> Value]]
              /\ errCnt' \in [Devices -> 0..MaxErrorCnt] /\ offline' \in [Devices -> BOOLEAN]
              /\ UNCHANGED <<table, active>>
              /\ io'.pc \in {"test", "next"}
              /\ PlaceInv' /\ CacheInv'
            BY AnswerStep
        <2>2. TypeOK'
            BY <2>1 DEF TypeOK, IoStates, Devices
        <2>3. TelegramInv' /\ ShownInv' /\ StopInv' /\ StopTakesEffect'
            BY <2>1 DEF TelegramInv, ShownInv, StopInv, OnItsWay, StopTakesEffect
        <2>4. ActiveConfigured' /\ ConfigInv'
            BY <2>1, SameConfiguration
        <2>. QED BY <2>1, <2>2, <2>3, <2>4
    <1>. QED BY <1>1, <1>2

LEMMA StoreStep == ASSUME IndInv, Store PROVE IndInv'
    <1>. USE DEF IndInv, Store, pi, modules
    <1>1. /\ io' \in IoStates /\ cache' \in [Devices -> [Word -> Value]]
          /\ errCnt' \in [Devices -> 0..MaxErrorCnt] /\ offline' \in [Devices -> BOOLEAN]
          /\ UNCHANGED <<table, active>>
          /\ io'.pc \in {"test", "next"}
          /\ PlaceInv' /\ CacheInv'
        BY AnswerStep
    <1>2. late' \in [sent: 0..2, stored: 0..2] /\ StopTakesEffect'
        <2>1. late \in [sent: 0..2, stored: 0..2]
            BY DEF TypeOK
        <2>2. stopIO => late' = [late EXCEPT !.stored = 1]
            BY DEF StopInv, Capped
        <2>3. ~stopIO => late' = late
            BY <2>1
        <2>. QED BY <2>1, <2>2, <2>3 DEF StopTakesEffect
    <1>3. TypeOK'
        BY <1>1, <1>2 DEF TypeOK, IoStates, Devices
    <1>4. TelegramInv' /\ ShownInv' /\ StopInv'
        BY <1>1 DEF TelegramInv, ShownInv, StopInv, OnItsWay
    <1>5. ActiveConfigured' /\ ConfigInv'
        BY <1>1, SameConfiguration
    <1>. QED BY <1>1, <1>2, <1>3, <1>4, <1>5

LEMMA EndCycleStep == ASSUME IndInv, EndCycle PROVE IndInv'
    <1>. USE DEF IndInv, EndCycle, dev, pi, modules, hist
    <1>1. io' \in IoStates /\ io'.pc = "idle"
        <2>1. "idle" \in Places
            BY DEF Places
        <2>. QED BY <2>1, BeginTyped DEF Begin, Idle
    <1>2. running' \in BOOLEAN
        BY DEF TooManyErrors
    <1>3. TypeOK'
        BY <1>1, <1>2 DEF TypeOK, IoStates, Devices
    <1>4. PlaceInv' /\ TelegramInv' /\ ShownInv' /\ StopInv' /\ StopTakesEffect'
        BY <1>1 DEF PlaceInv, AtModule, TelegramInv, ShownInv, StopInv, OnItsWay, StopTakesEffect
    <1>5. CacheInv'
        BY <1>1 DEF CacheInv, Devices, Kind
    <1>6. ActiveConfigured' /\ ConfigInv'
        BY <1>1, SameConfiguration
    <1>. QED BY <1>3, <1>4, <1>5, <1>6

-----------------------------------------------------------------------------
(* The applications and the commands.                                      *)
(* Where a step leaves the I/O thread, the modules and what is known of    *)
(* them alone.                                                             *)
LEMMA SameExchange ==
    ASSUME IndInv, UNCHANGED <<table, active, cache, io, modules, stale>>
    PROVE  /\ PlaceInv' /\ TelegramInv' /\ ShownInv' /\ CacheInv'
           /\ ConfigInv' /\ ActiveConfigured'
    <1>. USE DEF IndInv, modules
    <1>1. PlaceInv' /\ TelegramInv' /\ ShownInv' /\ CacheInv'
        BY DEF PlaceInv, TelegramInv, ShownInv, CacheInv, Devices, Kind
    <1>2. ConfigInv' /\ ActiveConfigured'
        BY DEF ConfigInv, ActiveConfigured, Devices, Setup, Kind
    <1>. QED BY <1>1, <1>2

LEMMA WriteStep == ASSUME IndInv, NEW d \in Devices, Write(d) PROVE IndInv'
    <1>. USE DEF IndInv, Write, dev, modules, hist
    <1>1. image' \in [Devices -> [Word -> Value]] /\ forced' \in [Devices -> SUBSET Channel]
        <2>1. image \in [Devices -> [Word -> Value]] /\ forced \in [Devices -> SUBSET Channel]
            BY DEF TypeOK
        <2>2. ASSUME NEW w \in Word, NEW v \in Value, image' = [image EXCEPT ![d][w] = v],
                     UNCHANGED forced
              PROVE  image' \in [Devices -> [Word -> Value]]
            BY <2>1, <2>2
        <2>3. ASSUME NEW cs \in SUBSET Channel, forced' = [forced EXCEPT ![d] = cs]
              PROVE  forced' \in [Devices -> SUBSET Channel]
            BY <2>1, <2>3
        <2>. QED BY <2>1, <2>2, <2>3
    <1>2. TypeOK'
        BY <1>1 DEF TypeOK, IoStates, Devices
    <1>3. StopInv' /\ StopTakesEffect'
        BY DEF StopInv, OnItsWay, StopTakesEffect
    <1>. QED BY <1>2, <1>3, SameExchange

LEMMA StopIOStep == ASSUME IndInv, NEW data \in 0..2, StopIO(data) PROVE IndInv'
    <1>. USE DEF IndInv, StopIO, dev, pi, modules
    <1>1. stopIO' \in BOOLEAN
        <2>1. data = 0 \/ data = 1 \/ data = 2
            OBVIOUS
        <2>. QED BY <2>1
    <1>2. late' \in [sent: 0..2, stored: 0..2]
        BY DEF TypeOK
    <1>3. TypeOK'
        BY <1>1, <1>2 DEF TypeOK, IoStates, Devices
    <1>4. StopInv' /\ StopTakesEffect'
        BY <1>1 DEF StopInv, OnItsWay, StopTakesEffect, TypeOK
    <1>. QED BY <1>3, <1>4, SameExchange

LEMMA RestartStep == ASSUME IndInv, Restart PROVE IndInv'
    <1>. USE DEF IndInv, Restart
    <1>1. io' \in IoStates /\ io'.pc = "configure" /\ io'.n = 1 /\ io'.part = 1
        <2>1. "configure" \in Places
            BY DEF Places
        <2>. QED BY <2>1, BeginTyped DEF Begin
    <1>2. /\ active' \in [Devices -> BOOLEAN] /\ forced' \in [Devices -> SUBSET Channel]
          /\ gotConfig' \in [Devices -> BOOLEAN]
          /\ stale' \in [Devices -> SUBSET Channel]
        OBVIOUS
    <1>3. /\ modOut' \in [Devices -> [Word -> Value]] /\ image' \in [Devices -> [Word -> Value]]
          /\ cache' \in [Devices -> [Word -> Value]]
        BY ExchangeAssumption, AllOffTyped DEF Shut, TypeOK
    <1>4. restarts' \in 0..MaxRestarts
        BY ExchangeAssumption DEF TypeOK
    <1>5. TypeOK'
        BY <1>1, <1>2, <1>3, <1>4 DEF TypeOK, IoStates, Devices
    <1>6. /\ PlaceInv' /\ TelegramInv' /\ ShownInv' /\ StopInv' /\ StopTakesEffect'
          /\ ActiveConfigured'
        BY <1>1 DEF PlaceInv, AtModule, TelegramInv, ShownInv, StopInv, OnItsWay, StopTakesEffect,
                    ActiveConfigured
    <1>7. ConfigInv'
        <2>1. \A d \in Devices : ~(d < 1)
            BY DEF Devices
        <2>. QED BY <1>1, <2>1 DEF ConfigInv, Devices
    <1>8. CacheInv'
        <2>. SUFFICES ASSUME NEW d \in Devices, NEW c \in Channel, Kind(d) \in {"dio", "mio"},
                             cache'[d][c] # modOut'[d][c], c \notin stale'[d]
                      PROVE  FALSE
            BY DEF CacheInv, Devices, Kind
        <2>1. modOut'[d][c] = Off
            BY DEF Shut, AllOff, Word
        <2>2. CASE Kind(d) = "mio"
            BY <2>1, <2>2 DEF AllOff, Word
        <2>3. CASE Kind(d) = "dio"
            BY <2>1, <2>3
        <2>. QED BY <2>2, <2>3
    <1>. QED BY <1>5, <1>6, <1>7, <1>8

LEMMA StopStep == ASSUME IndInv, Stop PROVE IndInv'
    <1>. USE DEF IndInv, Stop, dev, pi, modules, hist
    <1>1. TypeOK'
        BY DEF TypeOK, IoStates, Devices
    <1>2. StopInv' /\ StopTakesEffect'
        BY DEF StopInv, OnItsWay, StopTakesEffect
    <1>. QED BY <1>1, <1>2, SameExchange

LEMMA ContinueStep == ASSUME IndInv, Continue PROVE IndInv'
    <1>. USE DEF IndInv, Continue, dev, pi, modules, hist
    <1>1. io' \in IoStates /\ io'.pc = "configure" /\ io'.n = 1 /\ io'.part = 1
        <2>1. "configure" \in Places
            BY DEF Places
        <2>. QED BY <2>1, BeginTyped DEF Begin
    <1>2. restarts' \in 0..MaxRestarts
        BY ExchangeAssumption DEF TypeOK
    <1>3. TypeOK'
        BY <1>1, <1>2 DEF TypeOK, IoStates, Devices
    <1>4. /\ PlaceInv' /\ TelegramInv' /\ ShownInv' /\ StopInv' /\ StopTakesEffect'
          /\ ActiveConfigured'
        BY <1>1 DEF PlaceInv, AtModule, TelegramInv, ShownInv, StopInv, OnItsWay, StopTakesEffect,
                    ActiveConfigured
    <1>5. ConfigInv'
        <2>1. \A d \in Devices : ~(d < 1)
            BY DEF Devices
        <2>. QED BY <1>1, <2>1 DEF ConfigInv, Devices
    <1>6. CacheInv'
        BY <1>1 DEF CacheInv, Devices, Kind
    <1>. QED BY <1>3, <1>4, <1>5, <1>6

LEMMA StutteringStep == ASSUME IndInv, UNCHANGED vars PROVE IndInv'
    <1>. USE DEF IndInv, vars, dev, pi, modules, hist
    <1>1. TypeOK'
        BY DEF TypeOK, IoStates, Devices
    <1>2. StopInv' /\ StopTakesEffect'
        BY DEF StopInv, OnItsWay, StopTakesEffect
    <1>. QED BY <1>1, <1>2, SameExchange

-----------------------------------------------------------------------------
LEMMA InitStep == ASSUME Init PROVE IndInv
    <1>. USE ExchangeAssumption DEF Init
    <1>1. Len(table) \in Nat
        OBVIOUS
    <1>2. 1 \in 1..(Len(table) + 1) /\ 1 \in 1..3
        BY <1>1
    <1>3. io \in IoStates /\ io.pc = "configure" /\ io.n = 1 /\ io.part = 1
        BY <1>2, AllOffTyped, EmptyTelegram DEF Begin, IoStates, Places
    <1>4. TypeOK
        <2>1. table \in Tables /\ stopIO \in BOOLEAN /\ running \in BOOLEAN
            OBVIOUS
        <2>2. restarts \in 0..MaxRestarts
            OBVIOUS
        <2>3. 0 \in 0..2
            OBVIOUS
        <2>4. late \in [sent: 0..2, stored: 0..2]
            BY <2>3
        <2>5. /\ active \in [Devices -> BOOLEAN] /\ offline \in [Devices -> BOOLEAN]
              /\ gotConfig \in [Devices -> BOOLEAN]
              /\ errCnt \in [Devices -> 0..MaxErrorCnt]
              /\ forced \in [Devices -> SUBSET Channel] /\ stale \in [Devices -> SUBSET Channel]
            OBVIOUS
        <2>6. /\ image \in [Devices -> [Word -> Value]]
              /\ cache \in [Devices -> [Word -> Value]] /\ modOut \in [Devices -> [Word -> Value]]
            BY AllOffTyped DEF Shut
        <2>. QED BY <1>3, <2>1, <2>2, <2>4, <2>5, <2>6 DEF TypeOK
    <1>5. /\ PlaceInv /\ TelegramInv /\ ShownInv /\ StopInv /\ StopTakesEffect /\ ActiveConfigured
        BY <1>3 DEF PlaceInv, AtModule, TelegramInv, ShownInv, StopInv, StopTakesEffect,
                    ActiveConfigured
    <1>6. ConfigInv
        BY <1>1, <1>3 DEF ConfigInv, Devices
    <1>7. CacheInv
        BY DEF CacheInv
    <1>. QED BY <1>4, <1>5, <1>6, <1>7 DEF IndInv

LEMMA NextStep == ASSUME IndInv, [Next]_vars PROVE IndInv'
    <1>1. CASE Configure
        BY <1>1, ConfigSkipStep, ConfigSendStep DEF Configure
    <1>2. CASE Cycle
        BY <1>2, StartCycleStep, NextDeviceStep, TestStopStep, FetchStep, TestStoreStep, StoreStep,
           EndCycleStep DEF Cycle
    <1>3. CASE Transfer
        BY <1>3, AnsweredStep, RequestLostStep, AnswerLostStep DEF Transfer
    <1>4. CASE Client
        BY <1>4, WriteStep, StopIOStep DEF Client
    <1>5. CASE Restart \/ Stop \/ Continue \/ UNCHANGED vars
        BY <1>5, RestartStep, StopStep, ContinueStep, StutteringStep
    <1>. QED BY <1>1, <1>2, <1>3, <1>4, <1>5 DEF Next

(* The inductive invariant holds in every state of the exchange.           *)
THEOREM Invariance == Spec => []IndInv
    <1>1. Init => IndInv
        BY InitStep
    <1>2. IndInv /\ [Next]_vars => IndInv'
        BY NextStep
    <1>. QED BY <1>1, <1>2, PTL DEF Spec

(* KB_STOP_IO takes effect within one telegram: however the test of the    *)
(* flag, the copy of the outputs and the ioctl are interleaved, at most    *)
(* one telegram with outputs is sent and one set of inputs stored after it.*)
THEOREM StopWithinOneTelegram == Spec => []StopTakesEffect
    <1>1. IndInv => StopTakesEffect
        BY DEF IndInv
    <1>. QED BY <1>1, Invariance, PTL

(* Data is exchanged only with modules that answered each telegram of      *)
(* their configuration, whatever requests and answers were lost.           *)
THEOREM OnlyConfiguredTakePart == Spec => []ActiveConfigured
    <1>1. IndInv => ActiveConfigured
        BY DEF IndInv
    <1>. QED BY <1>1, Invariance, PTL

(* What the driver remembers of a module's outputs is what it shows, but   *)
(* for channels of lost telegrams (and of reset DIOs).                     *)
THEOREM CacheIsTrue == Spec => []CacheTrue
    <1>1. IndInv => CacheTrue
        BY DEF IndInv, CacheInv, CacheTrue
    <1>. QED BY <1>1, Invariance, PTL

(* An answered module shows the outputs that its telegram was made from,   *)
(* though only the changed channels are sent.                              *)
THEOREM AnsweredShowsOutputs == Spec => []OutputsShown
    <1>1. IndInv => OutputsShown
        <2>. SUFFICES ASSUME IndInv, io.pc \in {"testStore", "store"}, NEW w \in Word,
                             Kind(io.n) = "mio" =>
                                 w \in IF io.part = 1 THEN {Pins} ELSE Channel
                      PROVE  modOut[io.n][w] = io.out[w] \/ w \in stale[io.n]
            BY DEF OutputsShown, Word
        <2>. USE DEF IndInv
        <2>1. io.n \in Devices /\ Kind(io.n) \in Kinds
            BY KindsOfDevices DEF PlaceInv, AtModule
        <2>2. CASE w \in DOMAIN io.tel
            BY <2>2 DEF TelegramInv, ShownInv
        <2>3. CASE w \notin DOMAIN io.tel
            <3>1. w \in Channel /\ Kind(io.n) \in {"dio", "mio"}
                BY <2>1, <2>3 DEF TelegramInv, Word, Kinds
            <3>2. cache[io.n][w] = io.out[w]
                BY <2>3, <3>1, ExchangeAssumption DEF TelegramInv
            <3>. QED BY <2>1, <2>3, <3>1, <3>2 DEF CacheInv
        <2>. QED BY <2>2, <2>3
    <1>. QED BY <1>1, Invariance, PTL

=============================================================================
