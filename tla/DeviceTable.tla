------------------------------ MODULE DeviceTable ------------------------------
(***************************************************************************)
(* The device table of a RevPi: how the scan of the bus fills it           *)
(* (RevPiDevice), how it is compared with the configuration                *)
(* (PiBridgeMaster_Adjust), what becomes of it on machines without a       *)
(* bridge, and which modules terminate the bus.  The states of the scan    *)
(* and their timing are those of PiBridgeMaster, with one step for each    *)
(* decision; here is the data.                                             *)
(***************************************************************************)
EXTENDS ConfigFile, Integers

CONSTANTS
    Files,          \* configurations that a reset may find
    Buses,          \* the modules at the left and right side, nearest first
    Module,         \* type of module -> [in, out, gate]: lengths in bytes
    Base,           \* the type of this RevPi
    BaseTerminable, \* it has the GPIO gpio_rs485_term, which is optional
    Virtual,        \* types of modules that are software
    DriverMax,      \* type -> number of modules the driver can configure
    MaxCounters,    \* DIO_MAX_COUNTERS
    MaxDev,         \* devices in the table, REV_PI_DEV_CNT_MAX - 1
    MaxErrors,      \* MAX_CONFIG_RETRIES
    MaxRetries      \* MAX_INIT_RETRIES

ASSUME TableAssumption ==
    /\ Base \in DOMAIN Module /\ Virtual \subseteq DOMAIN Module /\ BaseTerminable \in BOOLEAN
    /\ MaxDev \in Nat \ {0} /\ MaxErrors \in Nat /\ MaxRetries \in Nat /\ MaxCounters \in Nat

VARIABLES
    machine,        \* "core", "compact" or "flat"
    file, bus,      \* the configuration and the modules plugged in
    conf,           \* piDev_g.devs, ent and cl
    slots,          \* type -> the drivers' lists of configured modules
    table,          \* RevPiDevices_s.dev
    nextAddr,           \* i8uAddressLeft, i8uAddressRight
    gateway,        \* sides with a gateway found by the scan
    scan,           \* the side and step of the scan
    status,         \* RevPiDevices_s.i8uStatus
    coreOffset,     \* RevPiDevices_s.offset
    gateIdx,        \* i8uLeftMGateIdx, i8uRightMGateIdx; 0: REV_PI_DEV_UNDEF
    term,           \* the addresses of modules that terminate the bus
    baseTerm        \* the base terminates the bus

configVars == <<file, bus, conf, slots>>
busVars == <<nextAddr, gateway, scan, term, baseTerm>>
tableVars == <<machine, configVars, table, busVars, status, coreOffset, gateIdx>>

FirstRight == 32
Sides == {"left", "right"}
FirstAddress == [left |-> FirstRight - 1, right |-> FirstRight]
SideOf(address) == IF address >= FirstRight THEN "right" ELSE "left"
Outward == [left |-> -1, right |-> 1]

(* A gateway is the end of its side: the termination of the others relies  *)
(* on it.                                                                  *)
ASSUME BusAssumption ==
    /\ Buses \subseteq [Sides -> Seq(DOMAIN Module)]
    /\ \A t \in DOMAIN Module : Module[t].gate \in BOOLEAN
    /\ \A b \in Buses, s \in Sides : \A k \in 1..(Len(b[s]) - 1) : ~Module[b[s][k]].gate

(* There are addresses for the modules at the left, and the image has room *)
(* for all modules one behind the other, the k-th of a side before         *)
(* ends[s][k]: nobody looks whether they fit.                              *)
Size(t) == Module[t].in + Module[t].out
Fits(b, ends) ==
    /\ Size(Base) <= ends["right"][0] /\ ends["right"][Len(b["right"])] <= ends["left"][0]
    /\ \A s \in Sides : \A j \in 0..Len(b[s]), k \in 1..Len(b[s]) :
          k <= j => ends[s][k - 1] + Size(b[s][k]) <= ends[s][j]
ASSUME RoomAssumption ==
    /\ Size(Base) <= KB_PI_LEN
    /\ \A t \in DOMAIN Module : Module[t].in \in Nat /\ Module[t].out \in Nat
    /\ \A b \in Buses :
          /\ Len(b["left"]) < FirstRight
          /\ \E left \in [0..Len(b["left"]) -> 0..KB_PI_LEN],
                right \in [0..Len(b["right"]) -> 0..KB_PI_LEN] :
                    Fits(b, [left |-> left, right |-> right])

(* What PiCtory writes and the driver relies on: the devices of a file     *)
(* have different addresses, and places in the image that do not overlap.  *)
NamesIn(f) == UNION {{f[d].vars[k].name : k \in DOMAIN f[d].vars} : d \in DOMAIN f}
Variables(f) == [name: NamesIn(f), kind: Kinds, bits: {1, 8, 16, 32}, bit: Nat, offset: Nat,
                 default: SUBSET Nat, export: BOOLEAN]
Declarations(f) == [address: Nat, type: DOMAIN Module, base: Nat, vars: Seq(Variables(f))]
Devices == [address: Nat, type: DOMAIN Module, base: Nat, first: Nat, entries: Nat,
            in: Nat, out: Nat, conf: Nat, inLen: Nat, outLen: Nat, confLen: Nat]
Bytes(e) == BitsFrom(e.in, 0, 8 * e.inLen) \cup BitsFrom(e.out, 0, 8 * e.outLen)
ASSUME FileAssumption ==
    \A f \in Files : LET devs == Parse(f).devs IN
        /\ f \in Seq(Declarations(f)) /\ devs \in Seq(Devices)
        /\ \A d \in DOMAIN devs :
              /\ Bytes(devs[d]) \subseteq 0..(8 * KB_PI_LEN - 1)
              /\ \A c \in DOMAIN devs \ {d} :
                    devs[c].address # devs[d].address /\ Bytes(devs[c]) \cap Bytes(devs[d]) = {}

-----------------------------------------------------------------------------
(* The configuration of the modules' drivers, before the offsets are       *)
(* corrected: the parameters of the next module of its type, as long as    *)
(* there is room.  A DIO with too many counters is refused; the parameters *)
(* of the type "aio" lie over those of the last configuration.  Of two     *)
(* entries with one offset the later one counts.  Without a file nothing   *)
(* changes.                                                                *)
IsCounter(e) ==
    e.kind = "conf" /\ (e.default \in {{0}, {1}} \/ (e.default = {0, 1} /\ e.offset % 2 = 0))
Parameters(entries) ==
    LET params == {k \in DOMAIN entries : entries[k].kind = "conf"}
    IN  [o \in {entries[k].offset : k \in params} |->
            entries[Max({k \in params : entries[k].offset = o})].default]
Refused(dev, entries) ==
    dev.type = "dio" /\ Cardinality({k \in DOMAIN entries : IsCounter(entries[k])}) > MaxCounters
Configured(list, n, dev, entries) ==
    LET old == IF dev.type = "aio" /\ n \in DOMAIN list THEN list[n].params ELSE <<>>
        new == Parameters(entries)
    IN  [address |-> dev.address,
         params |-> [o \in DOMAIN old \cup DOMAIN new |-> IF o \in DOMAIN new THEN new[o] ELSE old[o]]]
ConfigureDrivers(kept, devs, ent) ==
    [t \in DOMAIN DriverMax |->
        LET own == {d \in DOMAIN devs : /\ devs[d].type = t
                                        /\ ~Refused(devs[d], EntriesOf(devs, ent, d))}
        IN  [n \in 1..Min({Cardinality(own), DriverMax[t]}) |->
                Configured(kept[t], n, devs[Nth(own, n)], EntriesOf(devs, ent, Nth(own, n)))]]

Drivers(kept, f) ==
    IF f = NoFile THEN kept ELSE ConfigureDrivers(kept, FindDevices(f), FindEntries(f))

(* PiCtory writes the same parameters for every AIO, so that those of the  *)
(* last configuration are replaced.                                        *)
ASSUME ParameterAssumption ==
    /\ \A t \in DOMAIN DriverMax : DriverMax[t] \in Nat
    /\ \A f, g \in Files : \A c \in DOMAIN f, d \in DOMAIN g :
          f[c].type = "aio" /\ g[d].type = "aio" =>
              DOMAIN Parameters(f[c].vars) = DOMAIN Parameters(g[d].vars)

-----------------------------------------------------------------------------
(* An entry of the table; a type that is configured but not connected is   *)
(* marked (PICONTROL_NOT_CONNECTED).                                       *)
Entry(address, type, in, out, inLen, outLen) ==
    [address |-> address, type |-> type, connected |-> TRUE, active |-> TRUE, scanned |-> TRUE,
     in |-> in, out |-> out, inLen |-> inLen, outLen |-> outLen]

(* RevPiDevice_incDevCnt: a full table is not extended.                    *)
WithDevice(t, e) == IF Len(t) < MaxDev THEN Append(t, e) ELSE t

(* RevPiDevice_init: only the base is in the table.                        *)
BaseTable == <<Entry(0, Base, 0, Module[Base].in, Module[Base].in, Module[Base].out)>>

(* A module found by the scan lies behind the one found before.            *)
FoundModule(t, address, type) ==
    LET l == Last(t)
        in == l.out + l.outLen
    IN  Entry(address, type, in, in + Module[type].in, Module[type].in, Module[type].out)

(* A device of the configuration that was not found.                       *)
Placed(e, dev) == [e EXCEPT !.in = dev.in, !.out = dev.out]
ConfiguredDevice(dev) ==
    [address |-> dev.address, type |-> dev.type, connected |-> dev.type \in Virtual,
     active |-> dev.type \in Virtual, scanned |-> FALSE,
     in |-> dev.in, out |-> dev.out, inLen |-> dev.inLen, outLen |-> dev.outLen]

(* The device of the configuration with the address of e, if it is of its  *)
(* type and size; the search ends at the first one with that address.      *)
SameModule(e, dev) == e.type = dev.type /\ e.inLen = dev.inLen /\ e.outLen = dev.outLen
Matches(e, devs) ==
    {d \in DOMAIN devs : /\ devs[d].address = e.address
                         /\ SameModule(e, devs[d])
                         /\ \A c \in 1..(d - 1) : devs[c].address # e.address}

(* A bug: an extra module stays active.                                    *)
AdjustedExtra(e, devs) ==
    IF Matches(e, devs) = {} THEN e
    ELSE Placed(e, devs[CHOOSE d \in Matches(e, devs) : TRUE])

Adjusted(e, devs) ==
    IF Matches(e, devs) = {} THEN [e EXCEPT !.active = FALSE]
    ELSE Placed(e, devs[CHOOSE d \in Matches(e, devs) : TRUE])

(* PiBridgeMaster_Adjust and revpi_compact_adjust_config: the devices that *)
(* no module was found for follow in their order, as far as there is room. *)
Taken(t, devs) == UNION {Matches(t[j], devs) : j \in DOMAIN t}
Adjust(t, devs) ==
    LET left == DOMAIN devs \ Taken(t, devs)
        all == Len(t) + Cardinality(left)
    IN  [j \in 1..(IF all <= MaxDev THEN all ELSE MaxDev) |->
            IF j <= Len(t) THEN Adjusted(t[j], devs)
            ELSE ConfiguredDevice(devs[Nth(left, j - Len(t))])]
AdjustStatus(t, devs) ==
    {s \in {"mismatch", "extra", "missing"} :
        \/ s = "mismatch" /\ \E j \in DOMAIN t, d \in DOMAIN devs :
                                 /\ devs[d].address = t[j].address /\ ~SameModule(t[j], devs[d])
                                 /\ \A c \in 1..(d - 1) : devs[c].address # t[j].address
        \/ s = "extra" /\ \E j \in DOMAIN t : Matches(t[j], devs) = {}
        \/ s = "missing" /\ \E d \in DOMAIN devs \ Taken(t, devs) : devs[d].type \notin Virtual}

(* revpi_flat_adjust_config: all devices but the first are added; the Flat *)
(* itself is not compared with the configuration.  RevPiDevice_getDev of   *)
(* an index beyond the table is the first entry.                           *)
FlatAdjust(t, devs) ==
    FoldLeftDomain(LAMBDA u, d : IF d = 1 THEN u
                                 ELSE IF d - 1 > MaxDev THEN [u EXCEPT ![1] = ConfiguredDevice(devs[d])]
                                 ELSE WithDevice(u, ConfiguredDevice(devs[d])),
                   t, devs)

-----------------------------------------------------------------------------
(* The steps of the scan: a side is looked at, its next module configured, *)
(* the modules of the table adjusted and exchanged with; then it is over.  *)
At(side, step) == scan.side = side /\ scan.step = step
NextScan(to) == [scan EXCEPT !.side = to[1], !.step = to[2], !.errors = 0]
EndSide(side) == IF side = "right" THEN <<"left", "look">> ELSE <<"none", "adjust">>
FirstScan(retries) ==
    [side |-> "right", step |-> "look", errors |-> 0, told |-> [s \in Sides |-> 0],
     disturbed |-> {}, retries |-> retries]
Running(disturbed) ==
    [FirstScan(0) EXCEPT !.side = "none", !.step = "running", !.disturbed = disturbed]

RestartScan ==
    /\ table' = BaseTable
    /\ nextAddr' = FirstAddress
    /\ gateway' = {}
    /\ gateIdx' = [s \in Sides |-> 0]

NewConfig(f) ==
    /\ file' = f
    /\ conf' = Parse(f)
    /\ slots' = Drivers(slots, f)

(* Modules that may be terminating the bus from before the scan: those     *)
(* that stayed plugged in, and those that another RevPi has told to.       *)
Modules(b) ==
    UNION {{FirstAddress[s] + Outward[s] * (k - 1) : k \in {k \in 1..Len(b[s]) : ~Module[b[s][k]].gate}} :
              s \in Sides}

(* KB_RESET: the configuration is read anew, and the bus is scanned; the   *)
(* modules may have been exchanged meanwhile, or have stayed.              *)
ResetCore(f, b) ==
    /\ machine = "core"
    /\ NewConfig(f)
    /\ bus' = b
    /\ term' \in SUBSET Modules(b)
    /\ status' = {}
    /\ RestartScan
    /\ scan' = FirstScan(MaxRetries)
    /\ UNCHANGED <<machine, coreOffset, baseTerm>>

(* revpi_compact_reset and revpi_flat_reset.                               *)
StandaloneTable(devs) ==
    IF devs = <<>> THEN BaseTable
    ELSE IF machine = "compact" THEN Adjust(BaseTable, devs) ELSE FlatAdjust(BaseTable, devs)
StandaloneStatus(devs) ==
    IF devs = <<>> THEN {}
    ELSE IF machine = "compact" THEN AdjustStatus(BaseTable, devs)
    ELSE {s \in {"missing"} : \E d \in DOMAIN devs \ {1} : devs[d].type \notin Virtual}
ResetStandalone(f) ==
    /\ machine # "core"
    /\ NewConfig(f)
    /\ table' = StandaloneTable(conf'.devs)
    /\ status' = status \cup StandaloneStatus(conf'.devs)
    /\ nextAddr' = FirstAddress /\ gateway' = {} /\ gateIdx' = [s \in Sides |-> 0]
    /\ UNCHANGED <<machine, bus, scan, coreOffset, term, baseTerm>>

(* The first module at a side raises the sniff line, if there is one.      *)
Look(side) ==
    /\ At(side, "look")
    /\ scan' = NextScan(IF bus[side] # <<>> THEN <<side, "dialogue">> ELSE EndSide(side))
    /\ UNCHANGED <<machine, configVars, table, nextAddr, gateway, term, baseTerm, status,
                   coreOffset, gateIdx>>

(* RevPiDevice_writeNextConfiguration: the module tells what it is, and is *)
(* given its address.  After a lost acknowledgement the address is set     *)
(* again, but the module does not count as found even if it answers then;  *)
(* it has got its address and does not answer the next time.               *)
NextModule(side) == bus[side][scan.told[side] + 1]
Answers(side) == IF scan.told[side] < Len(bus[side]) THEN {"found", "lost", "repeated"} ELSE {"lost"}
Dialogue(side, answer) ==
    /\ At(side, "dialogue")
    /\ answer \in Answers(side)
    /\ IF answer = "found"
       THEN /\ table' = WithDevice(table, FoundModule(table, nextAddr[side], NextModule(side)))
            /\ gateway' = gateway \cup {s \in {side} : Module[NextModule(side)].gate}
            /\ nextAddr' = [nextAddr EXCEPT ![side] = @ + Outward[side]]
            /\ scan' = [scan EXCEPT !.told[side] = @ + 1, !.step = "detect"]
       ELSE /\ scan' = [IF scan.errors < MaxErrors THEN [scan EXCEPT !.errors = @ + 1]
                        ELSE NextScan(EndSide(side)) EXCEPT
                            !.told[side] = IF answer = "repeated" THEN @ + 1 ELSE @,
                            !.disturbed = IF answer = "repeated" \/ scan.errors = MaxErrors
                                          THEN @ \cup {side} ELSE @]
            /\ UNCHANGED <<table, gateway, nextAddr>>
    /\ UNCHANGED <<machine, configVars, term, baseTerm, status, coreOffset, gateIdx>>

(* RevPiDevice_setRightModuleTermination, ...Left...: of the module found  *)
(* last, unless the side has a gateway.                                    *)
LastFound(side) == nextAddr[side] - Outward[side]
Terminable(side) == nextAddr[side] # FirstAddress[side] /\ side \notin gateway
(* A bug: the module that was found before keeps its termination.          *)
SetTerminationOnce(side, on) ==
    term' = IF Terminable(side) /\ on THEN term \cup {LastFound(side)} ELSE term

SetTermination(side, on) ==
    term' = IF ~Terminable(side) THEN term
            ELSE IF on THEN term \cup {LastFound(side)} ELSE term \ {LastFound(side)}

(* Another module raises the sniff line, or the module found last is the   *)
(* end of the bus.  Nobody looks whether the telegram arrives.             *)
Detect(side, lost) ==
    /\ At(side, "detect")
    /\ LET more == scan.told[side] < Len(bus[side])
           then == IF more THEN <<side, "dialogue">> ELSE EndSide(side)
       IN
       /\ IF lost THEN Terminable(side) /\ UNCHANGED term ELSE SetTermination(side, ~more)
       /\ scan' = [NextScan(then) EXCEPT
                       !.disturbed = IF lost THEN @ \cup {side} ELSE @]
    /\ UNCHANGED <<machine, configVars, table, nextAddr, gateway, baseTerm, status, coreOffset, gateIdx>>

(* PiBridgeMaster_Configure deactivates the modules that their driver has  *)
(* no configuration for.                                                   *)
HasConfiguration(e) ==
    e.type \in DOMAIN DriverMax => \E k \in DOMAIN slots[e.type] : slots[e.type][k].address = e.address
Configure(t) ==
    [j \in DOMAIN t |->
        [t[j] EXCEPT !.active = @ /\ (t[j].connected => HasConfiguration(t[j]))]]

(* RevPiDevice_setBaseTermination: the base is an end of the bus, and can  *)
(* terminate it.                                                           *)
SetBaseTermination == BaseTerminable /\ \E s \in Sides : nextAddr[s] = FirstAddress[s]

(* End of the configuration: the table is compared with the file, if there *)
(* is one, the base terminates the bus if a side is empty, and the modules *)
(* are configured.                                                         *)
EndOfConfig ==
    /\ At("none", "adjust")
    /\ IF file = NoFile
       THEN table' = Configure(table) /\ UNCHANGED <<status, coreOffset>>
       ELSE /\ table' = Configure(Adjust(table, conf.devs))
            /\ status' = status \cup AdjustStatus(table, conf.devs)
            /\ coreOffset' = IF Matches(table[1], conf.devs) # {}
                             THEN Adjusted(table[1], conf.devs).in ELSE coreOffset
    /\ baseTerm' = (baseTerm \/ SetBaseTermination)
    /\ scan' = NextScan(<<"none", "start">>)
    /\ UNCHANGED <<machine, configVars, nextAddr, gateway, term, gateIdx>>

(* After the first exchange, which notes the gateways, the bridge runs.    *)
Gates(side) ==
    {j \in DOMAIN table : table[j].active /\ table[j].connected /\ Module[table[j].type].gate
                          /\ SideOf(table[j].address) = side}
Incomplete == "missing" \in status \/ \E s \in Sides : scan.told[s] < Len(bus[s])
SetRunning ==
    /\ At("none", "start")
    /\ ~(Incomplete /\ scan.retries > 0)
    /\ gateIdx' = [s \in Sides |-> IF Gates(s) = {} THEN 0 ELSE Min(Gates(s))]
    /\ scan' = Running(scan.disturbed)
    /\ UNCHANGED <<machine, configVars, table, nextAddr, gateway, term, baseTerm, status, coreOffset>>

(* A module is missing: the bus is scanned again, once.                    *)
InitAgain ==
    /\ At("none", "start")
    /\ Incomplete /\ scan.retries > 0
    /\ status' = {}
    /\ RestartScan
    /\ scan' = FirstScan(scan.retries - 1)
    /\ UNCHANGED <<machine, configVars, coreOffset, term, baseTerm>>

(* revpi_core_find_gate: a gateway that the scan did not see reports by    *)
(* Ethernet; its entry in the configuration is used.                       *)
FindGate(side, type) ==
    LET found == {j \in DOMAIN table : /\ SideOf(table[j].address) = side
                                       /\ table[j].type = type /\ ~table[j].connected}
    IN  /\ At("none", "running")
        /\ gateIdx[side] = 0 /\ Module[type].gate /\ found # {}
        /\ LET j == Min(found) IN
           /\ gateIdx' = [gateIdx EXCEPT ![side] = j]
           /\ table' = [table EXCEPT ![j].active = TRUE, ![j].connected = TRUE]
        /\ UNCHANGED <<machine, configVars, busVars, status, coreOffset>>

-----------------------------------------------------------------------------
(* Once the bridge runs two active devices have different addresses, and   *)
(* no byte of the process image belongs to two of them or is outside of    *)
(* it.                                                                     *)
Active == {j \in DOMAIN table : table[j].active}
TableSound ==
    scan.step = "running" /\ machine # "flat" =>
        /\ \A j, k \in Active : j # k =>
               /\ table[j].address # table[k].address
               /\ Bytes(table[j]) \cap Bytes(table[k]) = {}
        /\ \A j \in Active : Bytes(table[j]) \subseteq 0..(8 * KB_PI_LEN - 1)
        /\ Len(table) <= MaxDev

(* Once the bridge runs, of the modules at a side whose scan was not       *)
(* disturbed the outermost terminates the bus, unless it is a gateway, and *)
(* no other one, whatever an earlier scan or another RevPi has left behind;*)
(* and the base does if it is an end of the bus and is able to.            *)
BusTerminated ==
    scan.step = "running" /\ machine = "core" =>
        /\ \A s \in Sides \ scan.disturbed :
              LET n == Len(bus[s])
                  outermost == FirstAddress[s] + Outward[s] * (n - 1)
              IN  {a \in term : SideOf(a) = s} =
                      IF n = 0 \/ Module[bus[s][n]].gate THEN {} ELSE {outermost}
        /\ BaseTerminable /\ (\E s \in Sides : bus[s] = <<>>) => baseTerm

(* A driver knows of a module the parameters that its own entry of the     *)
(* configuration has, and no others.                                       *)
OwnParameters ==
    file # NoFile => \A t \in DOMAIN slots : \A k \in DOMAIN slots[t] :
        \E d \in DOMAIN file :
            /\ file[d].address = slots[t][k].address /\ file[d].type = t
            /\ slots[t][k].params = Parameters(file[d].vars)
=============================================================================
