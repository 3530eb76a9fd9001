-------------------------------- MODULE Layout --------------------------------
(***************************************************************************)
(* From the configuration and the modules on the bus to the place of each  *)
(* variable in the process image: ConfigFile, DeviceTable and ProcessImage *)
(* together.  They implement VariableStore.                                *)
(***************************************************************************)
EXTENDS ProcessImage

CONSTANTS
    StandaloneFiles,    \* configurations that a Compact or a Flat may find
    UseDisturbed        \* see Use

Machines == {"core", "compact", "flat"}

Init ==
    /\ machine \in Machines
    /\ file \in IF machine = "core" THEN Files ELSE StandaloneFiles
    /\ conf = Parse(file)
    /\ bus \in IF machine = "core" THEN Buses ELSE {[s \in Sides |-> <<>>]}
    /\ slots = Drivers([t \in DOMAIN DriverMax |-> <<>>], file)
    /\ nextAddr = FirstAddress /\ gateway = {} /\ gateIdx = [s \in Sides |-> 0]
    /\ coreOffset = 0 /\ term \in SUBSET Modules(bus) /\ baseTerm = FALSE
    /\ preset = {}
    /\ IF machine = "core"
       THEN /\ table = BaseTable /\ status = {} /\ image = {}
            /\ scan = FirstScan(MaxRetries)
       ELSE /\ table = StandaloneTable(conf.devs) /\ status = StandaloneStatus(conf.devs)
            /\ image = SetDefaults({}, conf.ent)
            /\ scan = Running({})

(* A bound: a core is only reset with the image as its start has left it.  *)
Reset ==
    /\ machine = "core" => image = preset
    /\ \/ \E f \in Files, b \in Buses : ResetCore(f, b)
       \/ \E f \in StandaloneFiles : ResetStandalone(f)
    /\ ResetImage

Scan ==
    /\ \E s \in Sides :
          \/ Look(s)
          \/ \E a \in {"found", "lost", "repeated"} : Dialogue(s, a)
          \/ \E lost \in BOOLEAN : Detect(s, lost)
    /\ UNCHANGED <<image, preset>>
Start ==
    \/ EndOfConfig /\ StartImage
    \/ (SetRunning \/ InitAgain) /\ UNCHANGED <<image, preset>>
    \/ /\ \E s \in Sides, t \in DOMAIN Module : FindGate(s, t)
       /\ UNCHANGED <<image, preset>>

(* A bound: what happens to the process image is not explored after a scan *)
(* that lost telegrams, unless UseDisturbed.                               *)
Use ==
    /\ scan.disturbed = {} \/ UseDisturbed
    /\ \/ \E n \in Written, p \in Patterns : Application(SetVariable(n, p))
       \/ \E w \in [Exported -> Patterns], b \in Background : Application(ExportOutputs(w, b))
       \/ \E j \in DOMAIN table, p \in Patterns : Input(j, p)
       \/ \E p \in Patterns : BaseInput(p)

Next == Reset \/ Scan \/ Start \/ Use
Spec == Init /\ [][Next]_vars

-----------------------------------------------------------------------------
(* What PiCtory writes, as far as the variables need it: the name of each  *)
(* is its own, and so are its bits, which are inside of the image; the     *)
(* inputs of a device have their area to themselves; outputs are exported  *)
(* in ascending order; and the base has a device in the file.              *)
FirstBit(dev, v) == 8 * (dev.base + v.offset) + (IF v.bits = 1 THEN v.bit ELSE 0)
BitsOf(dev, v) == {FirstBit(dev, v) + k : k \in 0..(v.bits - 1)}
ASSUME VariableAssumption ==
    \A f \in Files : LET devs == Parse(f).devs IN
        /\ f # NoFile => Matches(BaseTable[1], devs) # {}
        /\ \A c, d \in DOMAIN f : \A j \in DOMAIN f[c].vars, k \in DOMAIN f[d].vars :
              LET u == f[c].vars[j]
                  v == f[d].vars[k]
              IN  /\ c # d \/ j # k => u.name # v.name /\ BitsOf(f[c], u) \cap BitsOf(f[d], v) = {}
                  /\ BitsOf(f[c], u) \subseteq 0..(EndOfImage - 1)
                  /\ u.kind = "out" /\ u.export /\ v.kind = "out" /\ v.export /\ (c < d \/ (c = d /\ j < k))
                        => FirstBit(f[c], u) < FirstBit(f[d], v)
        /\ \A c, d \in DOMAIN f : \A j \in DOMAIN f[c].vars :
              BitsOf(f[c], f[c].vars[j]) \cap BitsFrom(devs[d].in, 0, 8 * devs[d].inLen) # {}
                  => c = d /\ f[c].vars[j].kind = "inp"

(* On a machine without a bridge the base has its inputs at the start of   *)
(* the image: the driver stores them there wherever the file has them.     *)
ASSUME StandaloneAssumption ==
    /\ StandaloneFiles \subseteq Files
    /\ \A f \in StandaloneFiles \ {NoFile} : \E d \in Matches(BaseTable[1], Parse(f).devs) :
          Parse(f).devs[d].in = 0
ASSUME PatternAssumption == Patterns \subseteq SUBSET Nat

(* Every variable is read and written under its name as if nothing else    *)
(* were in the process image, whatever the order of the modules, the       *)
(* offsets and bit positions of the configuration and the copy list.       *)
Variable(m, f, name) ==
    LET d == CHOOSE d \in DOMAIN f : \E k \in DOMAIN f[d].vars : f[d].vars[k].name = name
        v == f[d].vars[CHOOSE k \in DOMAIN f[d].vars : f[d].vars[k].name = name]
    IN  [bits |-> 0..(v.bits - 1), export |-> v.kind = "out" /\ v.export,
         input |-> IF v.kind = "inp" THEN f[d].address ELSE -1,
         preset |-> CASE m = "core" -> v.kind # "inp"
                      [] m = "flat" -> TRUE
                      [] m = "compact" -> v.kind \in {"out", "mem"},
         default |-> IF m # "core" /\ v.kind \notin {"out", "mem"} THEN {}
                     ELSE IF v.bits = 1 THEN {k \in {0} : v.default # {}}
                     ELSE v.default \cap (0..(v.bits - 1))]
Declared == [m \in Machines |-> [f \in Files |-> [n \in NamesIn(f) |-> Variable(m, f, n)]]]

Configuration == Declared[machine][file]
AllValues == IF running THEN [n \in DOMAIN Configuration |-> Get(image, FindVariable(n))] ELSE <<>>

Store == INSTANCE VariableStore WITH
    Files <- {Declared[m][f] : m \in Machines, f \in Files},
    file <- Configuration, val <- AllValues, up <- running
StoreImplemented == Store!Spec
=============================================================================
