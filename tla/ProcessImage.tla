----------------------------- MODULE ProcessImage -----------------------------
(***************************************************************************)
(* The process image piDev_g.ai8uPI and its users: the defaults it starts  *)
(* with, the inputs of modules and of the base, and the applications,      *)
(* which look a variable up by its name and then read or write the byte,   *)
(* the bit or the bytes they were told, or export all outputs at once.     *)
(* Each of these operations holds lockPI; an application looks its         *)
(* variables up again after a reset (it is told by an event), so a look-up *)
(* and the access that follows are one step.  The output watchdogs are in  *)
(* Instances, KB_STOP_IO is in CyclicExchange.                             *)
(***************************************************************************)
EXTENDS DeviceTable

CONSTANTS
    Patterns,       \* values that are written, as sets of one-bits
    Written,        \* names of the variables that applications write
    Background      \* what an exported image holds besides the outputs

VARIABLES
    image,          \* ai8uPI
    preset          \* ai8uPIDefault

vars == <<tableVars, image, preset>>

EndOfImage == 8 * KB_PI_LEN
Byte(img, offset) == {k \in 0..7 : 8 * offset + k \in img}
WithByte(img, offset, byte) == (img \ BitsFrom(offset, 0, 8)) \cup Shifted(byte, 8 * offset)

-----------------------------------------------------------------------------
(* KB_FIND_VARIABLE: the first variable of that name.                      *)
FindVariable(name) ==
    LET e == conf.ent[Min({k \in DOMAIN conf.ent : conf.ent[k].name = name})]
    IN  [addr |-> e.offset, bit |-> e.bit, len |-> e.bits]
Names == {conf.ent[k].name : k \in DOMAIN conf.ent}

(* KB_GET_VALUE and KB_SET_VALUE: one bit, or, with a bit number from      *)
(* eight on, the byte.                                                     *)
GetValue(img, addr, bit) ==
    IF bit >= 8 THEN Byte(img, addr) ELSE {k \in {0} : bit \in Byte(img, addr)}
SetValue(img, addr, bit, value) ==
    IF addr >= KB_PI_LEN THEN img
    ELSE IF bit >= 8 THEN WithByte(img, addr, value \cap (0..7))
    ELSE WithByte(img, addr, IF value # {} THEN Byte(img, addr) \cup {bit}
                             ELSE Byte(img, addr) \ {bit})

(* piControlSeek to addr, then piControlRead or piControlWrite of n bytes: *)
(* at the end of the image the transfer is cut.                            *)
Transferred(addr, n) ==
    IF addr >= KB_PI_LEN THEN {}
    ELSE BitsFrom(addr, 0, 8 * n) \cap (0..(EndOfImage - 1))
Read(img, addr, n) == {k - 8 * addr : k \in Transferred(addr, n) \cap img}
Write(img, addr, n, value) ==
    (img \ Transferred(addr, n)) \cup (Shifted(value, 8 * addr) \cap Transferred(addr, n))

(* What an application does to get or set the variable that it has found.  *)
Get(img, v) == IF v.len = 1 THEN GetValue(img, v.addr, v.bit)
               ELSE IF v.len = 8 THEN GetValue(img, v.addr, 8)
               ELSE Read(img, v.addr, v.len \div 8)
Set(img, v, value) == IF v.len = 1 THEN SetValue(img, v.addr, v.bit, value \cap {0})
                      ELSE IF v.len = 8 THEN SetValue(img, v.addr, 8, value)
                      ELSE Write(img, v.addr, v.len \div 8, value)

(* KB_SET_EXPORTED_OUTPUTS: what the copy list says is taken from the      *)
(* image of the application.                                               *)
Copied(c) == IF c.len >= 8 THEN BitsFrom(c.addr, 0, 8 * (c.len \div 8)) ELSE Shifted(c.mask, 8 * c.addr)
ExportFrom(img, user) ==
    LET copied == UNION {Copied(c) : c \in ToSet(conf.cl)}
    IN  (img \ copied) \cup (user \cap copied)

-----------------------------------------------------------------------------
running == scan.step = "running"
Application(A) == running /\ A /\ UNCHANGED <<tableVars, preset>>

SetVariable(name, value) ==
    /\ name \in Names
    /\ image' = Set(image, FindVariable(name), value)
ExportOutputs(w, background) ==
    LET first(n) == 8 * FindVariable(n).addr + FindVariable(n).bit
        bits(n) == 0..(FindVariable(n).len - 1)
        user == (background \ UNION {Shifted(bits(n), first(n)) : n \in DOMAIN w})
                    \cup UNION {Shifted(w[n] \cap bits(n), first(n)) : n \in DOMAIN w}
    IN  image' = ExportFrom(image, user)
Exported == {conf.ent[k].name : k \in {k \in DOMAIN conf.ent :
                conf.ent[k].kind = "out" /\ conf.ent[k].export}}

(* The cyclic exchange with a module, or the packets of a gateway: its     *)
(* inputs are stored, for the first time before the bridge runs.           *)
Input(j, value) ==
    /\ scan.step \in {"start", "running"} /\ machine = "core"
    /\ j \in Active \ {1} /\ table[j].type \notin Virtual
    /\ image' = Write(image, table[j].in, table[j].inLen, value)
    /\ UNCHANGED <<tableVars, preset>>

(* In every cycle the inputs of the base are stored: on a core not at the  *)
(* place that its entry of the table has, but at the one the configuration *)
(* gave it; on a Compact and a Flat always at the start of the image.  (The*)
(* offset of a Compact, machine->config.offset, is never anything but 0.)  *)
BaseOffset == IF machine = "core" THEN coreOffset ELSE 0
BaseInput(value) ==
    /\ running
    /\ image' = Write(image, BaseOffset, Module[Base].in, value)
    /\ UNCHANGED <<tableVars, preset>>

(* Without a configuration PiBridgeMaster_setDefaults returns at once, and *)
(* the image gets the defaults of the last one.                            *)
StartImage ==
    /\ preset' = IF file = NoFile THEN preset ELSE Defaults(conf.ent)
    /\ image' = preset'

(* A Flat starts from zeros, a Compact only zeroes its own outputs, which  *)
(* it takes to be at the start of the image; a core waits for the scan.    *)
ResetImage ==
    /\ image' = CASE machine = "core" -> image
                  [] machine = "flat" -> SetDefaults({}, conf'.ent)
                  [] machine = "compact" ->
                        SetDefaults(image \ BitsFrom(Module[Base].in, 0, 8 * Module[Base].out), conf'.ent)
    /\ UNCHANGED preset
=============================================================================
