------------------------------ MODULE ConfigFile ------------------------------
(***************************************************************************)
(* What piConfigParse() makes of the configuration written by PiCtory: the *)
(* list of the devices with the areas they take in the process image, the  *)
(* list of all variables, and the copy list of KB_SET_EXPORTED_OUTPUTS;    *)
(* and the default values of the process image.  The syntax of the file    *)
(* (JSON) is left out: a file is a sequence of devices                     *)
(*    [address, type, base, vars]                                          *)
(* whose vars are a sequence, in the order of the file, of                 *)
(*    [name, kind, bits, bit, offset, default, export].                    *)
(* A value, and the process image itself, is the set of its one-bits.      *)
(***************************************************************************)
EXTENDS Naturals, FiniteSets, SequencesExt

CONSTANTS
    KB_PI_LEN,      \* bytes of the process image
    WideMask        \* what the build makes of 0xff >> (8 - n) for n > 8

ASSUME ImageAssumption == KB_PI_LEN \in Nat \ {0}
ASSUME MaskAssumption == WideMask \subseteq 0..7

NoFile == <<>>          \* the file is missing or not well-formed
Kinds == {"inp", "out", "mem", "conf"}

(* Bits number first to first + bits - 1 counted from bit 0 of the byte.   *)
BitsFrom(offset, first, bits) == {8 * offset + first + k : k \in 0..(bits - 1)}
Shifted(bits, n) == {n + k : k \in bits}

-----------------------------------------------------------------------------
(* find_devices: one entry per device; its areas are still empty.  The     *)
(* entries are counted on the way, which gives the device its first one.   *)
Counted(file) ==
    LET entries[d \in 0..Len(file)] == IF d = 0 THEN 0 ELSE entries[d - 1] + Len(file[d].vars)
    IN  entries
FindDevices(file) ==
    [d \in DOMAIN file |->
        [address |-> file[d].address, type |-> file[d].type, base |-> file[d].base,
         first |-> Counted(file)[d - 1], entries |-> Len(file[d].vars),
         in |-> 0, out |-> 0, conf |-> 0, inLen |-> 0, outLen |-> 0, confLen |-> 0]]

(* find_entries: the variables of all devices, one after the other.  Only  *)
(* a variable of one bit has a position in its byte, 0 to 15.              *)
FindEntries(file) ==
    FlattenSeq([d \in DOMAIN file |->
        [v \in DOMAIN file[d].vars |->
            LET e == file[d].vars[v] IN
            [address |-> file[d].address, kind |-> e.kind, export |-> e.export,
             name |-> e.name, bits |-> e.bits, offset |-> e.offset,
             bit |-> IF e.bits = 1 THEN e.bit ELSE 0, default |-> e.default]]])

(* A bug: the entries of a device are counted from the start of the list.  *)
EntriesFirst(devs, ent, d) == SubSeq(ent, 1, devs[d].entries)

(* The entries of a device, as its driver gets them.                       *)
EntriesOf(devs, ent, d) == SubSeq(ent, devs[d].first + 1, devs[d].first + devs[d].entries)

(* The k-th of a set of numbers, in their order.                           *)
Nth(S, k) == CHOOSE n \in S : Cardinality({m \in S : m <= n}) = k

-----------------------------------------------------------------------------
Based(e, dev) == [e EXCEPT !.offset = @ + dev.base]

(* A bug: a bit of the second byte of a word is left where it was.         *)
NormalWordwise(e) == e

(* The position of a bit is below eight, in its own byte.                  *)
Normal(e) == [e EXCEPT !.offset = @ + e.bit \div 8, !.bit = @ % 8]

(* The area that a device has for some kinds of entries: its first byte,   *)
(* as it was before the bits were put in order, and the bytes of all its   *)
(* entries.  Memory and configuration share an area, which begins with the *)
(* latter if there is any: it comes last in the file.                      *)
Own(dev, ent, kinds) == {k \in DOMAIN ent : ent[k].address = dev.address /\ ent[k].kind \in kinds}
First(ent, own) == IF own = {} THEN 0 ELSE Min({ent[k].offset : k \in own})
Length(ent, own) == MapThenSumSet(LAMBDA k : ent[k].bits, own) \div 8
WithAreas(dev, ent) ==
    LET in == Own(dev, ent, {"inp"})
        out == Own(dev, ent, {"out"})
        mem == Own(dev, ent, {"mem"})
        cfg == Own(dev, ent, {"conf"})
    IN  [dev EXCEPT !.in = First(ent, in), !.inLen = Length(ent, in),
                    !.out = First(ent, out), !.outLen = Length(ent, out),
                    !.conf = First(ent, IF cfg = {} THEN mem ELSE cfg),
                    !.confLen = Length(ent, mem \cup cfg)]

(* The loop that moves the entries by the base offset of the device with   *)
(* their address.                                                          *)
CorrectOffsets(devs, ent) ==
    LET of(e) == CHOOSE d \in DOMAIN devs : devs[d].address = e.address
        based == [k \in DOMAIN ent |-> Based(ent[k], devs[of(ent[k])])]
    IN  [devs |-> [d \in DOMAIN devs |-> WithAreas(devs[d], based)],
         ent |-> [k \in DOMAIN ent |-> Normal(based[k])]]

-----------------------------------------------------------------------------
(* The copy list: address, length in bits and mask.  The mask of more than *)
(* eight bits comes from a shift by a negative number and may be anything; *)
(* it is only looked at where two entries begin in the same byte.          *)
CopyEntry(e) ==
    [addr |-> e.offset, len |-> e.bits,
     mask |-> IF e.bits <= 8 THEN {e.bit + k : k \in 0..(e.bits - 1)} \cap (0..7) ELSE WideMask]

(* "internal error 2" leaves an empty list: neighbors are not in order.    *)
Ascending(cl) ==
    \A d \in 2..Len(cl) :
        /\ cl[d - 1].addr <= cl[d].addr
        /\ cl[d - 1].addr = cl[d].addr => cl[d - 1].mask \cap cl[d].mask = {}
Exports(ent) == {k \in DOMAIN ent : ent[k].kind = "out" /\ ent[k].export}
ExportList(ent) ==
    LET cl == [d \in 1..Cardinality(Exports(ent)) |-> CopyEntry(ent[Nth(Exports(ent), d)])]
    IN  IF Ascending(cl) THEN cl ELSE <<>>

(* The entry is joined with the last one: bits of one byte, or bytes that  *)
(* follow each other.                                                      *)
Joined(cl, e) ==
    IF cl = <<>> THEN <<e>>
    ELSE LET l == Last(cl) IN
         IF l.addr = e.addr /\ l.len < 8 /\ e.len < 8
         THEN Append(Front(cl), [l EXCEPT !.len = @ + e.len, !.mask = @ \cup e.mask])
         ELSE IF l.len >= 8 /\ e.len >= 8 /\ e.addr = l.addr + l.len \div 8
         THEN Append(Front(cl), [l EXCEPT !.len = @ + e.len])
         ELSE Append(cl, e)
CopyList(ent) ==
    LET cl == ExportList(ent)
        joined[n \in 0..Len(cl)] == IF n = 0 THEN <<>> ELSE Joined(joined[n - 1], cl[n])
    IN  joined[Len(cl)]

Parse(file) ==
    LET c == CorrectOffsets(FindDevices(file), FindEntries(file))
    IN  [devs |-> c.devs, ent |-> c.ent, cl |-> CopyList(c.ent)]

-----------------------------------------------------------------------------
(* PiBridgeMaster_setDefaults: the default of every variable, of whatever  *)
(* kind, over zeros.  Other lengths than these have none.                  *)
Preset(e) ==
    CASE e.bits = 1 -> IF e.default # {} THEN BitsFrom(e.offset, e.bit, 1) ELSE {}
      [] e.bits \in {8, 16, 32} -> Shifted(e.default \cap (0..(e.bits - 1)), 8 * e.offset)
      [] OTHER -> {}
Defaults(ent) == (UNION {Preset(e) : e \in ToSet(ent)}) \cap (0..(8 * KB_PI_LEN - 1))

(* revpi_set_defaults, on machines without a bridge: the outputs and the   *)
(* memory are written over what mem holds, one after the other, unless     *)
(* they are beyond the end of the image.                                   *)
Cells(e) == IF e.bits \in {1, 8, 16, 32} THEN BitsFrom(e.offset, e.bit, e.bits) ELSE {}
WithDefault(mem, e) ==
    IF e.kind \in {"out", "mem"} /\ Cells(e) \subseteq 0..(8 * KB_PI_LEN - 1)
    THEN (mem \ Cells(e)) \cup Preset(e) ELSE mem
SetDefaults(mem, ent) ==
    LET written[n \in 0..Len(ent)] == IF n = 0 THEN mem ELSE WithDefault(written[n - 1], ent[n])
    IN  written[Len(ent)]
=============================================================================
