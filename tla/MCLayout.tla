------------------------------- MODULE MCLayout -------------------------------
(***************************************************************************)
(* Layout with modules of a few bytes and three configurations: a DIO with *)
(* one bit per output and a software module; a gateway, whose place is     *)
(* before the base, two AIOs and the software module; and no file.  A bus  *)
(* of three modules and one of a single module match a part of them.  The  *)
(* file with the base behind the gateway is one for a core.                *)
(***************************************************************************)
EXTENDS Layout

MCModule ==
    [base |-> [in |-> 1, out |-> 1, gate |-> FALSE],
     dio |-> [in |-> 1, out |-> 2, gate |-> FALSE],
     aio |-> [in |-> 2, out |-> 1, gate |-> FALSE],
     gate |-> [in |-> 1, out |-> 0, gate |-> TRUE],
     soft |-> [in |-> 0, out |-> 2, gate |-> FALSE]]
MCDriverMax == [dio |-> 1, aio |-> 2]

Var(name, kind, bits, bit, offset, default, export) ==
    [name |-> <<name, bit>>, kind |-> kind, bits |-> bits, bit |-> bit, offset |-> offset,
     default |-> default, export |-> export]
In(name) == Var(name, "inp", 8, 0, 0, {}, FALSE)
Par(name, offset, value) == Var(name, "conf", 8, 0, offset, value, FALSE)

Device(address, type, base, list) ==
    [address |-> address, type |-> type, base |-> base, vars |-> list]
BaseAt(base) == Device(0, "base", base, <<In("status"), Var("leds", "out", 8, 0, 1, {1}, FALSE)>>)
GateAt(base) == Device(31, "gate", base, <<In("gi")>>)
Bits(exported) ==
    [k \in 1..16 |-> Var("do", "out", 1, k - 1, 1, IF k = 10 THEN {0} ELSE {}, (k - 1) \in exported)]
Word == <<Var("do", "out", 16, 0, 1, {2, 13}, TRUE)>>
DioAt(address, base, name, outputs, pars) == Device(address, "dio", base, <<In(name)>> \o outputs \o pars)
AioAt(address, base, names, value) ==
    Device(address, "aio", base,
           <<Var(names[1], "inp", 16, 0, 0, {}, FALSE), Var(names[2], "out", 8, 0, 2, {7}, FALSE),
             Par(names[3], 3, value)>>)
SoftAt(base, export) ==
    Device(64, "soft", base, [k \in 1..2 |-> Var("so", "out", 8, k - 1, k - 1, {}, export)])

Discrete == <<BaseAt(0), DioAt(32, 2, "di", Bits({0, 9}), <<Par("p", 3, {1}), Par("q", 4, {2})>>),
              SoftAt(7, FALSE)>>
Analog == <<GateAt(0), BaseAt(1), AioAt(32, 3, <<"ai", "ao", "as">>, {4}), SoftAt(7, TRUE),
            AioAt(33, 9, <<"bi", "bo", "bs">>, {5})>>
MCFiles == {Discrete, Analog, NoFile}
MCStandaloneFiles == {Discrete, NoFile}

MCBuses ==
    {[left |-> <<"gate">>, right |-> <<"dio", "aio">>], [left |-> <<>>, right |-> <<"aio">>]}

MCPatterns == {{}, {0, 10}}
MCWritten == {<<"do", 8>>, <<"bo", 0>>}
MCBackground == {0..103}
===============================================================================
