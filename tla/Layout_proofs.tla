---------------------------- MODULE Layout_proofs ----------------------------
(***************************************************************************)
(* Proofs about Layout, for any modules at both sides, any telegrams lost  *)
(* and any configurations that PiCtory may write: what each side knows of  *)
(* its modules while the bus is scanned, which of them terminate it in the *)
(* end, and where the entries of the device table lie; that each driver    *)
(* gets the parameters of its own module; and that the process image is a  *)
(* store of named variables, the refinement of VariableStore.              *)
(***************************************************************************)
EXTENDS Layout, FiniteSetTheorems, TLAPS, SequenceTheorems

(* The address of the k-th module of a side, and how many were found.      *)
Address(s, k) == IF s = "right" THEN FirstRight + k - 1 ELSE FirstRight - k
Found(s) == IF s = "right" THEN nextAddr[s] - FirstRight ELSE FirstRight - 1 - nextAddr[s]

N(s) == Len(bus[s])
EndsInGate(s) == N(s) > 0 /\ Module[bus[s][N(s)]].gate
Before(s) == (scan.side = s /\ scan.step = "look") \/ (scan.side = "right" /\ s = "left")
After(s) == scan.side = "none" \/ (scan.side = "left" /\ s = "right")
Quiet(s) == s \notin scan.disturbed

(* The state of the scan.                                                  *)
Scans == [side: Sides \cup {"none"},
          step: {"look", "dialogue", "detect", "adjust", "start", "running"},
          errors: 0..MaxErrors, told: [Sides -> Nat], disturbed: SUBSET Sides, retries: Int]
ScanTypeOK ==
    /\ bus \in Buses
    /\ scan \in Scans
    /\ nextAddr \in [Sides -> Int] /\ gateway \in SUBSET Sides
    /\ (scan.side = "none") <=> scan.step \in {"adjust", "start", "running"}

(* A module that was told its address twice was not found; the others were.*)
CountInv(s) ==
    /\ 0 <= Found(s) /\ Found(s) <= scan.told[s] /\ scan.told[s] <= N(s)
    /\ Quiet(s) => Found(s) = scan.told[s]
    /\ Before(s) => scan.told[s] = 0 /\ Quiet(s) /\ s \notin gateway
    /\ After(s) /\ Quiet(s) => scan.told[s] = N(s)
    /\ At(s, "dialogue") /\ Quiet(s) => scan.told[s] < N(s)
    /\ At(s, "detect") => Found(s) > 0

(* A gateway is known by then that it is found.                            *)
GatewayInv(s) ==
    /\ s \in gateway => EndsInGate(s) /\ scan.told[s] = N(s)
    /\ EndsInGate(s) /\ Found(s) = N(s) => s \in gateway

(* Of the modules that were found one after the other only the outermost   *)
(* may terminate the bus, and a gateway never does.                        *)
TermInv(s) ==
    /\ EndsInGate(s) => Address(s, N(s)) \notin term
    /\ (At(s, "dialogue") \/ At(s, "detect")) /\ Quiet(s) =>
          \A k \in 1..Found(s) : Address(s, k) \in term => At(s, "detect") /\ k = Found(s)
    /\ After(s) /\ Quiet(s) =>
          \A k \in 1..N(s) : (Address(s, k) \in term) <=> k = N(s) /\ ~EndsInGate(s)

(* Nothing else is terminated.                                             *)
TermPlaces == \A a \in term : \E s \in Sides : \E k \in 1..N(s) : a = Address(s, k)

BaseInv ==
    scan.step \in {"start", "running"} =>
        (BaseTerminable /\ (\E s \in Sides : bus[s] = <<>>) => baseTerm)

ScanInv ==
    /\ ScanTypeOK
    /\ \A s \in Sides :
          /\ scan.step # "running" => CountInv(s) /\ GatewayInv(s)
          /\ TermInv(s)
    /\ TermPlaces
    /\ BaseInv

IndInv == machine = "core" => ScanInv

-----------------------------------------------------------------------------
(* Addresses and sides.                                                    *)
LEMMA Addresses ==
    /\ \A s, r \in Sides, j, k \in Nat \ {0} : Address(s, j) = Address(r, k) => s = r /\ j = k
    /\ \A s \in Sides, k \in Nat \ {0} : SideOf(Address(s, k)) = s
    BY DEF Address, Sides, SideOf, FirstRight

LEMMA NoErrors == 0 \in 0..MaxErrors
    BY TableAssumption

LEMMA LastAddress ==
    ASSUME ScanTypeOK, NEW s \in Sides
    PROVE  /\ Found(s) \in Int
           /\ LastFound(s) = Address(s, Found(s))
           /\ nextAddr[s] = FirstAddress[s] <=> Found(s) = 0
           /\ Terminable(s) <=> Found(s) # 0 /\ s \notin gateway
    <1>1. nextAddr[s] \in Int
        BY DEF ScanTypeOK
    <1>. QED BY <1>1 DEF Found, LastFound, Address, Sides, Outward, FirstAddress, FirstRight,
                Terminable

LEMMA BusTyped ==
    ASSUME ScanTypeOK, NEW s \in Sides
    PROVE  /\ bus[s] \in Seq(DOMAIN Module) /\ N(s) \in Nat
           /\ bus[s] = <<>> <=> N(s) = 0
           /\ EndsInGate(s) \in BOOLEAN
           /\ \A k \in 1..(N(s) - 1) : ~Module[bus[s][k]].gate
    <1>1. bus[s] \in Seq(DOMAIN Module)
        BY BusAssumption DEF ScanTypeOK
    <1>2. N(s) \in Nat /\ (bus[s] = <<>> <=> N(s) = 0)
        BY <1>1 DEF N
    <1>. QED BY <1>1, <1>2, BusAssumption DEF ScanTypeOK, N, EndsInGate

(* A step at side s leaves the other side as it was.                       *)
LEMMA OtherSide ==
    ASSUME ScanInv, NEW s \in Sides, NEW r \in Sides \ {s},
           scan.side = s, scan.step \in {"look", "dialogue", "detect"},
           UNCHANGED bus, nextAddr'[r] = nextAddr[r], scan'.told[r] = scan.told[r],
           r \in scan'.disturbed <=> r \in scan.disturbed,
           r \in gateway' <=> r \in gateway,
           \A k \in 1..N(r) : Address(r, k) \in term' <=> Address(r, k) \in term,
           \/ scan'.side = s
           \/ scan'.side = EndSide(s)[1] /\ scan'.step = EndSide(s)[2]
    PROVE  (CountInv(r) /\ GatewayInv(r) /\ TermInv(r))'
    <1>1. CountInv(r) /\ GatewayInv(r) /\ TermInv(r)
        BY DEF ScanInv
    <1>2. /\ N(r)' = N(r) /\ EndsInGate(r)' = EndsInGate(r) /\ Found(r)' = Found(r)
          /\ Quiet(r)' <=> Quiet(r)
        BY DEF N, EndsInGate, Found, Quiet
    <1>3. /\ N(r) \in Nat
          /\ EndsInGate(r) => N(r) \in 1..N(r)
        BY BusTyped DEF ScanInv, EndsInGate
    <1>4. CASE s = "right" /\ r = "left"
        <2>1. /\ Before(r) /\ ~At(r, "dialogue") /\ ~At(r, "detect") /\ ~After(r)
              /\ Before(r)' /\ ~At(r, "dialogue")' /\ ~At(r, "detect")' /\ ~After(r)'
            BY <1>4 DEF Before, At, After, EndSide
        <2>. QED BY <1>1, <1>2, <1>3, <2>1 DEF CountInv, GatewayInv, TermInv
    <1>5. CASE s = "left" /\ r = "right"
        <2>1. /\ ~Before(r) /\ ~At(r, "dialogue") /\ ~At(r, "detect") /\ After(r)
              /\ ~Before(r)' /\ ~At(r, "dialogue")' /\ ~At(r, "detect")' /\ After(r)'
            BY <1>5 DEF Before, At, After, EndSide
        <2>. QED BY <1>1, <1>2, <1>3, <2>1 DEF CountInv, GatewayInv, TermInv
    <1>. QED BY <1>4, <1>5 DEF Sides

-----------------------------------------------------------------------------
(* The begin of a scan, and what does not take part in it.                 *)
LEMMA BeginScan ==
    ASSUME bus' \in Buses, NEW n \in Int, scan' = FirstScan(n), RestartScan,
           TermPlaces', \A s \in Sides : (EndsInGate(s) => Address(s, N(s)) \notin term)'
    PROVE  ScanInv'
    <1>1. /\ scan' \in Scans
          /\ scan'.side = "right" /\ scan'.step = "look"
          /\ scan'.disturbed = {} /\ \A s \in Sides : scan'.told[s] = 0
        BY NoErrors DEF FirstScan, Scans, Sides
    <1>2. nextAddr' \in [Sides -> Int] /\ gateway' = {} /\ \A s \in Sides : Found(s)' = 0
        BY DEF RestartScan, FirstAddress, FirstRight, Found, Sides
    <1>3. ScanTypeOK'
        BY <1>1, <1>2 DEF ScanTypeOK
    <1>4. ASSUME NEW s \in Sides
          PROVE  (CountInv(s) /\ GatewayInv(s) /\ TermInv(s))'
        <2>1. N(s)' \in Nat
            BY <1>3, BusAssumption DEF ScanTypeOK, N
        <2>2. CountInv(s)'
            BY <1>1, <1>2, <2>1 DEF CountInv, Quiet, After, At
        <2>3. GatewayInv(s)'
            BY <1>2, <2>1 DEF GatewayInv, EndsInGate
        <2>4. TermInv(s)'
            BY <1>1 DEF TermInv, After, At
        <2>. QED BY <2>2, <2>3, <2>4
    <1>5. BaseInv'
        BY <1>1 DEF BaseInv
    <1>. QED BY <1>3, <1>4, <1>5 DEF ScanInv

(* What may be terminating the bus before a scan.                          *)
LEMMA OldTermination ==
    ASSUME NEW b \in Buses, NEW T \in SUBSET Modules(b)
    PROVE  /\ \A a \in T : \E s \in Sides : \E k \in 1..Len(b[s]) : a = Address(s, k)
           /\ \A s \in Sides :
                 Len(b[s]) > 0 /\ Module[b[s][Len(b[s])]].gate => Address(s, Len(b[s])) \notin T
    <1>1. ASSUME NEW a \in T
          PROVE  \E s \in Sides : \E k \in 1..Len(b[s]) : a = Address(s, k) /\ ~Module[b[s][k]].gate
        <2>1. PICK s \in Sides : \E k \in 1..Len(b[s]) :
                  ~Module[b[s][k]].gate /\ a = FirstAddress[s] + Outward[s] * (k - 1)
            BY DEF Modules
        <2>2. PICK k \in 1..Len(b[s]) :
                  ~Module[b[s][k]].gate /\ a = FirstAddress[s] + Outward[s] * (k - 1)
            BY <2>1
        <2>3. a = Address(s, k)
            BY <2>2 DEF Address, Sides, FirstAddress, FirstRight, Outward
        <2>. QED BY <2>2, <2>3
    <1>2. ASSUME NEW s \in Sides, Len(b[s]) > 0, Module[b[s][Len(b[s])]].gate,
                 Address(s, Len(b[s])) \in T
          PROVE  FALSE
        <2>0. PICK r \in Sides : \E k \in 1..Len(b[r]) :
                  Address(s, Len(b[s])) = Address(r, k) /\ ~Module[b[r][k]].gate
            BY <1>1, <1>2
        <2>1. PICK k \in 1..Len(b[r]) :
                  Address(s, Len(b[s])) = Address(r, k) /\ ~Module[b[r][k]].gate
            BY <2>0
        <2>2. Len(b[s]) \in Nat \ {0} /\ k \in Nat \ {0}
            BY <1>2, BusAssumption
        <2>3. r = s /\ k = Len(b[s])
            BY <2>1, <2>2, Addresses
        <2>. QED BY <1>2, <2>1, <2>3
    <1>. QED BY <1>1, <1>2

LEMMA ResetCoreStep ==
    ASSUME NEW f, NEW b \in Buses, ResetCore(f, b)
    PROVE  ScanInv'
    <1>. USE TableAssumption DEF ResetCore, NewConfig
    <1>1. bus' = b /\ term' \in SUBSET Modules(b)
        OBVIOUS
    <1>2. /\ \A a \in term' : \E s \in Sides : \E k \in 1..Len(b[s]) : a = Address(s, k)
          /\ \A s \in Sides :
                Len(b[s]) > 0 /\ Module[b[s][Len(b[s])]].gate => Address(s, Len(b[s])) \notin term'
        <2>. HIDE DEF ResetCore
        <2>. QED BY <1>1, OldTermination
    <1>3. TermPlaces' /\ \A s \in Sides : (EndsInGate(s) => Address(s, N(s)) \notin term)'
        BY <1>1, <1>2 DEF TermPlaces, EndsInGate, N
    <1>. QED BY <1>1, <1>3, BeginScan

LEMMA InitAgainStep == ASSUME ScanInv, InitAgain PROVE ScanInv'
    <1>. USE DEF InitAgain, configVars
    <1>1. scan.retries - 1 \in Int /\ bus' \in Buses
        BY DEF ScanInv, ScanTypeOK, Scans
    <1>2. TermPlaces'
        BY DEF ScanInv, TermPlaces, N
    <1>3. \A s \in Sides : (EndsInGate(s) => Address(s, N(s)) \notin term)'
        BY DEF ScanInv, TermInv, EndsInGate, N
    <1>. QED BY <1>1, <1>2, <1>3, BeginScan

LEMMA SameScan ==
    ASSUME ScanInv, UNCHANGED <<bus, scan, nextAddr, gateway, term, baseTerm>>
    PROVE  ScanInv'
    <1>1. ScanTypeOK' /\ TermPlaces' /\ BaseInv'
        BY DEF ScanInv, ScanTypeOK, TermPlaces, BaseInv, N
    <1>2. ASSUME NEW s \in Sides
          PROVE  (/\ scan.step # "running" => CountInv(s) /\ GatewayInv(s)
                  /\ TermInv(s))'
        BY <1>2 DEF ScanInv, CountInv, GatewayInv, TermInv, N, EndsInGate, Found, Quiet, Before,
                    After, At
    <1>. QED BY <1>1, <1>2 DEF ScanInv

(* The end of the scan.                                                    *)
LEMMA EndOfConfigStep == ASSUME ScanInv, EndOfConfig PROVE ScanInv'
    <1>. USE DEF EndOfConfig, configVars, At
    <1>1. /\ scan' \in Scans /\ scan'.side = "none" /\ scan'.step = "start"
          /\ scan'.told = scan.told /\ scan'.disturbed = scan.disturbed
        BY NoErrors DEF ScanInv, ScanTypeOK, Scans, NextScan
    <1>2. ScanTypeOK' /\ TermPlaces'
        BY <1>1 DEF ScanInv, ScanTypeOK, TermPlaces, N
    <1>3. ASSUME NEW s \in Sides
          PROVE  (CountInv(s) /\ GatewayInv(s) /\ TermInv(s))'
        BY <1>1 DEF ScanInv, CountInv, GatewayInv, TermInv, N, EndsInGate, Found, Quiet, Before,
                    After
    <1>4. BaseInv'
        <2>1. ASSUME NEW s \in Sides, bus[s] = <<>> PROVE nextAddr[s] = FirstAddress[s]
            <3>1. CountInv(s) /\ N(s) = 0
                BY <2>1, BusTyped DEF ScanInv
            <3>2. Found(s) = 0
                BY <3>1, LastAddress DEF ScanInv, ScanTypeOK, Scans, CountInv
            <3>. QED BY <3>2, LastAddress DEF ScanInv
        <2>. QED BY <2>1 DEF BaseInv, SetBaseTermination
    <1>. QED BY <1>2, <1>3, <1>4 DEF ScanInv

LEMMA SetRunningStep == ASSUME ScanInv, SetRunning PROVE ScanInv'
    <1>. USE DEF SetRunning, configVars, At
    <1>1. /\ scan' \in Scans /\ scan'.side = "none" /\ scan'.step = "running"
          /\ scan'.disturbed = scan.disturbed
        <2>1. FirstScan(0) \in Scans
            BY NoErrors DEF FirstScan, Scans, Sides
        <2>2. scan.disturbed \in SUBSET Sides
            BY DEF ScanInv, ScanTypeOK, Scans
        <2>. QED BY <2>1, <2>2 DEF Scans, Running
    <1>2. ScanTypeOK' /\ TermPlaces'
        BY <1>1 DEF ScanInv, ScanTypeOK, TermPlaces, N
    <1>3. ASSUME NEW s \in Sides
          PROVE  TermInv(s)'
        BY <1>1 DEF ScanInv, TermInv, N, EndsInGate, Quiet, After
    <1>4. BaseInv'
        BY DEF ScanInv, BaseInv
    <1>. QED BY <1>1, <1>2, <1>3, <1>4 DEF ScanInv

-----------------------------------------------------------------------------
(* The scan of a side.                                                     *)
LEMMA EndOfSide ==
    ASSUME NEW s \in Sides
    PROVE  \/ s = "right" /\ EndSide(s)[1] = "left" /\ EndSide(s)[2] = "look"
           \/ s = "left" /\ EndSide(s)[1] = "none" /\ EndSide(s)[2] = "adjust"
    BY DEF Sides, EndSide

LEMMA NextTyped ==
    ASSUME scan \in Scans, NEW s \in Sides,
           NEW to \in {<<s, "dialogue">>, EndSide(s)}
    PROVE  /\ NextScan(to) \in Scans
           /\ NextScan(to).side = to[1] /\ NextScan(to).step = to[2]
           /\ NextScan(to).told = scan.told /\ NextScan(to).disturbed = scan.disturbed
           /\ NextScan(to).side = "none" <=> NextScan(to).step \in {"adjust", "start", "running"}
    <1>1. /\ to[1] \in Sides \cup {"none"} /\ to[2] \in {"dialogue", "look", "adjust"}
          /\ to[1] = "none" <=> to[2] \in {"adjust", "start", "running"}
        BY EndOfSide DEF Sides
    <1>. QED BY <1>1, NoErrors DEF NextScan, Scans

(* One module more is told, or none; the scan stays, or leaves the side.   *)
Moves(s) ==
    /\ scan'.side \in {s, EndSide(s)[1]}
    /\ scan'.told[s] \in {scan.told[s], scan.told[s] + 1}
    /\ \A r \in Sides \ {s} : scan'.told[r] = scan.told[r]

LEMMA LookStep == ASSUME ScanInv, NEW s \in Sides, Look(s) PROVE ScanInv' /\ Moves(s)
    <1>. USE DEF Look, At, configVars
    <1>. DEFINE to == IF bus[s] # <<>> THEN <<s, "dialogue">> ELSE EndSide(s)
    <1>1. /\ scan' \in Scans /\ scan'.side = to[1] /\ scan'.step = to[2]
          /\ scan'.told = scan.told /\ scan'.disturbed = scan.disturbed
          /\ scan'.side = "none" <=> scan'.step \in {"adjust", "start", "running"}
        BY NextTyped DEF ScanInv, ScanTypeOK
    <1>2. ScanTypeOK' /\ TermPlaces' /\ BaseInv'
        BY <1>1, EndOfSide DEF ScanInv, ScanTypeOK, TermPlaces, BaseInv, N
    <1>3. /\ N(s)' = N(s) /\ EndsInGate(s)' = EndsInGate(s) /\ Found(s)' = Found(s)
          /\ Quiet(s)' <=> Quiet(s)
        BY <1>1 DEF N, EndsInGate, Found, Quiet
    <1>4. /\ CountInv(s) /\ GatewayInv(s) /\ TermInv(s)
          /\ Found(s) = 0 /\ scan.told[s] = 0 /\ Quiet(s) /\ N(s) \in Nat
        BY BusTyped, LastAddress DEF ScanInv, CountInv, Before
    <1>5. ASSUME bus[s] # <<>> PROVE ScanInv'
        <2>1. scan'.side = s /\ scan'.step = "dialogue" /\ N(s) > 0
            BY <1>1, <1>4, <1>5, BusTyped DEF ScanInv
        <2>2. ~Before(s)' /\ ~After(s)'
            BY <2>1 DEF Before, After, Sides
        <2>3. (CountInv(s) /\ GatewayInv(s) /\ TermInv(s))'
            BY <1>1, <1>3, <1>4, <2>1, <2>2 DEF CountInv, GatewayInv, TermInv
        <2>4. ASSUME NEW r \in Sides \ {s} PROVE (CountInv(r) /\ GatewayInv(r) /\ TermInv(r))'
            BY <1>1, <2>1, OtherSide
        <2>. QED BY <1>2, <2>3, <2>4 DEF ScanInv
    <1>6. ASSUME bus[s] = <<>> PROVE ScanInv'
        <2>1. scan'.side = EndSide(s)[1] /\ scan'.step = EndSide(s)[2] /\ N(s) = 0
            BY <1>1, <1>6, BusTyped DEF ScanInv
        <2>2. ~Before(s)' /\ ~At(s, "dialogue")' /\ ~At(s, "detect")'
            BY <2>1, EndOfSide DEF Before, Sides
        <2>3. (CountInv(s) /\ GatewayInv(s) /\ TermInv(s))'
            BY <1>1, <1>3, <1>4, <2>1, <2>2 DEF CountInv, GatewayInv, TermInv
        <2>4. ASSUME NEW r \in Sides \ {s} PROVE (CountInv(r) /\ GatewayInv(r) /\ TermInv(r))'
            BY <1>1, <2>1, OtherSide
        <2>. QED BY <1>2, <2>3, <2>4 DEF ScanInv
    <1>7. Moves(s)
        BY <1>1 DEF Moves
    <1>. QED BY <1>5, <1>6, <1>7

(* Which address at a side is terminated, changes only for the last found. *)
LEMMA Terminated ==
    ASSUME ScanTypeOK, NEW s \in Sides, NEW on \in BOOLEAN, SetTermination(s, on),
           Found(s) \in 0..N(s), UNCHANGED bus, TermPlaces
    PROVE  /\ TermPlaces'
           /\ \A r \in Sides, k \in Nat \ {0} :
                 (r # s \/ k # Found(s)) =>
                    (Address(r, k) \in term' <=> Address(r, k) \in term)
           /\ Terminable(s) => (Address(s, Found(s)) \in term' <=> on)
           /\ ~Terminable(s) => term' = term
    <1>. USE DEF SetTermination
    <1>1. /\ LastFound(s) = Address(s, Found(s))
          /\ Terminable(s) => Found(s) \in 1..N(s) /\ Found(s) \in Nat \ {0}
        BY LastAddress, BusTyped
    <1>2. TermPlaces'
        <2>1. \A a \in term' : a \in term \/ (Terminable(s) /\ a = Address(s, Found(s)))
            BY <1>1
        <2>. QED BY <1>1, <2>1 DEF TermPlaces, N
    <1>. QED BY <1>1, <1>2, Addresses

LEMMA DetectStep ==
    ASSUME ScanInv, NEW s \in Sides, NEW lost \in BOOLEAN, Detect(s, lost)
    PROVE  ScanInv' /\ Moves(s)
    <1>. USE DEF Detect, At, configVars
    <1>. DEFINE more == scan.told[s] < Len(bus[s])
                to == IF more THEN <<s, "dialogue">> ELSE EndSide(s)
    <1>1. /\ ScanTypeOK /\ TermPlaces /\ CountInv(s) /\ GatewayInv(s) /\ TermInv(s)
          /\ N(s) \in Nat /\ scan.told[s] \in Nat /\ Found(s) \in Int
        BY BusTyped, LastAddress DEF ScanInv, ScanTypeOK, Scans
    <1>2. Found(s) \in 1..N(s)
        BY <1>1 DEF CountInv
    <1>3. /\ scan' \in Scans /\ scan'.side = to[1] /\ scan'.step = to[2]
          /\ scan'.told = scan.told
          /\ scan'.disturbed = IF lost THEN scan.disturbed \cup {s} ELSE scan.disturbed
          /\ scan'.side = "none" <=> scan'.step \in {"adjust", "start", "running"}
        <2>. HIDE DEF more
        <2>1. /\ NextScan(to) \in Scans
              /\ NextScan(to).side = to[1] /\ NextScan(to).step = to[2]
              /\ NextScan(to).told = scan.told /\ NextScan(to).disturbed = scan.disturbed
              /\ NextScan(to).side = "none" <=>
                    NextScan(to).step \in {"adjust", "start", "running"}
            BY <1>1, NextTyped DEF ScanTypeOK
        <2>2. scan' = [NextScan(to) EXCEPT
                           !.disturbed = IF lost THEN @ \cup {s} ELSE @]
            BY DEF more
        <2>. HIDE DEF to
        <2>. DEFINE now == IF lost THEN scan.disturbed \cup {s} ELSE scan.disturbed
        <2>3. now \in SUBSET Sides
            BY <1>1 DEF ScanTypeOK, Scans
        <2>4. scan' = [NextScan(to) EXCEPT !.disturbed = now]
            BY <2>1, <2>2
        <2>. HIDE DEF now
        <2>5. /\ scan' \in Scans /\ scan'.side = to[1] /\ scan'.step = to[2]
              /\ scan'.told = scan.told /\ scan'.disturbed = now
            BY ONLY <2>1, <2>3, <2>4 DEF Scans
        <2>. QED BY <2>1, <2>5 DEF now
    <1>4. /\ TermPlaces'
          /\ \A r \in Sides, k \in Nat \ {0} :
                (r # s \/ k # Found(s)) => (Address(r, k) \in term' <=> Address(r, k) \in term)
          /\ ~lost /\ Terminable(s) => (Address(s, Found(s)) \in term' <=> ~more)
          /\ lost \/ ~Terminable(s) => term' = term
        <2>. HIDE DEF more
        <2>1. CASE lost
            BY <1>1, <2>1 DEF TermPlaces, N
        <2>2. CASE ~lost
            <3>1. SetTermination(s, ~more)
                BY <2>2 DEF more, SetTermination
            <3>2. Found(s) \in 0..N(s)
                BY <1>1, <1>2
            <3>3. (~more) \in BOOLEAN
                OBVIOUS
            <3>. QED BY <1>1, <2>2, <3>1, <3>2, <3>3, Terminated
        <2>. QED BY <2>1, <2>2
    <1>5. ScanTypeOK' /\ BaseInv'
        BY <1>1, <1>3, EndOfSide DEF ScanTypeOK, BaseInv
    <1>6. /\ N(s)' = N(s) /\ EndsInGate(s)' = EndsInGate(s) /\ Found(s)' = Found(s)
          /\ Quiet(s)' => Quiet(s) /\ ~lost
        BY <1>3 DEF N, EndsInGate, Found, Quiet
    <1>7. Quiet(s)' => (Terminable(s) <=> ~(EndsInGate(s) /\ ~more))
        <2>1. Quiet(s)' => Found(s) = scan.told[s]
            BY <1>1, <1>6 DEF CountInv
        <2>2. Terminable(s) <=> s \notin gateway
            BY <1>1, <1>2, LastAddress
        <2>. QED BY <1>1, <1>2, <2>1, <2>2 DEF GatewayInv, N
    <1>8. Quiet(s)' => Found(s) = scan.told[s]
        BY <1>1, <1>6 DEF CountInv
    <1>9. (\A k \in 1..(Found(s) - 1) : Address(s, k) \notin term') \/ ~Quiet(s)'
        <2>1. Quiet(s)' => \A k \in 1..(Found(s) - 1) : Address(s, k) \notin term
            BY <1>1, <1>2, <1>6 DEF TermInv
        <2>. QED BY <1>2, <1>4, <2>1
    <1>10. EndsInGate(s) => Address(s, N(s)) \notin term'
        <2>1. CASE N(s) # Found(s)
            BY <1>1, <1>4, <2>1 DEF TermInv, EndsInGate
        <2>2. CASE N(s) = Found(s)
            BY <1>1, <1>2, <1>4, <2>2, LastAddress DEF TermInv, GatewayInv
        <2>. QED BY <2>1, <2>2
    <1>11. ASSUME NEW r \in Sides \ {s} PROVE (CountInv(r) /\ GatewayInv(r) /\ TermInv(r))'
        <2>1. \A k \in 1..N(r) : Address(r, k) \in term' <=> Address(r, k) \in term
            BY <1>4
        <2>2. scan'.side = s \/ (scan'.side = EndSide(s)[1] /\ scan'.step = EndSide(s)[2])
            BY <1>3
        <2>. QED BY <1>3, <2>1, <2>2, OtherSide
    <1>12. ASSUME more PROVE ScanInv'
        <2>1. scan'.side = s /\ scan'.step = "dialogue" /\ ~Before(s)' /\ ~After(s)'
            BY <1>3, <1>12 DEF Before, After, Sides
        <2>2. CountInv(s)' /\ GatewayInv(s)'
            BY <1>1, <1>2, <1>3, <1>6, <1>8, <1>12, <2>1 DEF CountInv, GatewayInv, N
        <2>3. TermInv(s)'
            <3>1. Quiet(s)' => Address(s, Found(s)) \notin term'
                BY <1>4, <1>6, <1>7, <1>12
            <3>2. Quiet(s)' => \A k \in 1..Found(s) : Address(s, k) \notin term'
                BY <1>2, <1>9, <3>1
            <3>. QED BY <1>6, <1>10, <2>1, <3>2 DEF TermInv
        <2>. QED BY <1>4, <1>5, <1>11, <2>2, <2>3 DEF ScanInv
    <1>13. ASSUME ~more PROVE ScanInv'
        <2>1. /\ scan'.side = EndSide(s)[1] /\ scan'.step = EndSide(s)[2]
              /\ ~Before(s)' /\ ~At(s, "dialogue")' /\ ~At(s, "detect")'
            BY <1>3, <1>13, EndOfSide DEF Before, Sides
        <2>2. scan.told[s] = N(s)
            BY <1>1, <1>13 DEF CountInv, N
        <2>3. CountInv(s)' /\ GatewayInv(s)'
            BY <1>1, <1>2, <1>3, <1>6, <1>8, <2>1, <2>2 DEF CountInv, GatewayInv
        <2>4. TermInv(s)'
            <3>1. Quiet(s)' => Found(s) = N(s)
                BY <1>8, <2>2
            <3>2. Quiet(s)' => (Address(s, N(s)) \in term' <=> ~EndsInGate(s))
                BY <1>4, <1>6, <1>7, <1>10, <1>13, <3>1
            <3>3. Quiet(s)' => \A k \in 1..N(s) :
                      (Address(s, k) \in term') <=> k = N(s) /\ ~EndsInGate(s)
                BY <1>2, <1>9, <3>1, <3>2
            <3>. QED BY <1>6, <1>10, <2>1, <3>3 DEF TermInv
        <2>. QED BY <1>4, <1>5, <1>11, <2>3, <2>4 DEF ScanInv
    <1>14. Moves(s)
        BY <1>3 DEF Moves
    <1>. QED BY <1>12, <1>13, <1>14

LEMMA FoundStep ==
    ASSUME ScanInv, NEW s \in Sides, Dialogue(s, "found")
    PROVE  ScanInv' /\ scan'.side = s /\ scan'.told = [scan.told EXCEPT ![s] = @ + 1]
    <1>. USE DEF Dialogue, At, configVars
    <1>1. /\ ScanTypeOK /\ TermPlaces /\ CountInv(s) /\ GatewayInv(s) /\ TermInv(s)
          /\ N(s) \in Nat /\ scan.told[s] \in Nat /\ Found(s) \in Int
          /\ scan \in Scans /\ scan.told[s] < N(s)
        BY BusTyped, LastAddress DEF ScanInv, ScanTypeOK, Scans, Answers, N
    <1>2. /\ scan' \in Scans /\ scan'.side = s /\ scan'.step = "detect"
          /\ scan'.told = [scan.told EXCEPT ![s] = @ + 1] /\ scan'.disturbed = scan.disturbed
        <2>1. [scan.told EXCEPT ![s] = @ + 1] \in [Sides -> Nat]
            BY <1>1 DEF Scans
        <2>2. scan' = [scan EXCEPT !.told = [scan.told EXCEPT ![s] = @ + 1], !.step = "detect"]
            BY <1>1 DEF Scans
        <2>. QED BY <1>1, <2>1, <2>2 DEF Scans
    <1>3. scan'.told[s] = scan.told[s] + 1
        BY <1>1, <1>2 DEF Scans
    <1>4. /\ nextAddr' \in [Sides -> Int] /\ Found(s)' = Found(s) + 1
          /\ \A r \in Sides \ {s} : nextAddr'[r] = nextAddr[r]
        BY <1>1 DEF ScanTypeOK, Found, Outward, Sides, FirstRight
    <1>5. gateway' \in SUBSET Sides
        BY <1>1 DEF ScanTypeOK
    <1>6. ScanTypeOK' /\ TermPlaces' /\ BaseInv'
        BY <1>1, <1>2, <1>4, <1>5 DEF ScanTypeOK, TermPlaces, BaseInv, N, Sides
    <1>7. /\ N(s)' = N(s) /\ EndsInGate(s)' = EndsInGate(s) /\ (Quiet(s)' <=> Quiet(s))
          /\ ~Before(s)' /\ ~After(s)'
        BY <1>2 DEF N, EndsInGate, Quiet, Before, After, Sides
    <1>8. CountInv(s)'
        BY <1>1, <1>2, <1>3, <1>4, <1>7 DEF CountInv
    <1>9. GatewayInv(s)'
        <2>1. s \notin gateway
            BY <1>1 DEF GatewayInv
        <2>2. s \in gateway' <=> Module[NextModule(s)].gate
            BY <2>1
        <2>3. NextModule(s) = bus[s][scan.told[s] + 1]
            BY DEF NextModule
        <2>4. s \in gateway' => scan.told[s] + 1 = N(s) /\ EndsInGate(s)
            <3>1. \A k \in 1..(N(s) - 1) : ~Module[bus[s][k]].gate
                BY <1>1, BusTyped
            <3>2. scan.told[s] + 1 \in 1..(N(s) - 1) \/ scan.told[s] + 1 = N(s)
                BY <1>1
            <3>. QED BY <1>1, <2>2, <2>3, <3>1, <3>2 DEF EndsInGate
        <2>5. EndsInGate(s) /\ Found(s) + 1 = N(s) => s \in gateway'
            BY <1>1, <2>2, <2>3 DEF CountInv, EndsInGate
        <2>. QED BY <1>3, <1>4, <1>7, <2>4, <2>5 DEF GatewayInv
    <1>10. TermInv(s)'
        <2>1. Quiet(s) => \A k \in 1..(Found(s) + 1) : Address(s, k) \in term => k = Found(s) + 1
            BY <1>1 DEF TermInv
        <2>. QED BY <1>1, <1>2, <1>4, <1>7, <2>1 DEF TermInv
    <1>11. ASSUME NEW r \in Sides \ {s} PROVE (CountInv(r) /\ GatewayInv(r) /\ TermInv(r))'
        <2>1. scan'.told[r] = scan.told[r]
            BY <1>1, <1>2 DEF Scans
        <2>. QED BY <1>2, <1>4, <2>1, OtherSide
    <1>. QED BY <1>2, <1>6, <1>8, <1>9, <1>10, <1>11 DEF ScanInv

LEMMA NotFoundStep ==
    ASSUME ScanInv, NEW s \in Sides, NEW answer \in {"lost", "repeated"}, Dialogue(s, answer)
    PROVE  ScanInv' /\ Moves(s)
    <1>. USE TableAssumption DEF Dialogue, At, configVars
    <1>. DEFINE retry == scan.errors < MaxErrors
                base == IF retry THEN [scan EXCEPT !.errors = @ + 1] ELSE NextScan(EndSide(s))
                told == IF answer = "repeated" THEN [scan.told EXCEPT ![s] = @ + 1] ELSE scan.told
                disturbed == IF answer = "repeated" \/ scan.errors = MaxErrors
                             THEN scan.disturbed \cup {s} ELSE scan.disturbed
    <1>1. /\ ScanTypeOK /\ TermPlaces /\ CountInv(s) /\ GatewayInv(s) /\ TermInv(s)
          /\ N(s) \in Nat /\ scan.told[s] \in Nat /\ Found(s) \in Int
          /\ scan \in Scans /\ (answer = "repeated" => scan.told[s] < N(s))
        BY BusTyped, LastAddress DEF ScanInv, ScanTypeOK, Scans, Answers, N
    <1>2. /\ base \in Scans /\ base.told = scan.told /\ base.disturbed = scan.disturbed
          /\ \/ retry /\ base.side = s /\ base.step = "dialogue"
             \/ ~retry /\ base.side = EndSide(s)[1] /\ base.step = EndSide(s)[2]
          /\ base.side = "none" <=> base.step \in {"adjust", "start", "running"}
        <2>1. CASE retry
            <3>1. scan.errors + 1 \in 0..MaxErrors
                BY <1>1, <2>1 DEF Scans
            <3>. QED BY <1>1, <2>1, <3>1 DEF Scans, Sides
        <2>2. CASE ~retry
            BY <1>1, <2>2, NextTyped
        <2>. QED BY <2>1, <2>2
    <1>3. told \in [Sides -> Nat] /\ disturbed \in SUBSET Sides
        BY <1>1 DEF Scans
    <1>4. /\ scan' = [base EXCEPT !.told = told, !.disturbed = disturbed]
        <2>1. scan' = [base EXCEPT !.told[s] = IF answer = "repeated" THEN @ + 1 ELSE @,
                                   !.disturbed = disturbed]
            BY <1>2
        <2>2. CASE answer = "repeated"
            BY <1>2, <2>1, <2>2 DEF Scans
        <2>3. CASE answer = "lost"
            <3>1. [scan.told EXCEPT ![s] = scan.told[s]] = scan.told
                BY <1>1 DEF Scans
            <3>. QED BY <1>2, <2>1, <2>3, <3>1 DEF Scans
        <2>. QED BY <2>2, <2>3
    <1>5. /\ scan' \in Scans /\ scan'.side = base.side /\ scan'.step = base.step
          /\ scan'.told = told /\ scan'.disturbed = disturbed
        <2>. HIDE DEF base, told, disturbed
        <2>. QED BY <1>2, <1>3, <1>4 DEF Scans
    <1>6. UNCHANGED <<bus, nextAddr, gateway, term, baseTerm>>
        OBVIOUS
    <1>7. ScanTypeOK' /\ TermPlaces' /\ BaseInv'
        <2>. HIDE DEF base, told, disturbed
        <2>. QED BY <1>1, <1>2, <1>5, <1>6, EndOfSide DEF ScanTypeOK, TermPlaces, BaseInv, N
    <1>8. /\ N(s)' = N(s) /\ EndsInGate(s)' = EndsInGate(s) /\ Found(s)' = Found(s)
          /\ Quiet(s)' => Quiet(s) /\ answer = "lost" /\ retry
        BY <1>1, <1>5, <1>6 DEF N, EndsInGate, Found, Quiet, Scans
    <1>9. ~Before(s)' /\ ~At(s, "detect")' /\ (After(s)' => ~retry)
        BY <1>2, <1>5, EndOfSide DEF Before, After, Sides
    <1>10. CountInv(s)'
        <2>1. /\ scan'.told[s] = IF answer = "repeated" THEN scan.told[s] + 1 ELSE scan.told[s]
            BY <1>1, <1>5 DEF Scans
        <2>. HIDE DEF base, told, disturbed
        <2>. QED BY <1>1, <1>8, <1>9, <2>1 DEF CountInv
    <1>11. GatewayInv(s)'
        <2>1. /\ scan'.told[s] = IF answer = "repeated" THEN scan.told[s] + 1 ELSE scan.told[s]
            BY <1>1, <1>5 DEF Scans
        <2>. HIDE DEF base, told, disturbed
        <2>. QED BY <1>1, <1>6, <1>8, <2>1 DEF GatewayInv
    <1>12. TermInv(s)'
        BY <1>1, <1>6, <1>8, <1>9 DEF TermInv
    <1>13. ASSUME NEW r \in Sides \ {s} PROVE (CountInv(r) /\ GatewayInv(r) /\ TermInv(r))'
        <2>1. scan'.told[r] = scan.told[r] /\ (r \in scan'.disturbed <=> r \in scan.disturbed)
            BY <1>1, <1>5 DEF Scans
        <2>. HIDE DEF base, told, disturbed
        <2>. QED BY <1>2, <1>5, <1>6, <2>1, OtherSide
    <1>14. Moves(s)
        <2>1. scan'.side \in {s, EndSide(s)[1]}
            BY <1>2, <1>5
        <2>2. scan'.told = told
            BY <1>5
        <2>. QED BY <1>1, <2>1, <2>2 DEF Moves, Scans
    <1>. QED BY <1>7, <1>10, <1>11, <1>12, <1>13, <1>14 DEF ScanInv

-----------------------------------------------------------------------------
(* From the start of the driver on.                                        *)
LEMMA InitStep == ASSUME Init, machine = "core" PROVE ScanInv
    <1>. USE DEF Init
    <1>1. /\ bus \in Buses /\ scan = FirstScan(MaxRetries)
          /\ nextAddr = FirstAddress /\ gateway = {} /\ term \in SUBSET Modules(bus)
        OBVIOUS
    <1>2. /\ scan \in Scans
          /\ scan.side = "right" /\ scan.step = "look"
          /\ scan.disturbed = {} /\ \A s \in Sides : scan.told[s] = 0
        BY <1>1, NoErrors, TableAssumption DEF FirstScan, Scans, Sides
    <1>3. nextAddr \in [Sides -> Int] /\ \A s \in Sides : Found(s) = 0
        BY <1>1 DEF FirstAddress, FirstRight, Found, Sides
    <1>4. ScanTypeOK
        BY <1>1, <1>2, <1>3 DEF ScanTypeOK
    <1>5. ASSUME NEW s \in Sides PROVE CountInv(s) /\ GatewayInv(s) /\ TermInv(s)
        <2>1. N(s) \in Nat
            BY <1>4, BusTyped
        <2>2. CountInv(s)
            BY <1>1, <1>2, <1>3, <2>1 DEF CountInv, Quiet, After, At
        <2>3. GatewayInv(s)
            BY <1>1, <1>3, <2>1 DEF GatewayInv, EndsInGate
        <2>4. TermInv(s)
            BY <1>1, <1>2, OldTermination DEF TermInv, After, At, EndsInGate, N
        <2>. QED BY <2>2, <2>3, <2>4
    <1>6. TermPlaces
        BY <1>1, OldTermination DEF TermPlaces, N
    <1>7. BaseInv
        BY <1>2 DEF BaseInv
    <1>. QED BY <1>4, <1>5, <1>6, <1>7 DEF ScanInv

LEMMA NextStep == ASSUME IndInv, Next, machine' = "core" PROVE ScanInv'
    <1>1. CASE Reset
        <2>1. machine = "core"
            BY <1>1 DEF Reset, ResetCore, ResetStandalone
        <2>2. PICK f \in Files, b \in Buses : ResetCore(f, b)
            BY <1>1, <2>1 DEF Reset, ResetStandalone
        <2>. QED BY <2>1, <2>2, ResetCoreStep DEF IndInv
    <1>2. CASE Scan
        <2>1. machine = "core"
            BY <1>2 DEF Scan, Look, Dialogue, Detect
        <2>2. PICK s \in Sides : \/ Look(s)
                                 \/ Dialogue(s, "found")
                                 \/ \E a \in {"lost", "repeated"} : Dialogue(s, a)
                                 \/ \E lost \in BOOLEAN : Detect(s, lost)
            BY <1>2 DEF Scan
        <2>. QED BY <2>1, <2>2, LookStep, FoundStep, NotFoundStep, DetectStep DEF IndInv
    <1>3. CASE Start
        <2>1. CASE EndOfConfig
            <3>1. machine = "core"
                BY <2>1 DEF EndOfConfig
            <3>. QED BY <2>1, <3>1, EndOfConfigStep DEF IndInv
        <2>2. CASE SetRunning
            <3>1. machine = "core"
                BY <2>2 DEF SetRunning
            <3>. QED BY <2>2, <3>1, SetRunningStep DEF IndInv
        <2>3. CASE InitAgain
            <3>1. machine = "core"
                BY <2>3 DEF InitAgain
            <3>. QED BY <2>3, <3>1, InitAgainStep DEF IndInv
        <2>4. CASE \E s \in Sides, t \in DOMAIN Module : FindGate(s, t)
            <3>1. UNCHANGED <<machine, bus, scan, nextAddr, gateway, term, baseTerm>>
                BY <2>4 DEF FindGate, configVars, busVars
            <3>. QED BY <3>1, SameScan DEF IndInv
        <2>. QED BY <1>3, <2>1, <2>2, <2>3, <2>4 DEF Start
    <1>4. CASE Use
        <2>1. UNCHANGED tableVars
            BY <1>4 DEF Use, Application, Input, BaseInput
        <2>. QED BY <2>1, SameScan DEF IndInv, tableVars, configVars, busVars
    <1>. QED BY <1>1, <1>2, <1>3, <1>4 DEF Next

-----------------------------------------------------------------------------
(* While the bus of a core is scanned, and afterwards, a side knows how    *)
(* many modules it has, and none but the outermost of those found is       *)
(* terminated where no telegram was lost.                                  *)
THEOREM Invariance == Spec => []IndInv
    <1>1. Init => IndInv
        BY InitStep DEF IndInv
    <1>2. IndInv /\ [Next]_vars => IndInv'
        <2>1. IndInv /\ Next => IndInv'
            BY NextStep DEF IndInv
        <2>2. IndInv /\ UNCHANGED vars => IndInv'
            BY SameScan DEF IndInv, vars, tableVars, configVars, busVars
        <2>. QED BY <2>1, <2>2
    <1>. QED BY <1>1, <1>2, PTL DEF Spec

(* Once the bridge runs, the outermost module of a side whose scan lost no *)
(* telegram terminates the bus unless it is a gateway, no other does,      *)
(* whichever modules did before the scan; and the base does if a side is   *)
(* empty and the base has the GPIO for it.                                 *)
THEOREM OutermostTerminates == Spec => []BusTerminated
    <1>1. IndInv => BusTerminated
        <2>. SUFFICES ASSUME IndInv, scan.step = "running", machine = "core"
                      PROVE  BusTerminated
            BY DEF BusTerminated
        <2>1. ScanInv
            BY DEF IndInv
        <2>2. ASSUME NEW s \in Sides \ scan.disturbed
              PROVE  LET n == Len(bus[s])
                         outermost == FirstAddress[s] + Outward[s] * (n - 1)
                     IN  {a \in term : SideOf(a) = s} =
                             IF n = 0 \/ Module[bus[s][n]].gate THEN {} ELSE {outermost}
            <3>1. N(s) \in Nat
                BY <2>1, BusTyped DEF ScanInv
            <3>2. FirstAddress[s] + Outward[s] * (N(s) - 1) = Address(s, N(s))
                BY <3>1 DEF FirstAddress, Outward, Address, Sides, FirstRight
            <3>3. \A k \in 1..N(s) : (Address(s, k) \in term) <=> k = N(s) /\ ~EndsInGate(s)
                BY <2>1 DEF ScanInv, ScanTypeOK, TermInv, After, Quiet
            <3>4. \A a : a \in term /\ SideOf(a) = s => a = Address(s, N(s)) /\ ~EndsInGate(s)
                             /\ N(s) > 0
                <4>. SUFFICES ASSUME NEW a \in term, SideOf(a) = s
                              PROVE  a = Address(s, N(s)) /\ ~EndsInGate(s) /\ N(s) > 0
                    OBVIOUS
                <4>1. PICK r \in Sides : \E k \in 1..N(r) : a = Address(r, k)
                    BY <2>1 DEF ScanInv, TermPlaces
                <4>2. PICK k \in 1..N(r) : a = Address(r, k)
                    BY <4>1
                <4>3. N(r) \in Nat
                    BY <2>1, BusTyped DEF ScanInv
                <4>4. k \in Nat \ {0}
                    BY <4>3
                <4>5. r = s
                    BY <4>2, <4>4, Addresses
                <4>. QED BY <3>1, <3>3, <4>2, <4>5
            <3>5. ~EndsInGate(s) /\ N(s) > 0 =>
                      Address(s, N(s)) \in term /\ SideOf(Address(s, N(s))) = s
                <4>1. N(s) > 0 => N(s) \in 1..N(s) /\ N(s) \in Nat \ {0}
                    BY <3>1
                <4>. QED BY <3>3, <4>1, Addresses
            <3>6. {a \in term : SideOf(a) = s} =
                      IF N(s) = 0 \/ EndsInGate(s) THEN {} ELSE {Address(s, N(s))}
                <4>1. CASE N(s) = 0 \/ EndsInGate(s)
                    BY <3>4, <4>1
                <4>2. CASE ~(N(s) = 0 \/ EndsInGate(s))
                    <5>1. N(s) > 0
                        BY <3>1, <4>2
                    <5>. QED BY <3>4, <3>5, <4>2, <5>1
                <4>. QED BY <4>1, <4>2
            <3>7. N(s) = 0 \/ EndsInGate(s) <=> N(s) = 0 \/ Module[bus[s][Len(bus[s])]].gate
                BY <3>1 DEF EndsInGate, N
            <3>. QED BY <3>2, <3>6, <3>7 DEF N
        <2>3. BaseTerminable /\ (\E s \in Sides : bus[s] = <<>>) => baseTerm
            BY <2>1 DEF ScanInv, BaseInv
        <2>. QED BY <2>2, <2>3 DEF BusTerminated
    <1>. QED BY <1>1, Invariance, PTL

-----------------------------------------------------------------------------
(* The device table: its entries, and where they lie.                      *)
Entries == [address: Nat, type: DOMAIN Module, connected: BOOLEAN, active: BOOLEAN,
            scanned: BOOLEAN, in: Nat, out: Nat, inLen: Nat, outLen: Nat]
Tables == {t \in Seq(Entries) : Len(t) \in 1..MaxDev}
EndOf(t) == t[Len(t)].out + t[Len(t)].outLen

(* The modules of a scan: one behind the other, each with its own address. *)
ChainInv(t) ==
    /\ \A j \in DOMAIN t : t[j].connected /\ t[j].in + t[j].inLen = t[j].out
    /\ \A j, k \in DOMAIN t :
          j < k => t[j].out + t[j].outLen <= t[k].in /\ t[j].address # t[k].address
    /\ EndOf(t) <= KB_PI_LEN
OrderInv ==
    /\ table[1].address = 0
    /\ \A j \in DOMAIN table \ {1} : \E s \in Sides : \E k \in 1..Found(s) :
          table[j].address = Address(s, k)

(* They are within the room that there is for the modules told so far.     *)
Ends(b) == CHOOSE ends :
    /\ ends["left"] \in [0..Len(b["left"]) -> 0..KB_PI_LEN]
    /\ ends["right"] \in [0..Len(b["right"]) -> 0..KB_PI_LEN]
    /\ Fits(b, ends)
ReachedInv == scan.side # "none" => EndOf(table) <= Ends(bus)[scan.side][scan.told[scan.side]]

(* After the comparison: what takes part, or may do so once a gateway is   *)
(* found, is where the file has it.                                        *)
Live(t) == {j \in DOMAIN t : t[j].active \/ ~t[j].connected}
SamePlace(e, dev) ==
    /\ e.address = dev.address
    /\ e.in = dev.in /\ e.inLen = dev.inLen /\ e.out = dev.out /\ e.outLen = dev.outLen
PlacedInv(t, devs) ==
    /\ \A j \in Live(t) : \E d \in DOMAIN devs : SamePlace(t[j], devs[d])
    /\ \A j, k \in Live(t) : j # k => t[j].address # t[k].address

Scanning == scan.step \in {"look", "dialogue", "detect", "adjust"}
TableInv ==
    /\ file \in Files /\ conf = Parse(file)
    /\ machine = "compact" => scan.step = "running"
    /\ machine # "flat" =>
          /\ table \in Tables
          /\ Scanning => ChainInv(table) /\ OrderInv /\ ReachedInv
          /\ ChainInv(table) \/ PlacedInv(table, conf.devs)

-----------------------------------------------------------------------------
(* Counting in a finite set of numbers.                                    *)
LEMMA NthElement ==
    ASSUME NEW S \in SUBSET Nat, IsFiniteSet(S), NEW k \in 1..Cardinality(S)
    PROVE  Nth(S, k) \in S /\ Cardinality({m \in S : m <= Nth(S, k)}) = k
    <1>. DEFINE UpTo(n) == {m \in S : m <= n}
                rank == [n \in S |-> Cardinality(UpTo(n))]
                C == Cardinality(S)
    <1>1. C \in Nat
        BY FS_CardinalityType
    <1>2. ASSUME NEW n \in S
          PROVE  IsFiniteSet(UpTo(n)) /\ Cardinality(UpTo(n)) \in 1..C
        <2>1. UpTo(n) \subseteq S /\ UpTo(n) # {}
            OBVIOUS
        <2>2. IsFiniteSet(UpTo(n)) /\ Cardinality(UpTo(n)) <= C
            BY <2>1, FS_Subset
        <2>3. Cardinality(UpTo(n)) \in Nat /\ Cardinality(UpTo(n)) # 0
            BY <2>1, <2>2, FS_CardinalityType, FS_EmptySet
        <2>. QED BY <1>1, <2>2, <2>3
    <1>3. ASSUME NEW m \in S, NEW n \in S, m < n
          PROVE  Cardinality(UpTo(m)) # Cardinality(UpTo(n))
        <2>1. UpTo(m) \subseteq UpTo(n) /\ n \in UpTo(n) /\ n \notin UpTo(m)
            <3>1. m \in Nat /\ n \in Nat /\ \A x \in S : x \in Nat
                OBVIOUS
            <3>2. \A x \in S : x <= m => x <= n
                BY <1>3, <3>1
            <3>3. ~(n <= m) /\ n <= n
                BY <1>3, <3>1
            <3>. QED BY <3>2, <3>3
        <2>2. UpTo(m) # UpTo(n) /\ IsFiniteSet(UpTo(n))
            BY <1>2, <2>1
        <2>. QED BY <2>1, <2>2, FS_Subset
    <1>4. rank \in Injection(S, 1..C)
        <2>1. rank \in [S -> 1..C]
            BY <1>2
        <2>2. ASSUME NEW m \in S, NEW n \in S, rank[m] = rank[n] PROVE m = n
            BY <1>3, <2>2
        <2>. QED BY <2>1, <2>2 DEF Injection, IsInjective
    <1>5. IsFiniteSet(1..C) /\ Cardinality(1..C) = C
        BY <1>1, FS_Interval
    <1>6. rank \in Surjection(S, 1..C)
        BY <1>4, <1>5, FS_Injection
    <1>7. PICK n \in S : rank[n] = k
        BY <1>6 DEF Surjection
    <1>. QED BY <1>7 DEF Nth

LEMMA MinElement ==
    ASSUME NEW S \in SUBSET Nat, IsFiniteSet(S), S # {}
    PROVE  Min(S) \in S /\ \A n \in S : Min(S) <= n
    <1>1. Cardinality(S) \in Nat /\ Cardinality(S) # 0
        BY FS_CardinalityType, FS_EmptySet
    <1>. DEFINE n == Nth(S, 1)
                UpTo == {m \in S : m <= n}
    <1>2. n \in S /\ Cardinality(UpTo) = 1
        BY <1>1, NthElement
    <1>3. {n} \subseteq UpTo /\ IsFiniteSet(UpTo) /\ Cardinality({n}) = 1
        <2>1. n \in Nat
            BY <1>2
        <2>2. n \in UpTo
            BY <1>2, <2>1
        <2>3. UpTo \subseteq S
            OBVIOUS
        <2>. QED BY <2>2, <2>3, FS_Subset, FS_Singleton
    <1>4. UpTo = {n}
        BY <1>2, <1>3, FS_Subset
    <1>5. \A y \in S : n <= y
        <2>. SUFFICES ASSUME NEW y \in S, ~(n <= y) PROVE FALSE
            OBVIOUS
        <2>1. n \in Nat /\ y \in Nat
            BY <1>2
        <2>2. y <= n /\ y # n
            BY <2>1
        <2>. QED BY <1>4, <2>2
    <1>. QED BY <1>2, <1>5 DEF Min

-----------------------------------------------------------------------------
(* Which bytes belong to an entry.                                         *)
LEMMA BytesIn ==
    ASSUME NEW x, NEW first \in Nat, NEW len \in Nat, x \in BitsFrom(first, 0, 8 * len)
    PROVE  x \in Nat /\ 8 * first <= x /\ x < 8 * (first + len)
    BY DEF BitsFrom

LEMMA EntryBytes ==
    ASSUME NEW e \in Entries, NEW x \in Bytes(e)
    PROVE  /\ x \in Nat
           /\ \/ 8 * e.in <= x /\ x < 8 * (e.in + e.inLen)
              \/ 8 * e.out <= x /\ x < 8 * (e.out + e.outLen)
    <1>1. e.in \in Nat /\ e.inLen \in Nat /\ e.out \in Nat /\ e.outLen \in Nat
        BY DEF Entries
    <1>2. x \in BitsFrom(e.in, 0, 8 * e.inLen) \/ x \in BitsFrom(e.out, 0, 8 * e.outLen)
        BY DEF Bytes
    <1>. QED BY <1>1, <1>2, BytesIn

LEMMA TableTyped ==
    ASSUME NEW t \in Tables
    PROVE  /\ t \in Seq(Entries) /\ DOMAIN t = 1..Len(t) /\ Len(t) \in Nat \ {0}
           /\ 1 \in DOMAIN t /\ Len(t) \in DOMAIN t
           /\ \A j \in DOMAIN t : t[j] \in Entries
           /\ EndOf(t) \in Nat
    <1>1. t \in Seq(Entries) /\ Len(t) \in Nat \ {0} /\ DOMAIN t = 1..Len(t)
        BY TableAssumption DEF Tables
    <1>2. \A j \in DOMAIN t : t[j] \in Entries
        BY <1>1
    <1>3. 1 \in DOMAIN t /\ Len(t) \in DOMAIN t
        BY <1>1
    <1>4. EndOf(t) \in Nat
        <2>1. t[Len(t)].out \in Nat /\ t[Len(t)].outLen \in Nat
            BY <1>2, <1>3 DEF Entries
        <2>. QED BY <2>1 DEF EndOf
    <1>. QED BY <1>1, <1>2, <1>3, <1>4

(* In a chain an entry lies between its first input and its last output,   *)
(* and so do all entries between those of the first and the last.          *)
LEMMA ChainSound ==
    ASSUME NEW t \in Tables, ChainInv(t)
    PROVE  /\ \A j, k \in DOMAIN t : j # k =>
                  t[j].address # t[k].address /\ Bytes(t[j]) \cap Bytes(t[k]) = {}
           /\ \A j \in DOMAIN t : Bytes(t[j]) \subseteq 0..(8 * KB_PI_LEN - 1)
    <1>1. ASSUME NEW j \in DOMAIN t
          PROVE  /\ t[j].in \in Nat /\ t[j].inLen \in Nat /\ t[j].out \in Nat /\ t[j].outLen \in Nat
                 /\ t[j].in + t[j].inLen = t[j].out
        BY TableTyped DEF Entries, ChainInv
    <1>2. ASSUME NEW j \in DOMAIN t, NEW x \in Bytes(t[j])
          PROVE  x \in Nat /\ 8 * t[j].in <= x /\ x < 8 * (t[j].out + t[j].outLen)
        <2>1. /\ x \in Nat
              /\ \/ 8 * t[j].in <= x /\ x < 8 * (t[j].in + t[j].inLen)
                 \/ 8 * t[j].out <= x /\ x < 8 * (t[j].out + t[j].outLen)
            BY TableTyped, EntryBytes
        <2>. QED BY <1>1, <2>1
    <1>3. ASSUME NEW j \in DOMAIN t, NEW k \in DOMAIN t, j < k
          PROVE  t[j].address # t[k].address /\ Bytes(t[j]) \cap Bytes(t[k]) = {}
        <2>1. t[j].out + t[j].outLen <= t[k].in /\ t[j].address # t[k].address
            BY <1>3 DEF ChainInv
        <2>2. ASSUME NEW x \in Bytes(t[j]), x \in Bytes(t[k]) PROVE FALSE
            <3>1. x \in Nat /\ x < 8 * (t[j].out + t[j].outLen) /\ 8 * t[k].in <= x
                BY <1>2, <2>2
            <3>. QED BY <1>1, <2>1, <3>1
        <2>. QED BY <2>1, <2>2
    <1>4. ASSUME NEW j \in DOMAIN t, NEW k \in DOMAIN t, j # k PROVE j < k \/ k < j
        <2>1. j \in Nat /\ k \in Nat
            BY TableTyped
        <2>. QED BY <1>4, <2>1
    <1>5. ASSUME NEW j \in DOMAIN t PROVE Bytes(t[j]) \subseteq 0..(8 * KB_PI_LEN - 1)
        <2>1. t[j].out + t[j].outLen <= KB_PI_LEN
            <3>1. EndOf(t) <= KB_PI_LEN /\ Len(t) \in DOMAIN t /\ KB_PI_LEN \in Nat
                BY TableTyped, ImageAssumption DEF ChainInv
            <3>2. CASE j = Len(t)
                BY <3>1, <3>2 DEF EndOf
            <3>3. CASE j # Len(t)
                <4>1. j < Len(t)
                    BY <3>3, TableTyped
                <4>2. t[j].out + t[j].outLen <= t[Len(t)].in
                    BY <3>1, <4>1 DEF ChainInv
                <4>. QED BY <1>1, <3>1, <4>2 DEF EndOf
            <3>. QED BY <3>2, <3>3
        <2>2. ASSUME NEW x \in Bytes(t[j]) PROVE x \in 0..(8 * KB_PI_LEN - 1)
            BY <1>1, <1>2, <2>1, ImageAssumption
        <2>. QED BY <2>2
    <1>6. ASSUME NEW j \in DOMAIN t, NEW k \in DOMAIN t, j # k
          PROVE  t[j].address # t[k].address /\ Bytes(t[j]) \cap Bytes(t[k]) = {}
        <2>1. CASE j < k
            BY <1>3, <2>1
        <2>2. CASE k < j
            BY <1>3, <2>2
        <2>. QED BY <1>4, <1>6, <2>1, <2>2
    <1>. QED BY <1>5, <1>6

(* Entries where the file has them do not overlap either.                  *)
LEMMA PlacedSound ==
    ASSUME NEW t, NEW f \in Files, PlacedInv(t, Parse(f).devs)
    PROVE  /\ \A j, k \in Live(t) : j # k =>
                  t[j].address # t[k].address /\ Bytes(t[j]) \cap Bytes(t[k]) = {}
           /\ \A j \in Live(t) : Bytes(t[j]) \subseteq 0..(8 * KB_PI_LEN - 1)
    <1>. DEFINE devs == Parse(f).devs
    <1>1. \A d \in DOMAIN devs :
              /\ Bytes(devs[d]) \subseteq 0..(8 * KB_PI_LEN - 1)
              /\ \A c \in DOMAIN devs \ {d} : Bytes(devs[c]) \cap Bytes(devs[d]) = {}
        BY FileAssumption
    <1>2. PlacedInv(t, devs)
        OBVIOUS
    <1>. HIDE DEF devs
    <1>3. ASSUME NEW j \in Live(t)
          PROVE  \E d \in DOMAIN devs : /\ t[j].address = devs[d].address
                                        /\ Bytes(t[j]) = Bytes(devs[d])
        BY <1>2 DEF PlacedInv, SamePlace, Bytes
    <1>4. ASSUME NEW j \in Live(t), NEW k \in Live(t), j # k
          PROVE  t[j].address # t[k].address /\ Bytes(t[j]) \cap Bytes(t[k]) = {}
        <2>1. t[j].address # t[k].address
            BY <1>2, <1>4 DEF PlacedInv
        <2>2. PICK c \in DOMAIN devs : t[j].address = devs[c].address /\ Bytes(t[j]) = Bytes(devs[c])
            BY <1>3
        <2>3. PICK d \in DOMAIN devs : t[k].address = devs[d].address /\ Bytes(t[k]) = Bytes(devs[d])
            BY <1>3
        <2>. QED BY <1>1, <2>1, <2>2, <2>3
    <1>. QED BY <1>1, <1>3, <1>4

-----------------------------------------------------------------------------
(* The table with only the base in it, and the room for the modules.       *)
LEMMA BaseOnly ==
    /\ BaseTable \in Tables /\ Len(BaseTable) = 1 /\ BaseTable[1].address = 0
    /\ EndOf(BaseTable) = Size(Base)
    /\ ChainInv(BaseTable)
    <1>1. Module[Base].in \in Nat /\ Module[Base].out \in Nat /\ 0 \in Nat
        BY TableAssumption, RoomAssumption
    <1>2. BaseTable[1] \in Entries
        BY <1>1, TableAssumption DEF BaseTable, Entry, Entries
    <1>3. /\ Len(BaseTable) = 1 /\ BaseTable[1].address = 0 /\ DOMAIN BaseTable = {1}
          /\ EndOf(BaseTable) = Size(Base)
          /\ BaseTable[1].connected /\ BaseTable[1].in + BaseTable[1].inLen = BaseTable[1].out
        BY <1>1 DEF BaseTable, Entry, EndOf, Size
    <1>4. BaseTable \in Seq(Entries)
        BY <1>2, <1>3 DEF BaseTable
    <1>5. BaseTable \in Tables
        <2>1. 1 \in 1..MaxDev
            BY TableAssumption
        <2>. QED BY <1>3, <1>4, <2>1 DEF Tables
    <1>6. ChainInv(BaseTable)
        BY <1>3, RoomAssumption DEF ChainInv
    <1>. QED BY <1>3, <1>5, <1>6

LEMMA EndsFit ==
    ASSUME NEW b \in Buses
    PROVE  /\ Ends(b)["left"] \in [0..Len(b["left"]) -> 0..KB_PI_LEN]
           /\ Ends(b)["right"] \in [0..Len(b["right"]) -> 0..KB_PI_LEN]
           /\ Fits(b, Ends(b))
    <1>1. PICK left \in [0..Len(b["left"]) -> 0..KB_PI_LEN],
               right \in [0..Len(b["right"]) -> 0..KB_PI_LEN] :
                   Fits(b, [left |-> left, right |-> right])
        BY RoomAssumption
    <1>. DEFINE ends == [left |-> left, right |-> right]
    <1>2. ends["left"] = left /\ ends["right"] = right
        OBVIOUS
    <1>. HIDE DEF ends
    <1>. QED BY <1>1, <1>2 DEF Ends, ends

(* The more modules are told, the farther the table may reach.             *)
LEMMA MoreRoom ==
    ASSUME NEW b \in Buses
    PROVE  /\ \A s \in Sides : Len(b[s]) \in Nat
           /\ \A s \in Sides : \A k \in 0..Len(b[s]) : Ends(b)[s][k] \in 0..KB_PI_LEN
           /\ \A s \in Sides : \A k \in 0..(Len(b[s]) - 1) :
                 /\ Size(b[s][k + 1]) \in Nat
                 /\ Ends(b)[s][k] + Size(b[s][k + 1]) <= Ends(b)[s][k + 1]
           /\ \A s \in Sides : \A j, k \in 0..Len(b[s]) : j <= k => Ends(b)[s][j] <= Ends(b)[s][k]
           /\ Size(Base) <= Ends(b)["right"][0]
           /\ Ends(b)["right"][Len(b["right"])] <= Ends(b)["left"][0]
    <1>1. ASSUME NEW s \in Sides
          PROVE  /\ b[s] \in Seq(DOMAIN Module) /\ Len(b[s]) \in Nat
                 /\ \A k \in 0..(Len(b[s]) - 1) : Size(b[s][k + 1]) \in Nat
        <2>1. b[s] \in Seq(DOMAIN Module) /\ Len(b[s]) \in Nat
            BY BusAssumption
        <2>2. \A k \in 0..(Len(b[s]) - 1) : b[s][k + 1] \in DOMAIN Module
            BY <2>1
        <2>. QED BY <2>1, <2>2, RoomAssumption DEF Size
    <1>2. ASSUME NEW s \in Sides, NEW k \in 0..Len(b[s])
          PROVE  Ends(b)[s][k] \in 0..KB_PI_LEN
        BY EndsFit DEF Sides
    <1>3. ASSUME NEW s \in Sides, NEW j \in 0..Len(b[s]), NEW k \in 1..Len(b[s]), k <= j
          PROVE  Ends(b)[s][k - 1] + Size(b[s][k]) <= Ends(b)[s][j]
        BY <1>3, EndsFit DEF Fits
    <1>4. ASSUME NEW s \in Sides, NEW k \in 0..(Len(b[s]) - 1)
          PROVE  Ends(b)[s][k] + Size(b[s][k + 1]) <= Ends(b)[s][k + 1]
        <2>1. k + 1 \in 1..Len(b[s]) /\ k + 1 \in 0..Len(b[s]) /\ k + 1 <= k + 1 /\ (k + 1) - 1 = k
            BY <1>1
        <2>. QED BY <1>3, <2>1
    <1>5. ASSUME NEW s \in Sides, NEW j \in 0..Len(b[s]), NEW k \in 0..Len(b[s]), j <= k
          PROVE  Ends(b)[s][j] <= Ends(b)[s][k]
        <2>1. Len(b[s]) \in Nat /\ Ends(b)[s][j] \in Nat /\ Ends(b)[s][k] \in Nat
            BY <1>1, <1>2, ImageAssumption
        <2>2. CASE j = k
            BY <2>1, <2>2
        <2>3. CASE j # k
            <3>1. /\ j + 1 \in 1..Len(b[s]) /\ j + 1 <= k /\ (j + 1) - 1 = j
                  /\ j \in 0..(Len(b[s]) - 1)
                BY <1>5, <2>1, <2>3
            <3>2. Ends(b)[s][(j + 1) - 1] + Size(b[s][j + 1]) <= Ends(b)[s][k]
                BY <1>3, <3>1
            <3>3. Size(b[s][j + 1]) \in Nat
                BY <1>1, <3>1
            <3>. QED BY <2>1, <3>1, <3>2, <3>3
        <2>. QED BY <2>2, <2>3
    <1>6. /\ Size(Base) <= Ends(b)["right"][0]
          /\ Ends(b)["right"][Len(b["right"])] <= Ends(b)["left"][0]
        BY EndsFit DEF Fits
    <1>. QED BY <1>1, <1>2, <1>4, <1>5, <1>6

-----------------------------------------------------------------------------
(* The scan.                                                               *)
LEMMA ScanTable ==
    ASSUME TableInv, machine = "core", Scanning
    PROVE  table \in Tables /\ ChainInv(table) /\ OrderInv /\ ReachedInv
    BY DEF TableInv

LEMMA NewScanTable ==
    ASSUME bus' \in Buses, table' = BaseTable, file' \in Files, conf' = Parse(file'),
           machine' = "core", NEW n, scan' = FirstScan(n)
    PROVE  TableInv'
    <1>1. OrderInv' /\ ChainInv(table)' /\ (table \in Tables)'
        BY BaseOnly DEF OrderInv, ChainInv
    <1>2. ReachedInv'
        <2>1. scan'.side = "right" /\ scan'.told["right"] = 0
            BY DEF FirstScan, Sides
        <2>2. EndOf(table') <= Ends(bus')["right"][0]
            BY BaseOnly, MoreRoom
        <2>3. (EndOf(table) <= Ends(bus)[scan.side][scan.told[scan.side]])'
            BY <2>1, <2>2
        <2>. QED BY <2>3 DEF ReachedInv
    <1>. QED BY <1>1, <1>2 DEF TableInv

(* The scan goes on at the same side or at the next one, the table stays.  *)
LEMMA ScanKeepsTable ==
    ASSUME ScanInv, ScanInv', TableInv, machine = "core", Scanning,
           UNCHANGED <<machine, file, conf, bus, table, nextAddr>>,
           NEW s \in Sides, scan.side = s, Moves(s)
    PROVE  TableInv'
    <1>1. table \in Tables /\ ChainInv(table) /\ OrderInv /\ ReachedInv /\ bus \in Buses
        BY ScanTable DEF ScanInv, ScanTypeOK
    <1>2. (table \in Tables)' /\ ChainInv(table)'
        BY <1>1 DEF ChainInv
    <1>3. OrderInv'
        <2>1. \A r \in Sides : Found(r)' = Found(r)
            BY DEF Found
        <2>. QED BY <1>1, <2>1 DEF OrderInv
    <1>4. ReachedInv'
        <2>. SUFFICES ASSUME scan'.side # "none"
                      PROVE  EndOf(table) <= Ends(bus)[scan'.side][scan'.told[scan'.side]]
            BY DEF ReachedInv
        <2>1. /\ \A r \in Sides : /\ scan.told[r] \in Nat /\ scan'.told[r] \in Nat
                                  /\ N(r) \in Nat /\ N(r)' = N(r)
              /\ \A r \in Sides : \A k \in 0..N(r) : Ends(bus)[r][k] \in Nat
              /\ EndOf(table) \in Nat /\ EndOf(table) <= Ends(bus)[s][scan.told[s]]
            <3>1. \A r \in Sides : scan.told[r] \in Nat /\ scan'.told[r] \in Nat
                BY DEF ScanInv, ScanTypeOK, Scans
            <3>2. \A r \in Sides : N(r) \in Nat /\ N(r)' = N(r)
                BY BusTyped DEF ScanInv, N
            <3>3. \A r \in Sides : \A k \in 0..N(r) : Ends(bus)[r][k] \in Nat
                BY <1>1, MoreRoom, ImageAssumption DEF N
            <3>4. EndOf(table) \in Nat /\ EndOf(table) <= Ends(bus)[s][scan.told[s]]
                BY <1>1, TableTyped DEF ReachedInv, Sides
            <3>. QED BY <3>1, <3>2, <3>3, <3>4
        <2>2. \A r \in Sides : CountInv(r)
            BY DEF Scanning, ScanInv
        <2>3. \A r \in Sides : CountInv(r)'
            BY DEF ScanInv, ScanTypeOK
        <2>4. scan.told[s] \in 0..N(s)
            BY <2>1, <2>2 DEF CountInv
        <2>5. CASE scan'.side = s
            <3>1. scan'.told[s] \in 0..N(s) /\ scan.told[s] <= scan'.told[s]
                BY <2>1, <2>3 DEF CountInv, Moves
            <3>2. Ends(bus)[s][scan.told[s]] <= Ends(bus)[s][scan'.told[s]]
                <4>1. scan.told[s] \in 0..Len(bus[s]) /\ scan'.told[s] \in 0..Len(bus[s])
                    BY <2>4, <3>1 DEF N
                <4>. QED BY <1>1, <3>1, <4>1, MoreRoom
            <3>. QED BY <2>1, <2>4, <2>5, <3>1, <3>2
        <2>6. CASE scan'.side # s
            <3>1. s = "right" /\ scan'.side = "left"
                BY <2>6, EndOfSide DEF Moves
            <3>2. scan'.told["left"] = 0
                BY <2>2, <3>1 DEF CountInv, Before, Moves, Sides
            <3>3. Ends(bus)[s][scan.told[s]] <= Ends(bus)["left"][0]
                <4>1. Ends(bus)[s][scan.told[s]] <= Ends(bus)[s][N(s)]
                    <5>1. /\ scan.told[s] \in 0..Len(bus[s]) /\ Len(bus[s]) \in 0..Len(bus[s])
                          /\ scan.told[s] <= Len(bus[s])
                        BY <2>1, <2>4 DEF N
                    <5>2. Ends(bus)[s][scan.told[s]] <= Ends(bus)[s][Len(bus[s])]
                        BY <1>1, <5>1, MoreRoom
                    <5>. QED BY <5>2 DEF N
                <4>2. Ends(bus)["right"][N("right")] <= Ends(bus)["left"][0]
                    BY <1>1, MoreRoom DEF N
                <4>3. N(s) \in 0..N(s) /\ "left" \in Sides /\ 0 \in 0..N("left")
                    BY <2>1 DEF Sides
                <4>. QED BY <2>1, <2>4, <3>1, <4>1, <4>2, <4>3
            <3>4. Ends(bus)["left"][0] \in Nat /\ Ends(bus)[s][scan.told[s]] \in Nat
                BY <2>1, <2>4 DEF Sides
            <3>. QED BY <2>1, <3>1, <3>2, <3>3, <3>4
        <2>. QED BY <2>5, <2>6
    <1>. QED BY <1>1, <1>2, <1>3, <1>4 DEF TableInv

LEMMA LongerChain ==
    ASSUME NEW t \in Tables, ChainInv(t), Len(t) < MaxDev,
           NEW e \in Entries, e.connected, e.in = EndOf(t), e.in + e.inLen = e.out,
           e.out + e.outLen <= KB_PI_LEN, \A j \in DOMAIN t : t[j].address # e.address
    PROVE  /\ Append(t, e) \in Tables /\ ChainInv(Append(t, e))
           /\ EndOf(Append(t, e)) = e.out + e.outLen
           /\ \A j \in DOMAIN Append(t, e) : \/ j \in DOMAIN t /\ Append(t, e)[j] = t[j]
                                             \/ Append(t, e)[j] = e
           /\ \A j \in DOMAIN t : Append(t, e)[j] = t[j]
    <1>. DEFINE u == Append(t, e)
                n == Len(t) + 1
    <1>1. /\ t \in Seq(Entries) /\ Len(t) \in Nat \ {0} /\ DOMAIN t = 1..Len(t)
          /\ \A j \in DOMAIN t : t[j] \in Entries
        BY TableTyped
    <1>2. /\ u \in Seq(Entries) /\ Len(u) = n /\ DOMAIN u = 1..n
          /\ u[n] = e /\ \A j \in DOMAIN t : u[j] = t[j]
        BY <1>1
    <1>. HIDE DEF u
    <1>3. u \in Tables
        <2>1. n \in 1..MaxDev
            BY <1>1, TableAssumption
        <2>. QED BY <1>2, <2>1 DEF Tables
    <1>4. \A j \in DOMAIN u : j \in DOMAIN t \/ j = n
        BY <1>1, <1>2
    <1>5. EndOf(u) = e.out + e.outLen
        BY <1>2 DEF EndOf
    <1>6. ASSUME NEW j \in DOMAIN t PROVE t[j].out + t[j].outLen <= EndOf(t)
        <2>1. CASE j = Len(t)
            BY <1>1, <2>1 DEF EndOf, Entries
        <2>2. CASE j # Len(t)
            <3>1. Len(t) \in DOMAIN t /\ j < Len(t)
                BY <1>1, <2>2
            <3>2. /\ t[j].out + t[j].outLen <= t[Len(t)].in
                  /\ t[Len(t)].in + t[Len(t)].inLen = t[Len(t)].out
                BY <3>1 DEF ChainInv
            <3>3. /\ t[j].out \in Nat /\ t[j].outLen \in Nat /\ t[Len(t)].in \in Nat
                  /\ t[Len(t)].inLen \in Nat /\ t[Len(t)].out \in Nat /\ t[Len(t)].outLen \in Nat
                BY <1>1, <3>1 DEF Entries
            <3>. QED BY <3>2, <3>3 DEF EndOf
        <2>. QED BY <2>1, <2>2
    <1>7. ChainInv(u)
        <2>1. \A j \in DOMAIN u : u[j].connected /\ u[j].in + u[j].inLen = u[j].out
            BY <1>2, <1>4 DEF ChainInv
        <2>2. ASSUME NEW j \in DOMAIN u, NEW k \in DOMAIN u, j < k
              PROVE  u[j].out + u[j].outLen <= u[k].in /\ u[j].address # u[k].address
            <3>1. j \in DOMAIN t
                BY <1>1, <1>2, <2>2
            <3>2. CASE k \in DOMAIN t
                BY <1>2, <2>2, <3>1, <3>2 DEF ChainInv
            <3>3. CASE k = n
                BY <1>2, <1>6, <3>1, <3>3
            <3>. QED BY <1>4, <3>2, <3>3
        <2>3. EndOf(u) <= KB_PI_LEN
            BY <1>5
        <2>. QED BY <2>1, <2>2, <2>3 DEF ChainInv
    <1>8. \A j \in DOMAIN u : (j \in DOMAIN t /\ u[j] = t[j]) \/ u[j] = e
        BY <1>2, <1>4
    <1>. QED BY <1>2, <1>3, <1>5, <1>7, <1>8 DEF u

(* A module that was found.                                                *)
LEMMA FoundTable ==
    ASSUME ScanInv, ScanInv', TableInv, machine = "core", NEW s \in Sides, Dialogue(s, "found"),
           scan'.side = s, scan'.told = [scan.told EXCEPT ![s] = @ + 1]
    PROVE  TableInv'
    <1>. USE DEF Dialogue, At, configVars
    <1>. DEFINE e == FoundModule(table, nextAddr[s], NextModule(s))
                size == Size(NextModule(s))
                room == Ends(bus)[s][scan.told[s] + 1]
    <1>1. /\ table \in Tables /\ ChainInv(table) /\ OrderInv /\ ReachedInv /\ bus \in Buses
          /\ scan.side = s /\ scan.step = "dialogue"
        BY ScanTable DEF ScanInv, ScanTypeOK, Scanning
    <1>2. /\ CountInv(s) /\ N(s) \in Nat /\ Found(s) \in Int /\ \A r \in Sides : Found(r) \in Int
          /\ scan.told[s] \in Nat /\ scan.told[s] < N(s)
          /\ scan.told \in [Sides -> Nat]
        BY <1>1, BusTyped, LastAddress DEF ScanInv, ScanTypeOK, Scans, Answers, N
    <1>3. NextModule(s) \in DOMAIN Module /\ NextModule(s) = bus[s][scan.told[s] + 1]
        BY <1>2, BusTyped DEF NextModule, ScanInv, N
    <1>4. /\ Module[NextModule(s)].in \in Nat /\ Module[NextModule(s)].out \in Nat
          /\ size = Module[NextModule(s)].in + Module[NextModule(s)].out
        BY <1>3, RoomAssumption DEF Size
    <1>5. /\ EndOf(table) + size <= room /\ room \in 0..KB_PI_LEN
          /\ EndOf(table) \in Nat
        <2>1. EndOf(table) \in Nat /\ EndOf(table) <= Ends(bus)[s][scan.told[s]]
            BY <1>1, TableTyped DEF ReachedInv, Sides
        <2>2. scan.told[s] \in 0..(Len(bus[s]) - 1) /\ scan.told[s] \in 0..Len(bus[s])
              /\ scan.told[s] + 1 \in 0..Len(bus[s])
            BY <1>2 DEF N
        <2>3. /\ Ends(bus)[s][scan.told[s]] \in 0..KB_PI_LEN /\ room \in 0..KB_PI_LEN
              /\ Ends(bus)[s][scan.told[s]] + size <= room
            BY <1>1, <1>3, <2>2, MoreRoom
        <2>. HIDE DEF room, size
        <2>4. KB_PI_LEN \in Nat /\ size \in Nat
            BY <1>4, ImageAssumption DEF size
        <2>. QED BY <2>1, <2>3, <2>4
    <1>6. /\ e.address = nextAddr[s] /\ e.type = NextModule(s)
          /\ e.connected /\ e.in = EndOf(table) /\ e.in + e.inLen = e.out
          /\ e.out + e.outLen = EndOf(table) + size
          /\ e \in [address: {nextAddr[s]}, type: DOMAIN Module, connected: BOOLEAN,
                    active: BOOLEAN, scanned: BOOLEAN, in: Nat, out: Nat, inLen: Nat, outLen: Nat]
        <2>1. e = Entry(nextAddr[s], NextModule(s), EndOf(table),
                        EndOf(table) + Module[NextModule(s)].in,
                        Module[NextModule(s)].in, Module[NextModule(s)].out)
            BY DEF FoundModule, Last, EndOf
        <2>2. EndOf(table) + Module[NextModule(s)].in \in Nat
            BY <1>4, <1>5
        <2>3. e.out + e.outLen = EndOf(table) + size
            BY <1>4, <1>5, <2>1 DEF Entry
        <2>. HIDE DEF e, size
        <2>. QED BY <1>3, <1>4, <1>5, <2>1, <2>2, <2>3 DEF Entry
    <1>7. nextAddr[s] = Address(s, Found(s) + 1) /\ nextAddr[s] \in Nat \ {0}
        <2>1. s = "left" => N(s) < FirstRight
            BY <1>1, RoomAssumption DEF N
        <2>. QED BY <1>2, <2>1 DEF CountInv, Found, Address, FirstRight, ScanInv, ScanTypeOK, Sides
    <1>8. \A j \in DOMAIN table : table[j].address # nextAddr[s]
        <2>. SUFFICES ASSUME NEW j \in DOMAIN table, table[j].address = nextAddr[s] PROVE FALSE
            OBVIOUS
        <2>1. j # 1
            BY <1>1, <1>7 DEF OrderInv
        <2>2. PICK r \in Sides : \E k \in 1..Found(r) : table[j].address = Address(r, k)
            BY <1>1, <2>1 DEF OrderInv
        <2>3. PICK k \in 1..Found(r) : table[j].address = Address(r, k)
            BY <2>2
        <2>4. k \in Nat \ {0} /\ Found(s) + 1 \in Nat \ {0}
            BY <1>2 DEF CountInv
        <2>5. r = s /\ k = Found(s) + 1
            BY <1>7, <2>3, <2>4, Addresses
        <2>. QED BY <1>2, <2>5
    <1>9. \A r \in Sides : Found(r)' \in Int /\ Found(r) <= Found(r)'
          /\ Found(s)' = Found(s) + 1
        BY <1>2 DEF ScanInv, ScanTypeOK, Found, Outward, Sides, FirstRight
    <1>. HIDE DEF e, room, size
    <1>10. /\ EndOf(table') <= room /\ ChainInv(table') /\ table' \in Tables
           /\ \A j \in DOMAIN table' : \/ j \in DOMAIN table /\ table'[j] = table[j]
                                       \/ table'[j].address = nextAddr[s]
           /\ 1 \in DOMAIN table /\ table'[1] = table[1]
        <2>1. table' = IF Len(table) < MaxDev THEN Append(table, e) ELSE table
            BY DEF WithDevice, e
        <2>2. CASE Len(table) < MaxDev
            <3>1. e \in Entries
                BY <1>6, <1>7 DEF Entries
            <3>2. e.out + e.outLen <= KB_PI_LEN /\ e.out + e.outLen <= room
                BY <1>4, <1>5, <1>6, ImageAssumption
            <3>3. \A j \in DOMAIN table : table[j].address # e.address
                BY <1>6, <1>8
            <3>4. /\ Append(table, e) \in Tables /\ ChainInv(Append(table, e))
                  /\ EndOf(Append(table, e)) = e.out + e.outLen
                  /\ \A j \in DOMAIN Append(table, e) :
                        \/ j \in DOMAIN table /\ Append(table, e)[j] = table[j]
                        \/ Append(table, e)[j] = e
                  /\ \A j \in DOMAIN table : Append(table, e)[j] = table[j]
                BY <1>1, <1>6, <2>2, <3>1, <3>2, <3>3, LongerChain
            <3>5. table' = Append(table, e) /\ 1 \in DOMAIN table
                BY <1>1, <2>1, <2>2, TableTyped
            <3>6. EndOf(table') <= room
                BY <3>2, <3>4, <3>5
            <3>. QED BY <1>6, <3>4, <3>5, <3>6
        <2>3. CASE ~(Len(table) < MaxDev)
            <3>1. EndOf(table) <= room
                <4>1. size \in Nat
                    BY <1>4
                <4>. QED BY <1>5, <4>1
            <3>. QED BY <1>1, <2>1, <2>3, <3>1, TableTyped
        <2>. QED BY <2>2, <2>3
    <1>11. ReachedInv'
        <2>1. scan'.told[s] = scan.told[s] + 1
            BY <1>2
        <2>2. EndOf(table') <= Ends(bus')[scan'.side][scan'.told[scan'.side]]
            BY <1>10, <2>1 DEF room
        <2>. QED BY <2>2 DEF ReachedInv
    <1>12. OrderInv'
        <2>1. table'[1].address = 0
            BY <1>1, <1>10 DEF OrderInv
        <2>2. ASSUME NEW j \in DOMAIN table', j # 1
              PROVE  \E r \in Sides : \E k \in 1..Found(r)' : table'[j].address = Address(r, k)
            <3>1. CASE j \in DOMAIN table /\ table'[j] = table[j]
                <4>1. PICK r \in Sides : \E k \in 1..Found(r) : table[j].address = Address(r, k)
                    BY <1>1, <2>2, <3>1 DEF OrderInv
                <4>2. \A k \in 1..Found(r) : k \in 1..Found(r)'
                    BY <1>2, <1>9
                <4>. QED BY <3>1, <4>1, <4>2
            <3>2. CASE table'[j].address = nextAddr[s]
                <4>1. Found(s) + 1 \in 1..Found(s)'
                    BY <1>2, <1>9 DEF CountInv
                <4>. QED BY <1>7, <3>2, <4>1
            <3>. QED BY <1>10, <3>1, <3>2
        <2>. QED BY <2>1, <2>2 DEF OrderInv
    <1>13. (ChainInv(table) /\ table \in Tables)'
        BY <1>10
    <1>. QED BY <1>11, <1>12, <1>13 DEF TableInv

-----------------------------------------------------------------------------
(* The comparison with the file, and the modules that are switched off.    *)
LEMMA ConfiguredTable ==
    ASSUME NEW t \in Tables
    PROVE  /\ Configure(t) \in Tables
           /\ ChainInv(t) => ChainInv(Configure(t))
           /\ \A devs : PlacedInv(t, devs) => PlacedInv(Configure(t), devs)
    <1>. DEFINE u == Configure(t)
                on(j) == t[j].active /\ (t[j].connected => HasConfiguration(t[j]))
    <1>1. /\ t \in Seq(Entries) /\ DOMAIN t = 1..Len(t) /\ Len(t) \in Nat \ {0}
          /\ \A j \in DOMAIN t : t[j] \in Entries /\ t[j].active \in BOOLEAN
        BY TableTyped DEF Entries
    <1>2. u = [j \in DOMAIN t |-> [t[j] EXCEPT !.active = on(j)]]
        BY DEF Configure
    <1>3. \A j \in DOMAIN t : on(j) \in BOOLEAN
        OBVIOUS
    <1>. HIDE DEF on, u
    <1>4. ASSUME NEW j \in DOMAIN t
          PROVE  /\ u[j] \in Entries /\ (u[j].active => t[j].active)
                 /\ u[j].connected = t[j].connected /\ u[j].address = t[j].address
                 /\ u[j].in = t[j].in /\ u[j].inLen = t[j].inLen
                 /\ u[j].out = t[j].out /\ u[j].outLen = t[j].outLen
        <2>1. u[j] = [t[j] EXCEPT !.active = on(j)] /\ t[j] \in Entries /\ on(j) \in BOOLEAN
            BY <1>1, <1>2, <1>3
        <2>2. on(j) => t[j].active
            BY DEF on
        <2>3. /\ u[j] \in Entries /\ u[j].active = on(j)
              /\ u[j].connected = t[j].connected /\ u[j].address = t[j].address
              /\ u[j].in = t[j].in /\ u[j].inLen = t[j].inLen
              /\ u[j].out = t[j].out /\ u[j].outLen = t[j].outLen
            BY ONLY <2>1 DEF Entries
        <2>. QED BY <2>2, <2>3
    <1>5. DOMAIN u = DOMAIN t /\ u \in Seq(Entries) /\ Len(u) = Len(t)
        BY <1>1, <1>2, <1>4
    <1>6. u \in Tables
        BY <1>5 DEF Tables
    <1>7. EndOf(u) = EndOf(t)
        BY <1>1, <1>4, <1>5 DEF EndOf
    <1>8. ChainInv(t) => ChainInv(u)
        BY <1>4, <1>5, <1>7 DEF ChainInv
    <1>9. Live(u) \subseteq Live(t)
        BY <1>4, <1>5 DEF Live
    <1>10. ASSUME NEW devs, PlacedInv(t, devs) PROVE PlacedInv(u, devs)
        <2>1. \A j \in Live(u) : j \in Live(t) /\ j \in DOMAIN t
            BY <1>9 DEF Live
        <2>2. \A j \in Live(u) : \E d \in DOMAIN devs : SamePlace(u[j], devs[d])
            BY <1>4, <1>10, <2>1 DEF PlacedInv, SamePlace
        <2>3. \A j, k \in Live(u) : j # k => u[j].address # u[k].address
            BY <1>4, <1>10, <2>1 DEF PlacedInv
        <2>. QED BY <2>2, <2>3 DEF PlacedInv
    <1>. QED BY <1>6, <1>8, <1>10 DEF u

LEMMA FileDevices ==
    ASSUME NEW f \in Files
    PROVE  LET devs == Parse(f).devs IN
           /\ DOMAIN devs = 1..Len(devs) /\ Len(devs) \in Nat
           /\ \A d \in DOMAIN devs : devs[d] \in Devices
           /\ \A c, d \in DOMAIN devs : c # d => devs[c].address # devs[d].address
    <1>. DEFINE devs == Parse(f).devs
    <1>1. devs \in Seq(Devices)
        BY FileAssumption
    <1>2. \A d \in DOMAIN devs : \A c \in DOMAIN devs \ {d} : devs[c].address # devs[d].address
        BY FileAssumption
    <1>. HIDE DEF devs
    <1>3. /\ DOMAIN devs = 1..Len(devs) /\ Len(devs) \in Nat
          /\ \A d \in DOMAIN devs : devs[d] \in Devices
          /\ \A c, d \in DOMAIN devs : c # d => devs[c].address # devs[d].address
        BY <1>1, <1>2
    <1>. QED BY <1>3 DEF devs

LEMMA AdjustedEntry ==
    ASSUME NEW f \in Files, NEW devs, devs = Parse(f).devs, NEW e \in Entries
    PROVE  /\ Adjusted(e, devs) \in Entries
           /\ Adjusted(e, devs).address = e.address /\ Adjusted(e, devs).connected = e.connected
           /\ Adjusted(e, devs).active =>
                 \E d \in Matches(e, devs) : SamePlace(Adjusted(e, devs), devs[d])
           /\ Matches(e, devs) # {} => \E d \in Matches(e, devs) : SamePlace(Adjusted(e, devs), devs[d])
    <1>1. CASE Matches(e, devs) = {}
        <2>1. Adjusted(e, devs) = [e EXCEPT !.active = FALSE]
            BY <1>1 DEF Adjusted
        <2>. QED BY ONLY <1>1, <2>1, e \in Entries DEF Entries
    <1>2. CASE Matches(e, devs) # {}
        <2>. DEFINE d == CHOOSE d \in Matches(e, devs) : TRUE
        <2>1. d \in Matches(e, devs) /\ Adjusted(e, devs) = Placed(e, devs[d])
            BY <1>2 DEF Adjusted
        <2>. HIDE DEF d
        <2>2. d \in DOMAIN devs /\ devs[d].address = e.address /\ SameModule(e, devs[d])
            BY <2>1 DEF Matches
        <2>3. devs[d].in \in Nat /\ devs[d].out \in Nat
            BY <2>2, FileDevices DEF Devices
        <2>4. Adjusted(e, devs) = [e EXCEPT !.in = devs[d].in, !.out = devs[d].out]
            BY <2>1 DEF Placed
        <2>5. /\ Adjusted(e, devs) \in Entries
              /\ Adjusted(e, devs).address = e.address
              /\ Adjusted(e, devs).connected = e.connected
              /\ Adjusted(e, devs).in = devs[d].in /\ Adjusted(e, devs).out = devs[d].out
              /\ Adjusted(e, devs).inLen = e.inLen /\ Adjusted(e, devs).outLen = e.outLen
            BY ONLY <2>3, <2>4, e \in Entries DEF Entries
        <2>6. SamePlace(Adjusted(e, devs), devs[d])
            BY <2>2, <2>5 DEF SamePlace, SameModule
        <2>. QED BY <2>1, <2>5, <2>6
    <1>. QED BY <1>1, <1>2

(* Every module that was found and stays active is where the file has it,  *)
(* and so is every device that was added; nothing is added twice.          *)
LEMMA AdjustedTable ==
    ASSUME NEW f \in Files, NEW devs, devs = Parse(f).devs, NEW t \in Tables, ChainInv(t)
    PROVE  Adjust(t, devs) \in Tables /\ PlacedInv(Adjust(t, devs), devs)
    <1>. DEFINE left == DOMAIN devs \ Taken(t, devs)
                all == Len(t) + Cardinality(left)
                n == IF all <= MaxDev THEN all ELSE MaxDev
                u == Adjust(t, devs)
                New(j) == Nth(left, j - Len(t))
    <1>1. /\ t \in Seq(Entries) /\ DOMAIN t = 1..Len(t) /\ Len(t) \in 1..MaxDev
          /\ \A j \in DOMAIN t : t[j] \in Entries
          /\ MaxDev \in Nat
        BY TableTyped, TableAssumption DEF Tables
    <1>2. /\ DOMAIN devs = 1..Len(devs) /\ Len(devs) \in Nat
          /\ \A d \in DOMAIN devs : devs[d] \in Devices
          /\ \A c, d \in DOMAIN devs : c # d => devs[c].address # devs[d].address
        BY FileDevices
    <1>3. left \in SUBSET Nat /\ IsFiniteSet(left) /\ Cardinality(left) \in Nat
        <2>1. IsFiniteSet(DOMAIN devs)
            <3>1. 1 \in Int /\ Len(devs) \in Int
                BY <1>2
            <3>2. IsFiniteSet(1..Len(devs))
                BY <3>1, FS_Interval
            <3>. QED BY <1>2, <3>2
        <2>2. left \subseteq DOMAIN devs
            OBVIOUS
        <2>3. IsFiniteSet(left)
            BY <2>1, <2>2, FS_Subset
        <2>. QED BY <1>2, <2>2, <2>3, FS_CardinalityType
    <1>4. u = [j \in 1..n |-> IF j <= Len(t) THEN Adjusted(t[j], devs)
                              ELSE ConfiguredDevice(devs[New(j)])]
        BY DEF Adjust
    <1>. HIDE DEF u, New
    <1>5. n \in 1..MaxDev /\ n <= all /\ Len(t) <= n
        BY <1>1, <1>3
    <1>6. ASSUME NEW j \in DOMAIN t
          PROVE  j \in DOMAIN u /\ u[j] = Adjusted(t[j], devs)
        <2>. HIDE DEF n
        <2>1. j \in 1..n /\ j <= Len(t)
            BY <1>1, <1>5
        <2>. QED BY <1>4, <2>1
    <1>7. ASSUME NEW j \in DOMAIN u, j \notin DOMAIN t
          PROVE  /\ j - Len(t) \in 1..Cardinality(left)
                 /\ New(j) \in left
                 /\ Cardinality({m \in left : m <= New(j)}) = j - Len(t)
                 /\ u[j] = ConfiguredDevice(devs[New(j)])
        <2>1. j \in 1..n /\ ~(j <= Len(t))
            BY <1>1, <1>4, <1>7
        <2>2. j - Len(t) \in 1..Cardinality(left)
            BY <1>1, <1>3, <1>5, <2>1
        <2>3. u[j] = ConfiguredDevice(devs[New(j)])
            BY <1>4, <2>1
        <2>. HIDE DEF left
        <2>. QED BY <1>3, <2>2, <2>3, NthElement DEF New
    <1>8. ASSUME NEW j \in DOMAIN u, j \notin DOMAIN t
          PROVE  u[j] \in Entries /\ SamePlace(u[j], devs[New(j)])
        <2>1. New(j) \in DOMAIN devs /\ u[j] = ConfiguredDevice(devs[New(j)])
            BY <1>7, <1>8
        <2>2. devs[New(j)] \in Devices
            BY <1>2, <2>1
        <2>. QED BY <2>1, <2>2 DEF ConfiguredDevice, Devices, Entries, SamePlace
    <1>9. ASSUME NEW j \in DOMAIN t
          PROVE  /\ u[j] \in Entries /\ u[j].address = t[j].address
                 /\ j \in Live(u) => \E d \in Matches(t[j], devs) : SamePlace(u[j], devs[d])
        <2>1. t[j].connected
            BY <1>9 DEF ChainInv
        <2>2. /\ u[j] \in Entries /\ u[j].address = t[j].address /\ u[j].connected = t[j].connected
              /\ u[j].active => \E d \in Matches(t[j], devs) : SamePlace(u[j], devs[d])
            BY <1>1, <1>6, AdjustedEntry
        <2>. QED BY <2>1, <2>2 DEF Live
    <1>10. u \in Tables
        <2>1. \A j \in 1..n : u[j] \in Entries
            BY <1>4, <1>8, <1>9
        <2>. HIDE DEF n
        <2>2. u \in Seq(Entries) /\ Len(u) = n
            <3>1. n \in Nat /\ DOMAIN u = 1..n /\ u = [j \in 1..n |-> u[j]]
                BY <1>1, <1>4, <1>5
            <3>. QED BY <2>1, <3>1
        <2>. QED BY <1>5, <2>2 DEF Tables
    <1>11. \A j \in Live(u) : \E d \in DOMAIN devs :
              /\ SamePlace(u[j], devs[d])
              /\ IF j \in DOMAIN t THEN d \in Matches(t[j], devs) ELSE d = New(j) /\ d \in left
        <2>1. \A j \in Live(u) : j \in DOMAIN u
            BY DEF Live
        <2>. QED BY <1>7, <1>8, <1>9, <2>1 DEF Matches
    <1>12. ASSUME NEW j \in Live(u), NEW k \in Live(u), j # k
           PROVE  u[j].address # u[k].address
        <2>1. j \in DOMAIN u /\ k \in DOMAIN u
            BY DEF Live
        <2>2. CASE j \in DOMAIN t /\ k \in DOMAIN t
            <3>1. \A i, l \in DOMAIN t : i < l => t[i].address # t[l].address
                BY DEF ChainInv
            <3>2. j < k \/ k < j
                BY <1>1, <1>12, <2>2
            <3>. QED BY <1>9, <2>2, <3>1, <3>2
        <2>3. CASE ~(j \in DOMAIN t /\ k \in DOMAIN t)
            <3>1. PICK c \in DOMAIN devs : /\ SamePlace(u[j], devs[c])
                                           /\ IF j \in DOMAIN t THEN c \in Matches(t[j], devs)
                                              ELSE c = New(j) /\ c \in left
                BY <1>11
            <3>2. PICK d \in DOMAIN devs : /\ SamePlace(u[k], devs[d])
                                           /\ IF k \in DOMAIN t THEN d \in Matches(t[k], devs)
                                              ELSE d = New(k) /\ d \in left
                BY <1>11
            <3>3. \A i \in DOMAIN t : Matches(t[i], devs) \cap left = {}
                BY DEF Taken
            <3>4. c # d
                <4>1. CASE j \notin DOMAIN t /\ k \notin DOMAIN t
                    <5>1. New(j) = New(k) => j - Len(t) = k - Len(t)
                        BY <1>7, <2>1, <4>1
                    <5>2. j \in Int /\ k \in Int
                        BY <1>4, <1>5, <2>1
                    <5>. QED BY <1>1, <1>12, <3>1, <3>2, <4>1, <5>1, <5>2
                <4>2. CASE j \in DOMAIN t /\ k \notin DOMAIN t
                    BY <3>1, <3>2, <3>3, <4>2
                <4>3. CASE j \notin DOMAIN t /\ k \in DOMAIN t
                    BY <3>1, <3>2, <3>3, <4>3
                <4>. QED BY <2>3, <4>1, <4>2, <4>3
            <3>. QED BY <1>2, <3>1, <3>2, <3>4 DEF SamePlace
        <2>. QED BY <2>2, <2>3
    <1>13. PlacedInv(u, devs)
        BY <1>11, <1>12 DEF PlacedInv
    <1>. QED BY <1>10, <1>13 DEF u

LEMMA ComparedTable ==
    ASSUME NEW f \in Files, NEW t \in Tables, ChainInv(t)
    PROVE  Adjust(t, Parse(f).devs) \in Tables /\ PlacedInv(Adjust(t, Parse(f).devs), Parse(f).devs)
    BY AdjustedTable

LEMMA ConfiguredFile ==
    ASSUME TableInv, machine = "core", EndOfConfig, file # NoFile
    PROVE  table' \in Tables /\ PlacedInv(table', conf.devs)
    <1>1. table \in Tables /\ ChainInv(table) /\ file \in Files /\ conf = Parse(file)
        BY ScanTable DEF Scanning, TableInv, EndOfConfig, At
    <1>2. table' = Configure(Adjust(table, conf.devs))
        BY DEF EndOfConfig
    <1>3. /\ Adjust(table, conf.devs) \in Tables
          /\ PlacedInv(Adjust(table, conf.devs), conf.devs)
        BY <1>1, ComparedTable
    <1>. QED BY <1>2, <1>3, ConfiguredTable

LEMMA EndOfConfigTable ==
    ASSUME TableInv, machine = "core", EndOfConfig
    PROVE  TableInv'
    <1>. USE DEF EndOfConfig, At, configVars
    <1>1. table \in Tables /\ ChainInv(table) /\ file \in Files /\ conf = Parse(file)
        BY ScanTable DEF Scanning, TableInv
    <1>2. scan'.step = "start"
        BY DEF NextScan
    <1>3. table' \in Tables /\ (ChainInv(table') \/ PlacedInv(table', conf.devs))
        <2>1. CASE file = NoFile
            BY <1>1, <2>1, ConfiguredTable
        <2>2. CASE file # NoFile
            BY <2>2, ConfiguredFile
        <2>. QED BY <2>1, <2>2
    <1>4. (table \in Tables /\ (ChainInv(table) \/ PlacedInv(table, conf.devs)))'
        BY <1>3
    <1>5. ~Scanning'
        BY <1>2 DEF Scanning
    <1>. QED BY <1>1, <1>4, <1>5 DEF TableInv

(* The bridge is started; the table stays.                                 *)
LEMMA SameTable ==
    ASSUME TableInv, UNCHANGED <<machine, file, conf, table>>, scan'.step = "running"
    PROVE  TableInv'
    <1>1. (ChainInv(table) \/ PlacedInv(table, conf.devs)) =>
              (ChainInv(table) \/ PlacedInv(table, conf.devs))'
        BY DEF ChainInv, EndOf, PlacedInv, Live
    <1>2. ~Scanning'
        BY DEF Scanning
    <1>. QED BY <1>1, <1>2 DEF TableInv

(* A gateway that was not connected is found: it has its place already.    *)
LEMMA FoundGate ==
    ASSUME TableInv, NEW s \in Sides, NEW type \in DOMAIN Module, FindGate(s, type),
           machine # "flat"
    PROVE  table' \in Tables /\ PlacedInv(table', conf.devs)
    <1>. USE DEF FindGate, At, configVars, busVars
    <1>. DEFINE found == {j \in DOMAIN table : /\ SideOf(table[j].address) = s
                                               /\ table[j].type = type /\ ~table[j].connected}
                g == Min(found)
    <1>1. table \in Tables /\ DOMAIN table = 1..Len(table) /\ Len(table) \in Nat
          /\ \A j \in DOMAIN table : table[j] \in Entries
        BY TableTyped DEF TableInv
    <1>2. g \in DOMAIN table /\ ~table[g].connected
        <2>1. IsFiniteSet(DOMAIN table) /\ found \subseteq DOMAIN table /\ found # {}
            BY <1>1, FS_Interval
        <2>2. IsFiniteSet(found) /\ found \in SUBSET Nat
            BY <1>1, <2>1, FS_Subset
        <2>3. g \in found
            <3>. HIDE DEF found
            <3>. QED BY <2>1, <2>2, MinElement
        <2>. QED BY <2>3
    <1>3. table' = [table EXCEPT ![g].active = TRUE, ![g].connected = TRUE]
        OBVIOUS
    <1>. HIDE DEF g
    <1>4. PlacedInv(table, conf.devs)
        BY <1>2 DEF TableInv, ChainInv
    <1>5. DOMAIN table' = DOMAIN table /\ \A j \in DOMAIN table \ {g} : table'[j] = table[j]
        BY <1>1, <1>3
    <1>6. /\ table'[g] \in Entries
          /\ table'[g].address = table[g].address
          /\ table'[g].in = table[g].in /\ table'[g].inLen = table[g].inLen
          /\ table'[g].out = table[g].out /\ table'[g].outLen = table[g].outLen
        <2>1. table[g] \in Entries
            BY <1>1, <1>2
        <2>2. table'[g] = [table[g] EXCEPT !.active = TRUE, !.connected = TRUE]
            BY <1>1, <1>2, <1>3
        <2>. QED BY ONLY <2>1, <2>2 DEF Entries
    <1>7. table' \in Tables
        <2>1. \A j \in 1..Len(table) : table'[j] \in Entries
            BY <1>1, <1>5, <1>6
        <2>2. table' = [j \in 1..Len(table) |-> table'[j]]
            BY <1>1, <1>3
        <2>3. table' \in Seq(Entries) /\ Len(table') = Len(table)
            BY ONLY <1>1, <2>1, <2>2
        <2>. QED BY <1>1, <2>3 DEF Tables
    <1>8. PlacedInv(table', conf.devs)
        <2>1. \A j \in Live(table') : j \in Live(table) /\ j \in DOMAIN table
            BY <1>2, <1>5 DEF Live
        <2>2. \A j \in DOMAIN table :
                  /\ table'[j].address = table[j].address
                  /\ table'[j].in = table[j].in /\ table'[j].inLen = table[j].inLen
                  /\ table'[j].out = table[j].out /\ table'[j].outLen = table[j].outLen
            BY <1>5, <1>6
        <2>3. \A j \in Live(table') : \E d \in DOMAIN conf.devs : SamePlace(table'[j], conf.devs[d])
            BY ONLY <1>4, <2>1, <2>2 DEF PlacedInv, SamePlace
        <2>4. \A j, k \in Live(table') : j # k => table'[j].address # table'[k].address
            BY ONLY <1>4, <2>1, <2>2 DEF PlacedInv
        <2>. QED BY <2>3, <2>4 DEF PlacedInv
    <1>. QED BY <1>7, <1>8

LEMMA FindGateTable ==
    ASSUME TableInv, NEW s \in Sides, NEW type \in DOMAIN Module, FindGate(s, type)
    PROVE  TableInv'
    <1>. USE DEF FindGate, At, configVars, busVars
    <1>1. CASE machine = "flat"
        BY <1>1 DEF TableInv
    <1>2. CASE machine # "flat"
        <2>1. (table \in Tables /\ PlacedInv(table, conf.devs))' /\ ~Scanning'
            BY <1>2, FoundGate DEF Scanning
        <2>. QED BY <2>1 DEF TableInv
    <1>. QED BY <1>1, <1>2

(* A machine without a bridge.                                             *)
LEMMA StandaloneTyped ==
    ASSUME NEW f \in Files, machine = "compact"
    PROVE  LET t == StandaloneTable(Parse(f).devs)
           IN  t \in Tables /\ (ChainInv(t) \/ PlacedInv(t, Parse(f).devs))
    BY BaseOnly, ComparedTable DEF StandaloneTable

LEMMA ResetStandaloneTable ==
    ASSUME TableInv, NEW f \in Files, ResetStandalone(f), machine \in Machines
    PROVE  TableInv'
    <1>. USE DEF ResetStandalone, NewConfig
    <1>1. CASE machine = "flat"
        BY <1>1 DEF TableInv
    <1>2. CASE machine = "compact"
        <2>1. table' \in Tables /\ (ChainInv(table') \/ PlacedInv(table', conf'.devs))
            BY <1>2, StandaloneTyped
        <2>2. (table \in Tables /\ (ChainInv(table) \/ PlacedInv(table, conf.devs)))'
            BY <2>1
        <2>3. ~Scanning' /\ scan'.step = "running"
            BY <1>2 DEF TableInv, Scanning
        <2>. QED BY <2>2, <2>3 DEF TableInv
    <1>. QED BY <1>1, <1>2 DEF Machines

-----------------------------------------------------------------------------
(* From the start of the driver on.                                        *)
LEMMA InitTable == ASSUME Init PROVE TableInv
    <1>. USE StandaloneAssumption DEF Init
    <1>1. file \in Files /\ conf = Parse(file) /\ machine \in Machines
        OBVIOUS
    <1>2. CASE machine = "core"
        <2>1. bus \in Buses /\ scan = FirstScan(MaxRetries) /\ table = BaseTable
            BY <1>2
        <2>2. scan.side = "right" /\ scan.told["right"] = 0
            BY <2>1 DEF FirstScan, Sides
        <2>3. table \in Tables /\ ChainInv(table) /\ OrderInv /\ ReachedInv
            <3>1. EndOf(table) <= Ends(bus)["right"][0]
                BY <2>1, BaseOnly, MoreRoom
            <3>2. OrderInv
                BY <2>1, BaseOnly DEF OrderInv
            <3>. QED BY <2>1, <2>2, <3>1, <3>2, BaseOnly DEF ReachedInv
        <2>. QED BY <1>1, <1>2, <2>3 DEF TableInv
    <1>3. CASE machine = "compact"
        <2>1. scan.step = "running"
            BY <1>3 DEF Running, FirstScan
        <2>2. table \in Tables /\ (ChainInv(table) \/ PlacedInv(table, conf.devs))
            BY <1>1, <1>3, StandaloneTyped
        <2>. QED BY <1>1, <1>3, <2>1, <2>2 DEF TableInv, Scanning
    <1>. QED BY <1>1, <1>2, <1>3 DEF TableInv, Machines

LEMMA SameTableVars == ASSUME TableInv, UNCHANGED tableVars PROVE TableInv'
    <1>. USE DEF tableVars, configVars, busVars
    <1>1. UNCHANGED <<machine, file, conf, bus, table, nextAddr, scan>>
        OBVIOUS
    <1>2. /\ (table \in Tables)' <=> table \in Tables
          /\ ChainInv(table)' <=> ChainInv(table)
          /\ PlacedInv(table, conf.devs)' <=> PlacedInv(table, conf.devs)
        BY <1>1 DEF ChainInv, EndOf, PlacedInv, Live
    <1>3. (OrderInv' <=> OrderInv) /\ (ReachedInv' <=> ReachedInv) /\ (Scanning' <=> Scanning)
        BY <1>1 DEF OrderInv, Found, ReachedInv, Scanning
    <1>. QED BY <1>1, <1>2, <1>3 DEF TableInv

LEMMA FlatTable == ASSUME TableInv, machine = "flat", Next PROVE TableInv'
    <1>1. machine' = "flat" /\ file' \in Files /\ conf' = Parse(file')
        <2>. USE DEF TableInv
        <2>1. CASE Reset
            BY <2>1, StandaloneAssumption DEF Reset, ResetCore, ResetStandalone, NewConfig
        <2>2. CASE Scan
            BY <2>2 DEF Scan, Look, Dialogue, Detect, configVars
        <2>3. CASE Start
            BY <2>3 DEF Start, EndOfConfig, SetRunning, InitAgain, FindGate, configVars
        <2>4. CASE Use
            BY <2>4 DEF Use, Application, Input, BaseInput, tableVars, configVars
        <2>. QED BY <2>1, <2>2, <2>3, <2>4 DEF Next
    <1>. QED BY <1>1 DEF TableInv

LEMMA NextTable ==
    ASSUME IndInv, IndInv', TableInv, machine \in Machines, Next
    PROVE  TableInv'
    <1>. SUFFICES ASSUME machine # "flat" PROVE TableInv'
        BY FlatTable
    <1>1. machine # "core" => scan.step = "running"
        BY DEF TableInv, Machines
    <1>2. CASE Reset
        <2>1. CASE \E f \in Files, b \in Buses : ResetCore(f, b)
            <3>. USE DEF ResetCore, NewConfig, RestartScan
            <3>. QED BY <2>1, NewScanTable
        <2>2. CASE \E f \in StandaloneFiles : ResetStandalone(f)
            BY <2>2, StandaloneAssumption, ResetStandaloneTable
        <2>. QED BY <1>2, <2>1, <2>2 DEF Reset
    <1>3. CASE Scan
        <2>1. PICK s \in Sides : \/ Look(s)
                                 \/ Dialogue(s, "found")
                                 \/ \E a \in {"lost", "repeated"} : Dialogue(s, a)
                                 \/ \E lost \in BOOLEAN : Detect(s, lost)
            BY <1>3 DEF Scan
        <2>2. /\ machine = "core" /\ machine' = machine
              /\ scan.side = s /\ scan.step \in {"look", "dialogue", "detect"}
            BY <1>1, <2>1 DEF Look, Dialogue, Detect, At
        <2>3. ScanInv /\ ScanInv' /\ Scanning
            BY <2>2 DEF IndInv, Scanning
        <2>4. CASE Dialogue(s, "found")
            BY <2>2, <2>3, <2>4, FoundStep, FoundTable
        <2>5. CASE Look(s)
            <3>1. UNCHANGED <<machine, file, conf, bus, table, nextAddr>>
                BY <2>5 DEF Look, configVars
            <3>. QED BY <2>2, <2>3, <2>5, <3>1, LookStep, ScanKeepsTable
        <2>6. CASE \E a \in {"lost", "repeated"} : Dialogue(s, a)
            <3>1. UNCHANGED <<machine, file, conf, bus, table, nextAddr>>
                BY <2>6 DEF Dialogue, configVars
            <3>. QED BY <2>2, <2>3, <2>6, <3>1, NotFoundStep, ScanKeepsTable
        <2>7. CASE \E lost \in BOOLEAN : Detect(s, lost)
            <3>1. UNCHANGED <<machine, file, conf, bus, table, nextAddr>>
                BY <2>7 DEF Detect, configVars
            <3>. QED BY <2>2, <2>3, <2>7, <3>1, DetectStep, ScanKeepsTable
        <2>. QED BY <2>1, <2>4, <2>5, <2>6, <2>7
    <1>4. CASE Start
        <2>1. CASE EndOfConfig
            <3>1. machine = "core"
                BY <1>1, <2>1 DEF EndOfConfig, At
            <3>. QED BY <2>1, <3>1, EndOfConfigTable
        <2>2. CASE SetRunning
            <3>1. scan'.step = "running"
                BY <2>2 DEF SetRunning, Running, FirstScan
            <3>. QED BY <2>2, <3>1, SameTable DEF SetRunning, configVars
        <2>3. CASE InitAgain
            <3>1. machine = "core" /\ machine' = "core"
                BY <1>1, <2>3 DEF InitAgain, At
            <3>2. /\ bus' \in Buses /\ table' = BaseTable /\ file' \in Files /\ conf' = Parse(file')
                  /\ scan' = FirstScan(scan.retries - 1)
                BY <2>3, <3>1 DEF InitAgain, configVars, RestartScan, IndInv, ScanInv, ScanTypeOK,
                                  TableInv
            <3>. QED BY <3>1, <3>2, NewScanTable
        <2>4. CASE \E s \in Sides, t \in DOMAIN Module : FindGate(s, t)
            BY <2>4, FindGateTable
        <2>. QED BY <1>4, <2>1, <2>2, <2>3, <2>4 DEF Start
    <1>5. CASE Use
        <2>1. UNCHANGED tableVars
            BY <1>5 DEF Use, Application, Input, BaseInput
        <2>. QED BY <2>1, SameTableVars
    <1>. QED BY <1>2, <1>3, <1>4, <1>5 DEF Next

(* The table holds what the file says or what the scan found, each at a    *)
(* place of its own.                                                       *)
THEOREM TableInvariance == Spec => [](IndInv /\ machine \in Machines /\ TableInv)
    <1>. DEFINE Inv == machine \in Machines /\ TableInv
    <1>1. Init => Inv
        BY InitTable DEF Init
    <1>2. IndInv /\ IndInv' /\ Inv /\ [Next]_vars => Inv'
        <2>1. ASSUME machine \in Machines, [Next]_vars PROVE machine' \in Machines
            <3>1. machine' = machine
                BY <2>1 DEF Next, Reset, ResetCore, ResetStandalone, Scan, Look, Dialogue, Detect,
                            Start, EndOfConfig, SetRunning, InitAgain, FindGate, Use, Application,
                            Input, BaseInput, vars, tableVars
            <3>. QED BY <2>1, <3>1
        <2>2. IndInv /\ IndInv' /\ Inv /\ Next => TableInv'
            BY NextTable
        <2>3. Inv /\ UNCHANGED vars => TableInv'
            BY SameTableVars DEF vars
        <2>. QED BY <2>1, <2>2, <2>3
    <1>. HIDE DEF Inv
    <1>3. Spec => [](IndInv /\ Inv)
        BY <1>1, <1>2, Invariance, PTL DEF Spec
    <1>. QED BY <1>3, PTL DEF Inv

(* Once the bridge runs, two active devices have different addresses, no   *)
(* byte of the process image belongs to two of them, and none is outside   *)
(* of it: whatever modules were found or are missing, and wherever a       *)
(* telegram was lost, for any configurations and modules that there is     *)
(* room for.                                                               *)
THEOREM PlacesOfDevices == Spec => []TableSound
    <1>1. TableInv => TableSound
        <2>. SUFFICES ASSUME TableInv, scan.step = "running", machine # "flat"
                      PROVE  TableSound
            BY DEF TableSound
        <2>1. /\ table \in Tables /\ file \in Files /\ conf = Parse(file)
              /\ ChainInv(table) \/ PlacedInv(table, conf.devs)
            BY DEF TableInv
        <2>2. Active \subseteq Live(table) /\ Active \subseteq DOMAIN table
            BY DEF Active, Live
        <2>3. Len(table) <= MaxDev
            BY <2>1, TableAssumption DEF Tables
        <2>. QED BY <2>1, <2>2, <2>3, ChainSound, PlacedSound DEF TableSound
    <1>. QED BY <1>1, TableInvariance, PTL

(* Loops over a finite number of steps.                                    *)
LEMMA Induction ==
    ASSUME NEW n \in Nat, NEW S, 0 \in S, \A i \in 1..n : i - 1 \in S => i \in S
    PROVE  \A i \in 0..n : i \in S
    <1>. SUFFICES ASSUME NEW i \in 0..n, i \notin S PROVE FALSE
        OBVIOUS
    <1>. DEFINE T == (0..n) \ S
    <1>1. T \in SUBSET Nat /\ T # {} /\ IsFiniteSet(T)
        <2>1. IsFiniteSet(0..n)
            BY FS_Interval
        <2>. QED BY <2>1, FS_Subset
    <1>2. PICK m \in T : \A k \in T : m <= k
        BY <1>1, MinElement
    <1>3. m \in 1..n /\ m - 1 \in 0..n /\ ~(m <= m - 1)
        OBVIOUS
    <1>4. m - 1 \in S
        BY <1>2, <1>3
    <1>. QED BY <1>2, <1>3, <1>4

(* A loop of n steps over a state in A; step[i] is what the i-th does.     *)
Loop(f, n, A, base, step) ==
    f \in [0..n -> A] /\ f[0] = base /\ \A i \in 1..n : f[i] = step[i][f[i - 1]]
LEMMA Recursion ==
    ASSUME NEW n \in Nat, NEW A, NEW base \in A, NEW step \in [1..n -> [A -> A]]
    PROVE  \E f : Loop(f, n, A, base, step)
    <1>. USE DEF Loop
    <1>. DEFINE S == {m \in 0..n : \E f : Loop(f, m, A, base, step)}
    <1>1. 0 \in S
        <2>. DEFINE f == [i \in {0} |-> base]
        <2>1. 0..0 = {0} /\ 1..0 = {} /\ 0 \in 0..n
            OBVIOUS
        <2>2. f \in [{0} -> A] /\ f[0] = base
            OBVIOUS
        <2>3. Loop(f, 0, A, base, step)
            BY <2>1, <2>2
        <2>. QED BY <2>1, <2>3
    <1>2. ASSUME NEW m \in 1..n, m - 1 \in S PROVE m \in S
        <2>1. PICK f : Loop(f, m - 1, A, base, step)
            BY <1>2
        <2>. DEFINE g == [i \in 0..m |-> IF i = m THEN step[m][f[m - 1]] ELSE f[i]]
        <2>2. \A i \in 0..m : i # m => i \in 0..(m - 1)
            OBVIOUS
        <2>3. m - 1 \in 0..(m - 1) /\ f[m - 1] \in A /\ step[m] \in [A -> A] /\ m # 0
            BY <2>1
        <2>4. g \in [0..m -> A]
            BY <2>1, <2>2, <2>3
        <2>5. g[0] = base
            BY <2>1, <2>3
        <2>6. ASSUME NEW i \in 1..m PROVE g[i] = step[i][g[i - 1]]
            <3>1. i - 1 \in 0..m /\ i - 1 # m /\ g[i - 1] = f[i - 1]
                OBVIOUS
            <3>2. CASE i = m
                BY <3>1, <3>2
            <3>3. CASE i # m
                <4>1. i \in 1..(m - 1) /\ g[i] = f[i]
                    BY <3>3
                <4>. QED BY <2>1, <3>1, <4>1
            <3>. QED BY <3>2, <3>3
        <2>. HIDE DEF g
        <2>7. Loop(g, m, A, base, step)
            BY <2>4, <2>5, <2>6
        <2>. QED BY <2>7
    <1>3. n \in S
        <2>. HIDE DEF S
        <2>1. n \in 0..n
            OBVIOUS
        <2>. QED BY <1>1, <1>2, <2>1, Induction
    <1>. QED BY <1>3

(* Lists of lengths len[1], ..., len[n] one behind the other: the d-th has *)
(* the places behind at[d - 1] up to at[d].                                *)
LEMMA Offsets ==
    ASSUME NEW n \in Nat, NEW len \in [1..n -> Nat], NEW at \in [0..n -> Nat],
           at[0] = 0, \A d \in 1..n : at[d] = at[d - 1] + len[d]
    PROVE  /\ \A d \in 0..n : \A c \in 0..d : at[c] <= at[d]
           /\ \A i \in 1..at[n] : \E d \in 1..n : \E k \in 1..len[d] : i = at[d - 1] + k
    <1>1. \A d \in 0..n : \A c \in 0..d : at[c] <= at[d]
        <2>. DEFINE S == {d \in 0..n : \A c \in 0..d : at[c] <= at[d]}
        <2>1. 0 \in S
            OBVIOUS
        <2>2. ASSUME NEW d \in 1..n, d - 1 \in S PROVE d \in S
            <3>1. at[d] \in Nat /\ at[d - 1] \in Nat /\ len[d] \in Nat /\ at[d] = at[d - 1] + len[d]
                OBVIOUS
            <3>2. at[d - 1] <= at[d] /\ at[d] <= at[d]
                BY <3>1
            <3>3. ASSUME NEW c \in 0..d PROVE at[c] <= at[d]
                <4>1. CASE c = d
                    BY <3>2, <4>1
                <4>2. CASE c # d
                    <5>1. c \in 0..(d - 1) /\ at[c] \in Nat
                        BY <4>2
                    <5>2. at[c] <= at[d - 1]
                        BY <2>2, <5>1
                    <5>. QED BY <3>1, <3>2, <5>1, <5>2
                <4>. QED BY <4>1, <4>2
            <3>. QED BY <3>3
        <2>. HIDE DEF S
        <2>3. \A d \in 0..n : d \in S
            BY <2>1, <2>2, Induction
        <2>. QED BY <2>3 DEF S
    <1>2. \A i \in 1..at[n] : \E d \in 1..n : \E k \in 1..len[d] : i = at[d - 1] + k
        <2>. SUFFICES ASSUME NEW i \in 1..at[n]
                      PROVE  \E d \in 1..n : \E k \in 1..len[d] : i = at[d - 1] + k
            OBVIOUS
        <2>. DEFINE T == {d \in 1..n : i <= at[d]}
        <2>1. T \in SUBSET Nat /\ IsFiniteSet(T)
            <3>1. IsFiniteSet(1..n)
                BY FS_Interval
            <3>. QED BY <3>1, FS_Subset
        <2>2. n \in T
            <3>1. at[n] \in Nat /\ i \in Nat /\ 1 <= i /\ i <= at[n]
                OBVIOUS
            <3>2. n # 0
                BY <3>1
            <3>. QED BY <3>1, <3>2
        <2>3. PICK d \in T : \A c \in T : d <= c
            BY <2>1, <2>2, MinElement
        <2>4. d \in 1..n /\ d - 1 \in 0..n /\ i <= at[d] /\ ~(d <= d - 1)
            OBVIOUS
        <2>5. at[d] \in Nat /\ at[d - 1] \in Nat /\ len[d] \in Nat /\ at[d] = at[d - 1] + len[d]
            BY <2>4
        <2>6. at[d - 1] < i
            <3>1. CASE d = 1
                BY <3>1
            <3>2. CASE d # 1
                <4>1. d - 1 \in 1..n /\ d - 1 \notin T
                    BY <2>3, <2>4, <3>2
                <4>. QED BY <2>5, <4>1
            <3>. QED BY <3>1, <3>2
        <2>7. i - at[d - 1] \in 1..len[d] /\ i = at[d - 1] + (i - at[d - 1])
            BY <2>4, <2>5, <2>6
        <2>. QED BY <2>4, <2>7
    <1>. QED BY <1>1, <1>2

LEMMA Within ==
    ASSUME NEW x \in Nat, NEW y \in Nat, NEW z \in Nat, NEW len \in Nat, NEW k \in 1..len,
           y = x + len, y <= z
    PROVE  x + k \in 1..z
    OBVIOUS

(* The sequence of all their elements.                                     *)
LEMMA Flattened ==
    ASSUME NEW X, NEW s \in Seq(Seq(X)), NEW at \in [0..Len(s) -> Nat],
           at[0] = 0, \A d \in 1..Len(s) : at[d] = at[d - 1] + Len(s[d])
    PROVE  /\ FlattenSeq(s) \in Seq(X) /\ Len(FlattenSeq(s)) = at[Len(s)]
           /\ \A d \in 1..Len(s) : \A k \in 1..Len(s[d]) : FlattenSeq(s)[at[d - 1] + k] = s[d][k]
    <1>. DEFINE n == Len(s)
    <1>1. n \in Nat /\ DOMAIN s = 1..n /\ \A d \in 1..n : s[d] \in Seq(X) /\ Len(s[d]) \in Nat
        OBVIOUS
    <1>4. \A c \in 0..n : at[c] \in Nat
        OBVIOUS
    <1>2. CASE n = 0
        BY <1>2 DEF FlattenSeq
    <1>3. CASE n # 0
        <2>. DEFINE step == [i \in 1..n |-> [a \in Seq(X) |-> a \o s[i]]]
        <2>0. \A d \in 0..n : \A c \in 0..d : at[c] <= at[d]
            <3>. DEFINE len == [d \in 1..n |-> Len(s[d])]
            <3>1. len \in [1..n -> Nat] /\ \A d \in 1..n : at[d] = at[d - 1] + len[d]
                BY <1>1
            <3>. HIDE DEF len, n
            <3>. QED BY <1>1, <3>1, Offsets DEF n
        <2>1. step \in [1..n -> [Seq(X) -> Seq(X)]] /\ <<>> \in Seq(X)
            BY <1>1
        <2>2. PICK g \in [0..n -> Seq(X)] : g[0] = <<>> /\ \A i \in 1..n : g[i] = step[i][g[i - 1]]
            <3>. DEFINE A == Seq(X)
                        base == <<>>
            <3>1. n \in Nat /\ step \in [1..n -> [A -> A]] /\ base \in A
                BY <1>1, <2>1
            <3>. HIDE DEF step, n, A, base
            <3>2. PICK g : Loop(g, n, A, base, step)
                BY <3>1, Recursion
            <3>. QED BY <3>2 DEF Loop, A, base
        <2>3. ASSUME NEW i \in 1..n
              PROVE  i - 1 \in 0..n /\ g[i - 1] \in Seq(X) /\ g[i] = g[i - 1] \o s[i]
            <3>1. i - 1 \in 0..n
                OBVIOUS
            <3>. QED BY <2>2, <3>1
        <2>. DEFINE h == [i \in 1..n |-> g[i]]
        <2>. HIDE DEF step
        <2>4. h = [i \in 1..n |-> IF i = 1 THEN s[i] ELSE h[i - 1] \o s[i]]
            <3>1. ASSUME NEW i \in 1..n PROVE g[i] = IF i = 1 THEN s[i] ELSE h[i - 1] \o s[i]
                <4>1. CASE i = 1
                    <5>1. g[1] = g[0] \o s[1] /\ s[1] \in Seq(X) /\ 1 \in 1..n
                        BY <1>1, <2>3, <4>1
                    <5>2. <<>> \o s[1] = s[1]
                        BY <5>1
                    <5>. QED BY <2>2, <4>1, <5>1, <5>2
                <4>2. CASE i # 1
                    <5>1. i - 1 \in 1..n
                        BY <4>2
                    <5>. QED BY <2>3, <4>2, <5>1
                <4>. QED BY <4>1, <4>2
            <3>. QED BY <3>1
        <2>. DEFINE flatten[i \in 1..n] == IF i = 1 THEN s[i] ELSE flatten[i - 1] \o s[i]
        <2>5. flatten = [i \in 1..n |-> IF i = 1 THEN s[i] ELSE flatten[i - 1] \o s[i]]
            BY <2>4
        <2>6. FlattenSeq(s) = flatten[n]
            BY <1>3 DEF FlattenSeq
        <2>. HIDE DEF flatten
        <2>7. ASSUME NEW d \in 1..n
              PROVE  flatten[d] = IF d = 1 THEN s[d] ELSE flatten[d - 1] \o s[d]
            <3>. DEFINE r(i) == IF i = 1 THEN s[i] ELSE flatten[i - 1] \o s[i]
            <3>1. flatten = [i \in 1..n |-> r(i)]
                BY <2>5
            <3>. HIDE DEF r
            <3>2. flatten[d] = r(d)
                BY <3>1
            <3>. QED BY <3>2 DEF r
        <2>. DEFINE Joins(d) == /\ flatten[d] \in Seq(X) /\ Len(flatten[d]) = at[d]
                                /\ \A c \in 1..d : \A k \in 1..Len(s[c]) :
                                      flatten[d][at[c - 1] + k] = s[c][k]
                    S == {d \in 0..n : d = 0 \/ Joins(d)}
        <2>. HIDE DEF h
        <2>8. ASSUME NEW d \in 1..n, d = 1 \/ Joins(d - 1) PROVE Joins(d)
            <3>1. s[d] \in Seq(X) /\ Len(s[d]) \in Nat /\ at[d] = at[d - 1] + Len(s[d])
                BY <1>1
            <3>2. CASE d = 1
                <4>1. flatten[d] = s[d] /\ at[d - 1] = 0 /\ at[d] = Len(s[d])
                    BY <2>7, <3>1, <3>2
                <4>2. ASSUME NEW c \in 1..d, NEW k \in 1..Len(s[c])
                      PROVE  flatten[d][at[c - 1] + k] = s[c][k]
                    <5>1. c = d /\ at[c - 1] + k = k
                        BY <3>1, <3>2, <4>1
                    <5>. QED BY <4>1, <5>1
                <4>. HIDE DEF n
                <4>. QED BY <3>1, <4>1, <4>2
            <3>3. CASE d # 1
                <4>1. Joins(d - 1) /\ flatten[d] = flatten[d - 1] \o s[d]
                    BY <2>7, <2>8, <3>3
                <4>2. /\ flatten[d] \in Seq(X) /\ Len(flatten[d]) = at[d - 1] + Len(s[d])
                      /\ \A i \in 1..at[d - 1] : flatten[d][i] = flatten[d - 1][i]
                      /\ \A i \in 1..Len(s[d]) : flatten[d][at[d - 1] + i] = s[d][i]
                    <5>. DEFINE a == flatten[d - 1]
                                b == s[d]
                    <5>1. a \in Seq(X) /\ Len(a) = at[d - 1] /\ b \in Seq(X) /\ flatten[d] = a \o b
                        BY <3>1, <4>1
                    <5>. HIDE DEF a, b
                    <5>2. /\ flatten[d] \in Seq(X) /\ Len(flatten[d]) = at[d - 1] + Len(b)
                          /\ \A i \in 1..at[d - 1] : flatten[d][i] = a[i]
                          /\ \A i \in 1..Len(b) : flatten[d][at[d - 1] + i] = b[i]
                        <6>1. /\ a \o b \in Seq(X) /\ Len(a \o b) = Len(a) + Len(b)
                              /\ \A i \in 1..Len(a) : (a \o b)[i] = a[i]
                              /\ \A i \in 1..Len(b) : (a \o b)[Len(a) + i] = b[i]
                            <7>1. a \in Seq(X) /\ b \in Seq(X)
                                BY <5>1
                            <7>2. a \o b \in Seq(X) /\ Len(a \o b) = Len(a) + Len(b)
                                BY ONLY <7>1
                            <7>3. \A i \in 1..Len(a) : (a \o b)[i] = a[i]
                                BY ONLY <7>1
                            <7>4. \A i \in 1..Len(b) : (a \o b)[Len(a) + i] = b[i]
                                BY ONLY <7>1
                            <7>. QED BY ONLY <7>2, <7>3, <7>4
                        <6>. QED BY ONLY <5>1, <6>1
                    <5>. QED BY <5>2 DEF a, b
                <4>3. ASSUME NEW c \in 1..d, NEW k \in 1..Len(s[c])
                      PROVE  flatten[d][at[c - 1] + k] = s[c][k]
                    <5>1. CASE c = d
                        BY <4>2, <5>1
                    <5>2. CASE c # d
                        <6>1. c \in 1..(d - 1) /\ c \in 1..n /\ c - 1 \in 0..n /\ c \in 0..(d - 1) /\ d - 1 \in 0..n
                            BY <5>2
                        <6>2. /\ at[c] <= at[d - 1] /\ at[c] = at[c - 1] + Len(s[c])
                              /\ at[c] \in Nat /\ at[c - 1] \in Nat /\ at[d - 1] \in Nat /\ Len(s[c]) \in Nat
                            <7>1. at[c] \in Nat /\ at[c - 1] \in Nat /\ at[d - 1] \in Nat
                                <8>1. c \in 0..n
                                    BY <6>1
                                <8>. HIDE DEF n
                                <8>. QED BY <1>4, <6>1, <8>1
                            <7>. QED BY <1>1, <2>0, <6>1, <7>1
                        <6>3. at[c - 1] + k \in 1..at[d - 1]
                            BY <6>2, Within
                        <6>4. flatten[d - 1][at[c - 1] + k] = s[c][k]
                            BY <4>1, <6>1
                        <6>. QED BY <4>2, <6>3, <6>4
                    <5>. QED BY <5>1, <5>2
                <4>. HIDE DEF n
                <4>. QED BY <3>1, <4>2, <4>3
            <3>. QED BY <3>2, <3>3
        <2>9. n \in S
            <3>1. 0 \in S /\ n \in 0..n
                BY <1>1
            <3>2. \A d \in 1..n : d - 1 \in S => d \in S
                <4>. HIDE DEF Joins
                <4>1. \A d \in 1..n : d \in 0..n /\ (d - 1 = 0 <=> d = 1)
                    OBVIOUS
                <4>. QED BY <2>8, <4>1
            <3>. HIDE DEF S, n
            <3>. QED BY <1>1, <3>1, <3>2, Induction
        <2>. QED BY <1>1, <1>3, <2>6, <2>9
    <1>. QED BY <1>2, <1>3

(* A file: sequences of devices and of variables.                          *)
LEMMA FileTyped ==
    ASSUME NEW f \in Files
    PROVE  /\ DOMAIN f = 1..Len(f) /\ Len(f) \in Nat
           /\ \A d \in 1..Len(f) :
                 /\ f[d].address \in Nat /\ f[d].type \in DOMAIN Module /\ f[d].base \in Nat
                 /\ f[d].vars \in Seq(Variables(f))
                 /\ DOMAIN f[d].vars = 1..Len(f[d].vars) /\ Len(f[d].vars) \in Nat
                 /\ \A v \in DOMAIN f[d].vars : f[d].vars[v] \in Variables(f)
    <1>1. f \in Seq(Declarations(f))
        BY FileAssumption
    <1>2. DOMAIN f = 1..Len(f) /\ Len(f) \in Nat /\ \A d \in 1..Len(f) : f[d] \in Declarations(f)
        BY ONLY <1>1
    <1>3. ASSUME NEW d \in 1..Len(f)
          PROVE  /\ f[d].address \in Nat /\ f[d].type \in DOMAIN Module /\ f[d].base \in Nat
                 /\ f[d].vars \in Seq(Variables(f))
        <2>1. f[d] \in Declarations(f)
            BY <1>2
        <2>. QED BY ONLY <2>1 DEF Declarations
    <1>4. ASSUME NEW d \in 1..Len(f)
          PROVE  /\ DOMAIN f[d].vars = 1..Len(f[d].vars) /\ Len(f[d].vars) \in Nat
                 /\ \A v \in DOMAIN f[d].vars : f[d].vars[v] \in Variables(f)
        <2>. DEFINE s == f[d].vars
                    V == Variables(f)
        <2>1. s \in Seq(V)
            BY <1>3
        <2>. HIDE DEF s, V
        <2>2. DOMAIN s = 1..Len(s) /\ Len(s) \in Nat /\ \A v \in DOMAIN s : s[v] \in V
            BY ONLY <2>1
        <2>. QED BY <2>2 DEF s, V
    <1>. QED BY <1>2, <1>3, <1>4

(* How many entries come before those of a device.                         *)
LEMMA CountedEntries ==
    ASSUME NEW f \in Files
    PROVE  /\ Counted(f) \in [0..Len(f) -> Nat] /\ Counted(f)[0] = 0
           /\ \A d \in 1..Len(f) : Counted(f)[d] = Counted(f)[d - 1] + Len(f[d].vars)
    <1>. DEFINE n == Len(f)
                len == [d \in 1..n |-> Len(f[d].vars)]
                step == [d \in 1..n |-> [a \in Nat |-> a + len[d]]]
                zero == 0
    <1>1. n \in Nat /\ len \in [1..n -> Nat]
        BY FileTyped
    <1>2. step \in [1..n -> [Nat -> Nat]] /\ zero \in Nat
        <2>. HIDE DEF len, n
        <2>. QED BY <1>1
    <1>. HIDE DEF step, zero, n
    <1>3. PICK g : Loop(g, n, Nat, zero, step)
        BY <1>1, <1>2, Recursion
    <1>. HIDE DEF len
    <1>4. /\ g \in [0..n -> Nat] /\ g[0] = 0
          /\ \A d \in 1..n : d # 0 /\ d - 1 \in 0..n /\ g[d] = g[d - 1] + len[d]
        <2>1. g \in [0..n -> Nat] /\ g[0] = 0 /\ \A d \in 1..n : g[d] = step[d][g[d - 1]]
            BY <1>3 DEF Loop, zero
        <2>2. ASSUME NEW d \in 1..n PROVE d # 0 /\ d - 1 \in 0..n /\ g[d] = g[d - 1] + len[d]
            <3>1. d - 1 \in 0..n /\ d # 0
                BY <1>1
            <3>2. g[d - 1] \in Nat
                BY <2>1, <3>1
            <3>. QED BY <2>1, <3>1, <3>2 DEF step
        <2>. QED BY <2>1, <2>2
    <1>5. g = [d \in 0..n |-> IF d = 0 THEN 0 ELSE g[d - 1] + len[d]]
        <2>1. \A d \in 0..n : d = 0 \/ d \in 1..n
            BY <1>1
        <2>. QED BY <1>4, <2>1
    <1>6. g = [d \in 0..n |-> IF d = 0 THEN 0 ELSE g[d - 1] + Len(f[d].vars)]
        <2>1. \A d \in 0..n : d # 0 => len[d] = Len(f[d].vars)
            <3>1. \A d \in 0..n : d # 0 => d \in 1..n
                BY <1>1
            <3>. QED BY <3>1 DEF len
        <2>. QED BY <1>5, <2>1
    <1>. DEFINE entries[d \in 0..n] == IF d = 0 THEN 0 ELSE entries[d - 1] + Len(f[d].vars)
    <1>7. entries = [d \in 0..n |-> IF d = 0 THEN 0 ELSE entries[d - 1] + Len(f[d].vars)]
        BY <1>6
    <1>8. Counted(f) = entries
        BY DEF Counted, n
    <1>. HIDE DEF entries
    <1>. DEFINE next(d) == IF d = 0 THEN 0 ELSE entries[d - 1] + Len(f[d].vars)
    <1>9. entries = [d \in 0..n |-> next(d)]
        BY <1>7
    <1>. HIDE DEF next
    <1>10. \A d \in 0..n : entries[d] = next(d)
        BY <1>9
    <1>11. entries[0] = 0 /\ \A d \in 1..n : entries[d] = entries[d - 1] + Len(f[d].vars)
        <2>1. 0 \in 0..n /\ \A d \in 1..n : d \in 0..n /\ d # 0
            BY <1>1
        <2>. QED BY <1>10, <2>1 DEF next
    <1>12. \A d \in 0..n : entries[d] \in Nat
        <2>. DEFINE S == {d \in 0..n : entries[d] \in Nat}
        <2>1. 0 \in S
            BY <1>1, <1>11
        <2>2. \A d \in 1..n : d \in 0..n /\ Len(f[d].vars) \in Nat
            BY <1>1, FileTyped DEF n
        <2>3. \A d \in 1..n : d - 1 \in S => d \in S
            BY <1>11, <2>2
        <2>. HIDE DEF S
        <2>4. \A d \in 0..n : d \in S
            BY <1>1, <2>1, <2>3, Induction
        <2>. QED BY <2>4 DEF S
    <1>13. entries \in [0..n -> Nat]
        BY <1>9, <1>10, <1>12
    <1>. QED BY <1>8, <1>11, <1>13 DEF n

(* What find_entries makes of the v-th variable of the d-th device.        *)
Declaration(f, d, v) ==
    LET e == f[d].vars[v] IN
    [address |-> f[d].address, kind |-> e.kind, export |-> e.export, name |-> e.name,
     bits |-> e.bits, offset |-> e.offset, bit |-> IF e.bits = 1 THEN e.bit ELSE 0,
     default |-> e.default]
EntrySet(f) == [address: Nat, kind: Kinds, export: BOOLEAN, name: NamesIn(f),
                bits: {1, 8, 16, 32}, offset: Nat, bit: Nat, default: SUBSET Nat]

LEMMA DeclarationTyped ==
    ASSUME NEW f \in Files, NEW d \in 1..Len(f), NEW v \in 1..Len(f[d].vars)
    PROVE  Declaration(f, d, v) \in EntrySet(f)
    <1>. DEFINE e == f[d].vars[v]
                bit == IF e.bits = 1 THEN e.bit ELSE 0
    <1>1. e \in Variables(f) /\ f[d].address \in Nat
        BY FileTyped
    <1>2. /\ e.name \in NamesIn(f) /\ e.kind \in Kinds /\ e.bits \in {1, 8, 16, 32} /\ e.bit \in Nat
          /\ e.offset \in Nat /\ e.default \in SUBSET Nat /\ e.export \in BOOLEAN
        <2>. HIDE DEF e
        <2>. QED BY ONLY <1>1 DEF Variables
    <1>3. bit \in Nat
        <2>. HIDE DEF e
        <2>. QED BY <1>2
    <1>4. Declaration(f, d, v) =
            [address |-> f[d].address, kind |-> e.kind, export |-> e.export, name |-> e.name,
             bits |-> e.bits, offset |-> e.offset, bit |-> bit, default |-> e.default]
        BY DEF Declaration
    <1>. HIDE DEF e, bit
    <1>. QED BY ONLY <1>1, <1>2, <1>3, <1>4 DEF EntrySet

(* find_entries: the entries of a device follow those of the ones before.  *)
LEMMA EntriesFound ==
    ASSUME NEW f \in Files
    PROVE  /\ FindEntries(f) \in Seq(EntrySet(f)) /\ Len(FindEntries(f)) = Counted(f)[Len(f)]
           /\ \A d \in 1..Len(f) : \A v \in 1..Len(f[d].vars) :
                 FindEntries(f)[Counted(f)[d - 1] + v] = Declaration(f, d, v)
    <1>. DEFINE n == Len(f)
                own(d) == [v \in DOMAIN f[d].vars |-> Declaration(f, d, v)]
                s == [d \in DOMAIN f |-> own(d)]
                at == Counted(f)
                X == EntrySet(f)
    <1>1. n \in Nat /\ DOMAIN f = 1..n
        BY FileTyped
    <1>2. ASSUME NEW d \in 1..n
          PROVE  /\ own(d) \in Seq(X) /\ Len(own(d)) = Len(f[d].vars)
                 /\ \A v \in 1..Len(f[d].vars) : own(d)[v] = Declaration(f, d, v)
        <2>. DEFINE m == Len(f[d].vars)
        <2>1. m \in Nat /\ DOMAIN f[d].vars = 1..m
            BY FileTyped
        <2>2. \A v \in 1..m : Declaration(f, d, v) \in X
            BY DeclarationTyped
        <2>. HIDE DEF m, X
        <2>3. own(d) = [v \in 1..m |-> Declaration(f, d, v)]
            BY <2>1
        <2>. HIDE DEF own
        <2>4. own(d) \in Seq(X) /\ Len(own(d)) = m /\ \A v \in 1..m : own(d)[v] = Declaration(f, d, v)
            BY ONLY <2>1, <2>2, <2>3
        <2>. QED BY <2>4 DEF m
    <1>3. FindEntries(f) = FlattenSeq(s)
        BY DEF FindEntries, Declaration
    <1>4. at \in [0..n -> Nat] /\ at[0] = 0 /\ \A d \in 1..n : at[d] = at[d - 1] + Len(f[d].vars)
        BY CountedEntries
    <1>. HIDE DEF own, at, n, X
    <1>5. s \in Seq(Seq(X)) /\ Len(s) = n /\ \A d \in 1..n : s[d] = own(d)
        <2>1. s = [d \in 1..n |-> own(d)]
            BY <1>1
        <2>. HIDE DEF s
        <2>2. \A d \in 1..n : own(d) \in Seq(X)
            BY <1>2
        <2>. QED BY ONLY <1>1, <2>1, <2>2
    <1>. HIDE DEF s
    <1>6. at \in [0..Len(s) -> Nat] /\ at[0] = 0 /\ \A d \in 1..Len(s) : at[d] = at[d - 1] + Len(s[d])
        BY <1>2, <1>4, <1>5
    <1>7. /\ FlattenSeq(s) \in Seq(X) /\ Len(FlattenSeq(s)) = at[Len(s)]
          /\ \A d \in 1..Len(s) : \A v \in 1..Len(s[d]) : FlattenSeq(s)[at[d - 1] + v] = s[d][v]
        <2>1. s \in Seq(Seq(X))
            BY <1>5
        <2>. QED BY ONLY <1>6, <2>1, Flattened
    <1>8. ASSUME NEW d \in 1..n, NEW v \in 1..Len(f[d].vars)
          PROVE  FlattenSeq(s)[at[d - 1] + v] = Declaration(f, d, v)
        <2>1. s[d] = own(d) /\ v \in 1..Len(s[d]) /\ own(d)[v] = Declaration(f, d, v)
            BY <1>2, <1>5
        <2>2. d \in 1..Len(s)
            BY <1>5
        <2>. QED BY ONLY <1>7, <2>1, <2>2
    <1>9. Len(FlattenSeq(s)) = at[n]
        BY <1>5, <1>7
    <1>. QED BY ONLY <1>3, <1>7, <1>8, <1>9 DEF at, n, X

(* Which device and variable an entry comes from.                          *)
LEMMA Places ==
    ASSUME NEW f \in Files
    PROVE  /\ Counted(f)[Len(f)] \in Nat
           /\ \A k \in 1..Counted(f)[Len(f)] : \E d \in 1..Len(f) : \E v \in 1..Len(f[d].vars) :
                 k = Counted(f)[d - 1] + v
           /\ \A d \in 1..Len(f) : \A v \in 1..Len(f[d].vars) :
                 Counted(f)[d - 1] \in Nat /\ Counted(f)[d - 1] + v \in 1..Counted(f)[Len(f)]
           /\ \A c, d \in 1..Len(f) : \A u \in 1..Len(f[c].vars) : \A v \in 1..Len(f[d].vars) :
                 c < d => Counted(f)[c - 1] + u < Counted(f)[d - 1] + v
    <1>. DEFINE n == Len(f)
                at == Counted(f)
                len == [d \in 1..n |-> Len(f[d].vars)]
    <1>1. n \in Nat /\ len \in [1..n -> Nat] /\ at \in [0..n -> Nat] /\ at[0] = 0
        BY FileTyped, CountedEntries
    <1>2. \A d \in 1..n : at[d] = at[d - 1] + len[d]
        BY CountedEntries
    <1>3. \A d \in 1..n : len[d] = Len(f[d].vars)
        OBVIOUS
    <1>. HIDE DEF n, at, len
    <1>4. /\ \A d \in 0..n : \A c \in 0..d : at[c] <= at[d]
          /\ \A k \in 1..at[n] : \E d \in 1..n : \E v \in 1..len[d] : k = at[d - 1] + v
        BY <1>1, <1>2, Offsets
    <1>5. \A d \in 0..n : at[d] \in Nat
        BY <1>1
    <1>6. ASSUME NEW d \in 1..n
          PROVE  /\ at[d - 1] \in Nat /\ at[d] \in Nat /\ len[d] \in Nat /\ at[d] = at[d - 1] + len[d]
                 /\ at[d] <= at[n] /\ at[n] \in Nat
                 /\ \A c \in 1..n : c < d => at[c] <= at[d - 1]
        <2>1. d - 1 \in 0..n /\ d \in 0..n /\ n \in 0..n /\ d \in 0..n
            BY <1>1
        <2>2. \A c \in 1..n : c < d => c \in 0..(d - 1)
            BY <1>1
        <2>. QED BY <1>1, <1>2, <1>4, <1>5, <2>1, <2>2
    <1>7. ASSUME NEW d \in 1..n, NEW v \in 1..len[d] PROVE at[d - 1] + v \in 1..at[n]
        BY <1>6, Within
    <1>8. ASSUME NEW c \in 1..n, NEW d \in 1..n, NEW u \in 1..len[c], NEW v \in 1..len[d], c < d
          PROVE  at[c - 1] + u < at[d - 1] + v
        <2>1. /\ at[c - 1] \in Nat /\ at[c] \in Nat /\ len[c] \in Nat /\ at[c] = at[c - 1] + len[c]
              /\ at[d - 1] \in Nat /\ at[c] <= at[d - 1] /\ len[d] \in Nat
            BY <1>6, <1>8
        <2>2. u \in Nat /\ v \in Nat /\ u <= len[c] /\ v > 0
            BY <2>1
        <2>. QED BY ONLY <2>1, <2>2
    <1>9. at[n] \in Nat
        BY <1>1, <1>5
    <1>10. \A k \in 1..at[n] : \E d \in 1..n : \E v \in 1..Len(f[d].vars) : k = at[d - 1] + v
        BY ONLY <1>3, <1>4
    <1>11. \A d \in 1..n : \A v \in 1..Len(f[d].vars) :
              at[d - 1] \in Nat /\ at[d - 1] + v \in 1..at[n]
        BY ONLY <1>3, <1>6, <1>7
    <1>12. \A c, d \in 1..n : \A u \in 1..Len(f[c].vars) : \A v \in 1..Len(f[d].vars) :
              c < d => at[c - 1] + u < at[d - 1] + v
        BY ONLY <1>3, <1>8
    <1>. QED BY ONLY <1>9, <1>10, <1>11, <1>12 DEF n, at

(* What the driver of a device gets are the entries of its own variables.  *)
LEMMA OwnEntries ==
    ASSUME NEW f \in Files, NEW d \in 1..Len(f)
    PROVE  LET own == EntriesOf(FindDevices(f), FindEntries(f), d) IN
           /\ DOMAIN own = 1..Len(f[d].vars)
           /\ \A v \in 1..Len(f[d].vars) : own[v] = Declaration(f, d, v)
    <1>. DEFINE ent == FindEntries(f)
                devs == FindDevices(f)
                n == Len(f)
                at == Counted(f)[d - 1]
                m == Len(f[d].vars)
                own == EntriesOf(devs, ent, d)
    <1>1. at \in Nat /\ m \in Nat
        <2>1. Counted(f) \in [0..Len(f) -> Nat] /\ d - 1 \in 0..Len(f)
            BY CountedEntries, FileTyped
        <2>. QED BY <2>1, FileTyped
    <1>2. devs[d].first = at /\ devs[d].entries = m
        BY FileTyped DEF FindDevices
    <1>3. own = SubSeq(ent, at + 1, at + m)
        BY <1>2 DEF EntriesOf
    <1>4. \A v \in 1..m : ent[at + v] = Declaration(f, d, v)
        BY EntriesFound
    <1>. HIDE DEF at, m, ent, devs, own
    <1>5. \A i \in (at + 1)..(at + m) : ent[i] \in {ent[k] : k \in (at + 1)..(at + m)}
        OBVIOUS
    <1>6. /\ own \in Seq({ent[k] : k \in (at + 1)..(at + m)}) /\ Len(own) = m
          /\ \A v \in 1..m : own[v] = ent[at + v]
        <2>1. at + 1 \in Int /\ at + m \in Int
            BY <1>1
        <2>. DEFINE x == at + 1
                    y == at + m
                    V == {ent[k] : k \in (at + 1)..(at + m)}
        <2>2. x \in Int /\ y \in Int /\ \A i \in x..y : ent[i] \in V
            BY <1>5, <2>1
        <2>. HIDE DEF x, y, V
        <2>3. /\ SubSeq(ent, x, y) \in Seq(V) /\ Len(SubSeq(ent, x, y)) = IF x <= y THEN y - x + 1 ELSE 0
              /\ \A i \in 1..(y - x + 1) : SubSeq(ent, x, y)[i] = ent[x + i - 1]
            BY ONLY <2>2, SubSeqProperties
        <2>4. y - x + 1 = m /\ (IF x <= y THEN y - x + 1 ELSE 0) = m
            BY <1>1 DEF x, y
        <2>5. \A v \in 1..m : x + v - 1 = at + v
            BY <1>1 DEF x
        <2>6. own = SubSeq(ent, x, y)
            BY <1>3 DEF x, y
        <2>7. own \in Seq(V) /\ Len(own) = m /\ \A v \in 1..m : own[v] = ent[at + v]
            BY ONLY <2>3, <2>4, <2>5, <2>6
        <2>. QED BY <2>7 DEF V
    <1>7. DOMAIN own = 1..m
        BY ONLY <1>6
    <1>. QED BY <1>4, <1>6, <1>7 DEF own, m, ent, devs

LEMMA MaxElement ==
    ASSUME NEW n \in Nat, NEW S \in SUBSET (1..n), S # {}
    PROVE  Max(S) \in S
    <1>. DEFINE T == {m \in 1..n : \A k \in S : k <= m}
    <1>1. T \in SUBSET Nat /\ IsFiniteSet(T) /\ n \in T
        <2>1. IsFiniteSet(1..n)
            BY FS_Interval
        <2>2. PICK k \in S : TRUE
            OBVIOUS
        <2>3. k \in 1..n
            OBVIOUS
        <2>4. n \in 1..n
            BY <2>3
        <2>. QED BY <2>1, <2>4, FS_Subset
    <1>2. PICK m \in T : \A k \in T : m <= k
        <2>. HIDE DEF T
        <2>. QED BY <1>1, MinElement
    <1>3. m \in S
        <2>. SUFFICES ASSUME m \notin S PROVE FALSE
            OBVIOUS
        <2>1. ASSUME NEW k \in S PROVE k <= m - 1 /\ 1 <= m - 1
            <3>1. k # m /\ k <= m /\ k \in 1..n /\ m \in 1..n
                OBVIOUS
            <3>. QED BY ONLY <3>1
        <2>2. m - 1 \in T
            <3>1. m - 1 \in 1..n
                <4>1. PICK k \in S : TRUE
                    OBVIOUS
                <4>2. 1 <= m - 1 /\ m \in 1..n
                    BY <2>1
                <4>. QED BY ONLY <4>2, n \in Nat
            <3>. QED BY <2>1, <3>1
        <2>. QED BY <1>2, <2>2
    <1>4. \A k \in S : m >= k
        OBVIOUS
    <1>. HIDE DEF T
    <1>. QED BY <1>3, <1>4 DEF Max

(* The parameters of a device depend only on its own variables.            *)
LEMMA SameParameters ==
    ASSUME NEW f \in Files, NEW d \in 1..Len(f)
    PROVE  Parameters(EntriesOf(FindDevices(f), FindEntries(f), d)) = Parameters(f[d].vars)
    <1>. DEFINE n == Len(f[d].vars)
                a == EntriesOf(FindDevices(f), FindEntries(f), d)
                b == f[d].vars
    <1>1. n \in Nat /\ DOMAIN a = 1..n /\ DOMAIN b = 1..n
        BY OwnEntries, FileTyped
    <1>2. ASSUME NEW k \in 1..n
          PROVE  a[k].kind = b[k].kind /\ a[k].offset = b[k].offset /\ a[k].default = b[k].default
        <2>1. a[k] = Declaration(f, d, k)
            BY OwnEntries
        <2>. HIDE DEF a
        <2>. QED BY ONLY <2>1 DEF Declaration, b
    <1>. HIDE DEF a, b, n
    <1>. DEFINE params == {k \in 1..n : a[k].kind = "conf"}
                offsets == {a[k].offset : k \in params}
                at(o) == {k \in params : a[k].offset = o}
    <1>3. {k \in DOMAIN a : a[k].kind = "conf"} = params /\ {k \in DOMAIN b : b[k].kind = "conf"} = params
        BY <1>1, <1>2
    <1>4. {b[k].offset : k \in params} = offsets /\ \A o : {k \in params : b[k].offset = o} = at(o)
        BY <1>2
    <1>5. ASSUME NEW o \in offsets PROVE a[Max(at(o))].default = b[Max(at(o))].default
        <2>1. at(o) \in SUBSET (1..n) /\ at(o) # {}
            OBVIOUS
        <2>2. Max(at(o)) \in 1..n
            BY <1>1, <2>1, MaxElement
        <2>. QED BY <1>2, <2>2
    <1>6. Parameters(a) = [o \in offsets |-> a[Max(at(o))].default]
        BY <1>3 DEF Parameters
    <1>7. Parameters(b) = [o \in offsets |-> b[Max(at(o))].default]
        <2>. HIDE DEF params, offsets
        <2>. QED BY <1>3, <1>4 DEF Parameters
    <1>. HIDE DEF offsets, at
    <1>8. Parameters(a) = Parameters(b)
        BY ONLY <1>5, <1>6, <1>7
    <1>. QED BY <1>8 DEF a, b

(* The parameters of an AIO are of the offsets that all of them have.      *)
AnalogInv(list) ==
    "aio" \in DOMAIN DriverMax =>
        \A k \in DOMAIN list["aio"] : \E g \in Files : \E c \in DOMAIN g :
            g[c].type = "aio" /\ DOMAIN list["aio"][k].params = DOMAIN Parameters(g[c].vars)
OwnIn(f, list) ==
    \A t \in DOMAIN list : \A k \in DOMAIN list[t] : \E d \in DOMAIN f :
        /\ f[d].address = list[t][k].address /\ f[d].type = t
        /\ list[t][k].params = Parameters(f[d].vars)
SlotsInv ==
    /\ file \in Files
    /\ DOMAIN slots = DOMAIN DriverMax /\ AnalogInv(slots)
    /\ file # NoFile => OwnIn(file, slots)

(* The entry of a driver's list, with what an AIO had there before.        *)
LEMMA ConfiguredEntry ==
    ASSUME NEW f \in Files, NEW kept, AnalogInv(kept), NEW d \in 1..Len(f),
           f[d].type \in DOMAIN DriverMax, NEW n
    PROVE  LET e == Configured(kept[f[d].type], n, FindDevices(f)[d],
                               EntriesOf(FindDevices(f), FindEntries(f), d))
           IN  e.address = f[d].address /\ e.params = Parameters(f[d].vars)
    <1>. DEFINE list == kept[f[d].type]
                dev == FindDevices(f)[d]
                entries == EntriesOf(FindDevices(f), FindEntries(f), d)
                old == IF dev.type = "aio" /\ n \in DOMAIN list THEN list[n].params ELSE <<>>
                new == Parameters(entries)
                params == [o \in DOMAIN old \cup DOMAIN new |-> IF o \in DOMAIN new THEN new[o] ELSE old[o]]
    <1>1. dev.type = f[d].type /\ dev.address = f[d].address
        BY FileTyped DEF FindDevices
    <1>2. new = Parameters(f[d].vars)
        BY SameParameters
    <1>3. DOMAIN old \subseteq DOMAIN new
        <2>1. CASE dev.type = "aio" /\ n \in DOMAIN list
            <3>1. f[d].type = "aio" /\ n \in DOMAIN kept["aio"] /\ old = kept["aio"][n].params
                BY <1>1, <2>1
            <3>2. PICK g \in Files : \E c \in DOMAIN g :
                      g[c].type = "aio" /\ DOMAIN kept["aio"][n].params = DOMAIN Parameters(g[c].vars)
                BY <3>1 DEF AnalogInv
            <3>3. PICK c \in DOMAIN g :
                      g[c].type = "aio" /\ DOMAIN kept["aio"][n].params = DOMAIN Parameters(g[c].vars)
                BY <3>2
            <3>4. d \in DOMAIN f
                BY FileTyped
            <3>5. DOMAIN Parameters(g[c].vars) = DOMAIN Parameters(f[d].vars)
                BY <3>1, <3>3, <3>4, ParameterAssumption
            <3>. QED BY <1>2, <3>1, <3>3, <3>5
        <2>2. CASE ~(dev.type = "aio" /\ n \in DOMAIN list)
            <3>1. old = <<>>
                BY <2>2
            <3>2. DOMAIN <<>> = {}
                OBVIOUS
            <3>. QED BY <3>1, <3>2
        <2>. QED BY <2>1, <2>2
    <1>4. \E D, F : new = [o \in D |-> F[o]]
        <2>. DEFINE P == {k \in DOMAIN entries : entries[k].kind = "conf"}
                    D == {entries[k].offset : k \in P}
                    F == [o \in D |-> entries[Max({k \in P : entries[k].offset = o})].default]
        <2>1. new = F
            BY DEF Parameters
        <2>. HIDE DEF D, F
        <2>2. F = [o \in D |-> F[o]]
            BY DEF F
        <2>. QED BY <2>1, <2>2
    <1>. HIDE DEF old, new
    <1>5. params = [o \in DOMAIN new |-> new[o]]
        <2>1. DOMAIN old \cup DOMAIN new = DOMAIN new
            BY <1>3
        <2>. QED BY <2>1
    <1>6. params = new
        BY <1>4, <1>5
    <1>7. Configured(list, n, dev, entries) = [address |-> dev.address, params |-> params]
        BY DEF Configured, old, new
    <1>. HIDE DEF params
    <1>8. /\ Configured(list, n, dev, entries).address = dev.address
          /\ Configured(list, n, dev, entries).params = params
        BY ONLY <1>7
    <1>. QED BY <1>1, <1>2, <1>6, <1>8

(* Every entry of the lists comes from a device of the file.               *)
LEMMA ConfiguredLists ==
    ASSUME NEW f \in Files, NEW kept, AnalogInv(kept), f # NoFile
    PROVE  /\ DOMAIN Drivers(kept, f) = DOMAIN DriverMax
           /\ OwnIn(f, Drivers(kept, f)) /\ AnalogInv(Drivers(kept, f))
    <1>. DEFINE devs == FindDevices(f)
                ent == FindEntries(f)
                own(t) == {d \in DOMAIN devs : /\ devs[d].type = t
                                               /\ ~Refused(devs[d], EntriesOf(devs, ent, d))}
                most(t) == Min({Cardinality(own(t)), DriverMax[t]})
                e(t, n) == Configured(kept[t], n, devs[Nth(own(t), n)], EntriesOf(devs, ent, Nth(own(t), n)))
                lists == Drivers(kept, f)
    <1>1. lists = [t \in DOMAIN DriverMax |-> [n \in 1..most(t) |-> e(t, n)]]
        BY DEF Drivers, ConfigureDrivers
    <1>2. DOMAIN f = 1..Len(f) /\ DOMAIN devs = 1..Len(f) /\ Len(f) \in Nat
        BY FileTyped DEF FindDevices
    <1>3. ASSUME NEW t \in DOMAIN DriverMax, NEW n \in 1..most(t)
          PROVE  \E d \in DOMAIN f : /\ f[d].address = e(t, n).address /\ f[d].type = t
                                     /\ e(t, n).params = Parameters(f[d].vars)
        <2>1. own(t) \in SUBSET (1..Len(f)) /\ IsFiniteSet(own(t))
            <3>1. IsFiniteSet(1..Len(f))
                BY <1>2, FS_Interval
            <3>2. own(t) \in SUBSET (1..Len(f))
                BY <1>2
            <3>. QED BY <3>1, <3>2, FS_Subset
        <2>2. Cardinality(own(t)) \in Nat /\ DriverMax[t] \in Nat
            BY <2>1, FS_CardinalityType, ParameterAssumption
        <2>. DEFINE d == Nth(own(t), n)
        <2>3. d \in own(t)
            <3>. DEFINE S == own(t)
                        c == Cardinality(S)
                        m == DriverMax[t]
                        B == {c, m}
            <3>1. S \in SUBSET Nat /\ IsFiniteSet(S)
                BY <2>1
            <3>2. c \in Nat /\ m \in Nat /\ n \in 1..Min(B)
                BY <2>2
            <3>. HIDE DEF S
            <3>3. B \in SUBSET Nat /\ B # {} /\ IsFiniteSet(B)
                <4>1. IsFiniteSet({c})
                    BY FS_Singleton
                <4>2. IsFiniteSet({c} \cup {m})
                    BY <4>1, FS_AddElement
                <4>3. B = {c} \cup {m}
                    OBVIOUS
                <4>4. IsFiniteSet(B)
                    BY <4>2, <4>3
                <4>. QED BY <3>2, <4>4
            <3>. HIDE DEF B
            <3>4. Min(B) \in B /\ \A x \in B : Min(B) <= x
                BY <3>3, MinElement
            <3>5. n \in 1..c
                <4>. HIDE DEF c, m
                <4>1. Min(B) <= c /\ Min(B) \in Nat
                    BY <3>2, <3>4 DEF B
                <4>. QED BY <3>2, <4>1
            <3>6. Nth(S, n) \in S
                BY <3>1, <3>5, NthElement DEF c
            <3>. QED BY <3>6 DEF S
        <2>. HIDE DEF d
        <2>4. d \in 1..Len(f) /\ f[d].type = t
            BY <1>2, <2>3 DEF FindDevices
        <2>5. e(t, n) = Configured(kept[t], n, devs[d], EntriesOf(devs, ent, d))
            BY DEF d
        <2>. HIDE DEF e
        <2>6. e(t, n).address = f[d].address /\ e(t, n).params = Parameters(f[d].vars)
            BY <2>4, <2>5, ConfiguredEntry
        <2>. QED BY <1>2, <2>4, <2>6
    <1>. HIDE DEF e, most, lists
    <1>4. DOMAIN lists = DOMAIN DriverMax
        BY <1>1
    <1>5. \A t \in DOMAIN lists : DOMAIN lists[t] = 1..most(t) /\ \A n \in 1..most(t) : lists[t][n] = e(t, n)
        BY <1>1
    <1>6. OwnIn(f, lists)
        <2>. SUFFICES ASSUME NEW t \in DOMAIN lists, NEW k \in DOMAIN lists[t]
                      PROVE  \E d \in DOMAIN f : /\ f[d].address = lists[t][k].address /\ f[d].type = t
                                                 /\ lists[t][k].params = Parameters(f[d].vars)
            BY DEF OwnIn
        <2>1. t \in DOMAIN DriverMax /\ k \in 1..most(t) /\ lists[t][k] = e(t, k)
            BY <1>4, <1>5
        <2>2. \E d \in DOMAIN f : /\ f[d].address = e(t, k).address /\ f[d].type = t
                                  /\ e(t, k).params = Parameters(f[d].vars)
            BY <1>3, <2>1
        <2>. QED BY <2>1, <2>2
    <1>7. AnalogInv(lists)
        <2>. SUFFICES ASSUME "aio" \in DOMAIN DriverMax, NEW k \in DOMAIN lists["aio"]
                      PROVE  \E g \in Files : \E c \in DOMAIN g :
                                g[c].type = "aio" /\ DOMAIN lists["aio"][k].params = DOMAIN Parameters(g[c].vars)
            BY DEF AnalogInv
        <2>1. PICK d \in DOMAIN f : f[d].type = "aio" /\ lists["aio"][k].params = Parameters(f[d].vars)
            BY <1>4, <1>6 DEF OwnIn
        <2>. QED BY <2>1
    <1>. QED BY <1>4, <1>6, <1>7 DEF lists

LEMMA NewConfigSlots == ASSUME SlotsInv, NEW f \in Files, NewConfig(f) PROVE SlotsInv'
    <1>1. file' = f /\ slots' = Drivers(slots, f)
        BY DEF NewConfig
    <1>2. CASE f = NoFile
        BY <1>1, <1>2 DEF Drivers, SlotsInv, AnalogInv
    <1>3. CASE f # NoFile
        <2>1. DOMAIN slots' = DOMAIN DriverMax /\ OwnIn(f, slots') /\ AnalogInv(slots')
            BY <1>1, <1>3, ConfiguredLists DEF SlotsInv
        <2>2. DOMAIN slots' = DOMAIN DriverMax /\ OwnIn(file, slots)' /\ AnalogInv(slots)'
            BY <1>1, <2>1 DEF OwnIn, AnalogInv
        <2>. QED BY <1>1, <2>2 DEF SlotsInv
    <1>. QED BY <1>2, <1>3

(* A driver knows of a module the parameters of its own entry, whatever    *)
(* configurations follow one another.                                      *)
THEOREM ParametersOfModules == Spec => []OwnParameters
    <1>1. Init => SlotsInv
        <2>. SUFFICES ASSUME Init PROVE SlotsInv
            OBVIOUS
        <2>. DEFINE none == [t \in DOMAIN DriverMax |-> <<>>]
        <2>1. file \in Files /\ slots = Drivers(none, file)
            BY StandaloneAssumption DEF Init
        <2>2. AnalogInv(none)
            <3>1. DOMAIN <<>> = {}
                OBVIOUS
            <3>. QED BY <3>1 DEF AnalogInv
        <2>3. DOMAIN none = DOMAIN DriverMax
            OBVIOUS
        <2>. HIDE DEF none
        <2>4. CASE file = NoFile
            BY <2>1, <2>2, <2>3, <2>4 DEF Drivers, SlotsInv
        <2>5. CASE file # NoFile
            BY <2>1, <2>2, <2>5, ConfiguredLists DEF SlotsInv
        <2>. QED BY <2>4, <2>5
    <1>2. SlotsInv /\ [Next]_vars => SlotsInv'
        <2>. SUFFICES ASSUME SlotsInv, [Next]_vars PROVE SlotsInv'
            OBVIOUS
        <2>1. ASSUME UNCHANGED <<file, slots>> PROVE SlotsInv'
            BY <2>1 DEF SlotsInv, OwnIn, AnalogInv
        <2>2. CASE Reset
            <3>1. PICK f \in Files : NewConfig(f)
                BY <2>2, StandaloneAssumption DEF Reset, ResetCore, ResetStandalone
            <3>. QED BY <3>1, NewConfigSlots
        <2>3. CASE Scan
            BY <2>1, <2>3 DEF Scan, Look, Dialogue, Detect, configVars
        <2>4. CASE Start
            BY <2>1, <2>4 DEF Start, EndOfConfig, SetRunning, InitAgain, FindGate, configVars
        <2>5. CASE Use
            BY <2>1, <2>5 DEF Use, Application, Input, BaseInput, tableVars, configVars
        <2>6. CASE UNCHANGED vars
            BY <2>1, <2>6 DEF vars, tableVars, configVars
        <2>. QED BY <2>2, <2>3, <2>4, <2>5, <2>6 DEF Next
    <1>3. SlotsInv => OwnParameters
        BY DEF SlotsInv, OwnIn, OwnParameters
    <1>. QED BY <1>1, <1>2, <1>3, PTL DEF Spec

(* The list of devices: only the areas are added to what was found.        *)
LEMMA ParsedDevices ==
    ASSUME NEW f \in Files
    PROVE  /\ DOMAIN Parse(f).devs = 1..Len(f)
           /\ \A d \in 1..Len(f) :
                 /\ Parse(f).devs[d] \in Devices
                 /\ Parse(f).devs[d].address = f[d].address
                 /\ FindDevices(f)[d].address = f[d].address
                 /\ FindDevices(f)[d].base = f[d].base
           /\ \A c, d \in 1..Len(f) : c # d => f[c].address # f[d].address
    <1>. DEFINE fd == FindDevices(f)
                fe == FindEntries(f)
                of(e) == CHOOSE d \in DOMAIN fd : fd[d].address = e.address
                based == [k \in DOMAIN fe |-> Based(fe[k], fd[of(fe[k])])]
                devs == Parse(f).devs
    <1>1. devs = [d \in DOMAIN fd |-> WithAreas(fd[d], based)]
        BY DEF Parse, CorrectOffsets
    <1>. HIDE DEF based
    <1>2. DOMAIN fd = 1..Len(f)
        BY FileTyped DEF FindDevices
    <1>3. ASSUME NEW d \in 1..Len(f)
          PROVE  /\ devs[d].address = f[d].address
                 /\ fd[d].address = f[d].address /\ fd[d].base = f[d].base
        <2>1. fd[d].address = f[d].address /\ fd[d].base = f[d].base
            BY FileTyped DEF FindDevices
        <2>2. devs[d] = WithAreas(fd[d], based)
            BY <1>1, <1>2
        <2>. HIDE DEF devs, fd
        <2>3. WithAreas(fd[d], based).address = fd[d].address
            BY DEF WithAreas
        <2>. QED BY <2>1, <2>2, <2>3
    <1>4. DOMAIN devs = 1..Len(f)
        BY <1>1, <1>2
    <1>. HIDE DEF devs, fd
    <1>5. /\ \A d \in DOMAIN devs : devs[d] \in Devices
          /\ \A c, d \in DOMAIN devs : c # d => devs[c].address # devs[d].address
        BY FileDevices DEF devs
    <1>6. \A c, d \in 1..Len(f) : c # d => f[c].address # f[d].address
        BY ONLY <1>3, <1>4, <1>5
    <1>7. \A d \in 1..Len(f) : devs[d] \in Devices
        BY ONLY <1>4, <1>5
    <1>. QED BY ONLY <1>3, <1>4, <1>6, <1>7 DEF devs, fd

(* An entry of the list for a variable: its bits are where the file says.  *)
Describes(e, dev, v) ==
    /\ e.address = dev.address
    /\ e.name = v.name /\ e.kind = v.kind /\ e.bits = v.bits
    /\ e.default = v.default /\ e.export = v.export
    /\ e.kind \in Kinds /\ e.bits \in {1, 8, 16, 32} /\ e.default \in SUBSET Nat /\ e.export \in BOOLEAN
    /\ e.offset \in Nat /\ e.bit \in 0..7 /\ (e.bits # 1 => e.bit = 0)
    /\ 8 * e.offset + e.bit = FirstBit(dev, v)

LEMMA DivideBit ==
    ASSUME NEW b \in Nat
    PROVE  b \div 8 \in Nat /\ b % 8 \in 0..7 /\ b = 8 * (b \div 8) + (b % 8)
    OBVIOUS

LEMMA MovedBit ==
    ASSUME NEW a \in Nat, NEW b \in Nat, NEW c \in Nat, NEW q \in Nat, NEW r \in 0..7, c = 8 * q + r
    PROVE  a + b + q \in Nat /\ 8 * (a + b + q) + r = 8 * (b + a) + c /\ (c = 0 => r = 0)
    OBVIOUS

LEMMA ParsedEntry ==
    ASSUME NEW f \in Files, NEW d \in 1..Len(f), NEW v \in 1..Len(f[d].vars)
    PROVE  Describes(Parse(f).ent[Counted(f)[d - 1] + v], f[d], f[d].vars[v])
    <1>. DEFINE fd == FindDevices(f)
                fe == FindEntries(f)
                of(e) == CHOOSE c \in DOMAIN fd : fd[c].address = e.address
                i == Counted(f)[d - 1] + v
                x == f[d].vars[v]
                g == Declaration(f, d, v)
    <1>1. Parse(f).ent = [k \in DOMAIN fe |-> Normal([j \in DOMAIN fe |-> Based(fe[j], fd[of(fe[j])])][k])]
        BY DEF Parse, CorrectOffsets
    <1>2. fe[i] = g /\ i \in DOMAIN fe
        <2>1. fe \in Seq(EntrySet(f)) /\ Len(fe) = Counted(f)[Len(f)] /\ fe[i] = g
            BY EntriesFound
        <2>2. i \in 1..Counted(f)[Len(f)]
            BY Places
        <2>. HIDE DEF fe, i
        <2>3. i \in DOMAIN fe
            BY ONLY <2>1, <2>2
        <2>. QED BY <2>1, <2>3
    <1>3. of(g) = d
        <2>1. g.address = f[d].address
            BY DEF Declaration
        <2>2. DOMAIN fd = 1..Len(f)
            BY FileTyped DEF FindDevices
        <2>. HIDE DEF fd, g
        <2>3. \A c \in DOMAIN fd : fd[c].address = g.address <=> c = d
            BY <2>1, <2>2, ParsedDevices DEF fd
        <2>4. d \in DOMAIN fd
            BY <2>2
        <2>. QED BY ONLY <2>3, <2>4
    <1>. HIDE DEF of, fe, i
    <1>4. Parse(f).ent[i] = Normal(Based(g, fd[d]))
        BY <1>1, <1>2, <1>3
    <1>5. fd[d].base = f[d].base /\ f[d].base \in Nat
        BY ParsedDevices, FileTyped
    <1>6. g \in EntrySet(f)
        BY DeclarationTyped
    <1>7. /\ g.name = x.name /\ g.kind = x.kind /\ g.bits = x.bits /\ g.default = x.default
          /\ g.export = x.export /\ g.offset = x.offset /\ g.address = f[d].address
          /\ g.bit = IF x.bits = 1 THEN x.bit ELSE 0
        BY DEF Declaration
    <1>. HIDE DEF g, fd, x
    <1>8. /\ g.offset \in Nat /\ g.bit \in Nat /\ g.kind \in Kinds /\ g.bits \in {1, 8, 16, 32}
          /\ g.default \in SUBSET Nat /\ g.export \in BOOLEAN
        BY ONLY <1>6 DEF EntrySet
    <1>. DEFINE e == Normal(Based(g, fd[d]))
    <1>9. /\ e.address = g.address /\ e.name = g.name /\ e.kind = g.kind /\ e.bits = g.bits
          /\ e.default = g.default /\ e.export = g.export
          /\ e.offset = g.offset + fd[d].base + g.bit \div 8 /\ e.bit = g.bit % 8
        <2>1. g = [address |-> g.address, kind |-> g.kind, export |-> g.export, name |-> g.name,
                   bits |-> g.bits, offset |-> g.offset, bit |-> g.bit, default |-> g.default]
            BY ONLY <1>6 DEF EntrySet
        <2>. QED BY ONLY <2>1 DEF Normal, Based
    <1>. HIDE DEF e
    <1>10. FirstBit(f[d], x) = 8 * (f[d].base + x.offset) + g.bit
        BY <1>7 DEF FirstBit
    <1>11. e.offset \in Nat /\ e.bit \in 0..7 /\ (e.bits # 1 => e.bit = 0) /\ 8 * e.offset + e.bit = FirstBit(f[d], x)
        <2>. DEFINE q == g.bit \div 8
                    r == g.bit % 8
        <2>1. q \in Nat /\ r \in 0..7 /\ g.bit = 8 * q + r
            BY <1>8, DivideBit
        <2>2. e.bits # 1 => g.bit = 0
            BY <1>7, <1>9
        <2>3. e.offset = g.offset + fd[d].base + q /\ e.bit = r
            BY <1>9
        <2>. HIDE DEF q, r
        <2>4. /\ g.offset + fd[d].base + q \in Nat
              /\ 8 * (g.offset + fd[d].base + q) + r = 8 * (fd[d].base + g.offset) + g.bit
              /\ g.bit = 0 => r = 0
            <3>1. g.offset \in Nat /\ fd[d].base \in Nat /\ g.bit \in Nat
                BY <1>5, <1>8
            <3>. DEFINE a == g.offset
                        b == fd[d].base
                        c == g.bit
            <3>2. a \in Nat /\ b \in Nat /\ c \in Nat /\ q \in Nat /\ r \in 0..7 /\ c = 8 * q + r
                BY <2>1, <3>1
            <3>. HIDE DEF a, b, c
            <3>3. a + b + q \in Nat /\ 8 * (a + b + q) + r = 8 * (b + a) + c /\ (c = 0 => r = 0)
                BY ONLY <3>2, MovedBit
            <3>. QED BY <3>3 DEF a, b, c
        <2>5. FirstBit(f[d], x) = 8 * (fd[d].base + g.offset) + g.bit
            BY <1>5, <1>7, <1>10
        <2>. QED BY ONLY <2>1, <2>2, <2>3, <2>4, <2>5
    <1>. QED BY <1>4, <1>7, <1>8, <1>9, <1>11 DEF Describes, e, i, x

(* The entry k is the v-th variable of the device d.                       *)
IsPlace(f, k, d, v) ==
    /\ d \in 1..Len(f) /\ v \in 1..Len(f[d].vars)
    /\ d \in DOMAIN f /\ v \in DOMAIN f[d].vars
    /\ k = Counted(f)[d - 1] + v

LEMMA ParsedDomain ==
    ASSUME NEW f \in Files
    PROVE  DOMAIN Parse(f).ent = 1..Counted(f)[Len(f)] /\ Counted(f)[Len(f)] \in Nat
    <1>. DEFINE fe == FindEntries(f)
                n == Counted(f)[Len(f)]
    <1>1. DOMAIN Parse(f).ent = DOMAIN fe
        BY DEF Parse, CorrectOffsets
    <1>2. fe \in Seq(EntrySet(f)) /\ Len(fe) = n /\ n \in Nat
        BY EntriesFound, Places
    <1>. HIDE DEF fe, n
    <1>3. DOMAIN fe = 1..n
        BY ONLY <1>2
    <1>. QED BY <1>1, <1>2, <1>3 DEF n

LEMMA PlaceOf ==
    ASSUME NEW f \in Files
    PROVE  /\ \A k \in DOMAIN Parse(f).ent : \E d, v : IsPlace(f, k, d, v)
           /\ \A k, d, v : IsPlace(f, k, d, v) =>
                 k \in DOMAIN Parse(f).ent /\ Describes(Parse(f).ent[k], f[d], f[d].vars[v])
           /\ \A d \in DOMAIN f : \A v \in DOMAIN f[d].vars : IsPlace(f, Counted(f)[d - 1] + v, d, v)
    <1>1. DOMAIN f = 1..Len(f) /\ \A d \in 1..Len(f) : DOMAIN f[d].vars = 1..Len(f[d].vars)
        BY FileTyped
    <1>2. ASSUME NEW k \in DOMAIN Parse(f).ent PROVE \E d, v : IsPlace(f, k, d, v)
        <2>1. k \in 1..Counted(f)[Len(f)]
            BY ParsedDomain
        <2>2. PICK d \in 1..Len(f) : \E v \in 1..Len(f[d].vars) : k = Counted(f)[d - 1] + v
            BY <2>1, Places
        <2>3. PICK v \in 1..Len(f[d].vars) : k = Counted(f)[d - 1] + v
            BY <2>2
        <2>4. IsPlace(f, k, d, v)
            BY <1>1, <2>3 DEF IsPlace
        <2>. QED BY <2>4
    <1>3. ASSUME NEW k, NEW d, NEW v, IsPlace(f, k, d, v)
          PROVE  k \in DOMAIN Parse(f).ent /\ Describes(Parse(f).ent[k], f[d], f[d].vars[v])
        <2>1. d \in 1..Len(f) /\ v \in 1..Len(f[d].vars) /\ k = Counted(f)[d - 1] + v
            BY <1>3 DEF IsPlace
        <2>2. k \in 1..Counted(f)[Len(f)]
            BY <2>1, Places
        <2>3. Describes(Parse(f).ent[Counted(f)[d - 1] + v], f[d], f[d].vars[v])
            BY <2>1, ParsedEntry
        <2>4. Describes(Parse(f).ent[k], f[d], f[d].vars[v])
            BY <2>1, <2>3
        <2>. QED BY <2>2, <2>4, ParsedDomain
    <1>4. ASSUME NEW d \in DOMAIN f, NEW v \in DOMAIN f[d].vars
          PROVE  IsPlace(f, Counted(f)[d - 1] + v, d, v)
        BY <1>1 DEF IsPlace
    <1>. QED BY <1>2, <1>3, <1>4

LEMMA PlaceOrder ==
    ASSUME NEW f \in Files, NEW j, NEW k, NEW c, NEW d, NEW u, NEW v,
           IsPlace(f, j, c, u), IsPlace(f, k, d, v)
    PROVE  /\ j # k => c # d \/ u # v
           /\ j < k => c < d \/ (c = d /\ u < v)
    <1>1. /\ c \in 1..Len(f) /\ u \in 1..Len(f[c].vars) /\ j = Counted(f)[c - 1] + u
          /\ d \in 1..Len(f) /\ v \in 1..Len(f[d].vars) /\ k = Counted(f)[d - 1] + v
        BY DEF IsPlace
    <1>2. j # k => c # d \/ u # v
        BY <1>1
    <1>3. d < c => k < j
        <2>. HIDE DEF IsPlace
        <2>1. \A a, b \in 1..Len(f) : \A x \in 1..Len(f[a].vars) : \A y \in 1..Len(f[b].vars) :
                 a < b => Counted(f)[a - 1] + x < Counted(f)[b - 1] + y
            BY Places
        <2>. QED BY ONLY <1>1, <2>1
    <1>4. Counted(f)[c - 1] \in Nat /\ Counted(f)[d - 1] \in Nat /\ j \in Nat /\ k \in Nat
        <2>1. Counted(f)[c - 1] \in Nat /\ Counted(f)[d - 1] \in Nat
            BY <1>1, Places
        <2>2. u \in Nat /\ v \in Nat
            BY <1>1, FileTyped
        <2>. DEFINE a == Counted(f)[c - 1]
                    b == Counted(f)[d - 1]
        <2>3. a \in Nat /\ b \in Nat /\ j = a + u /\ k = b + v
            BY <1>1, <2>1
        <2>. HIDE DEF a, b
        <2>. QED BY ONLY <2>1, <2>2, <2>3
    <1>5. ASSUME j < k PROVE c < d \/ (c = d /\ u < v)
        <2>1. ~(d < c) /\ c \in Nat /\ d \in Nat /\ u \in Nat /\ v \in Nat
            BY <1>1, <1>3, <1>4, <1>5
        <2>2. CASE c = d
            BY <1>1, <1>4, <1>5, <2>1, <2>2
        <2>3. CASE c # d
            BY <2>1, <2>3
        <2>. QED BY <2>2, <2>3
    <1>. QED BY <1>2, <1>5

-----------------------------------------------------------------------------
(* What holds of the list of variables of every file.                      *)
Position(e) == 8 * e.offset + e.bit
SoundEntry(e) ==
    /\ e.kind \in Kinds /\ e.bits \in {1, 8, 16, 32} /\ e.default \in SUBSET Nat /\ e.export \in BOOLEAN
    /\ e.offset \in Nat /\ e.bit \in 0..7 /\ (e.bits # 1 => e.bit = 0)
    /\ Cells(e) \subseteq 0..(EndOfImage - 1)
IsExported(e) == e.kind = "out" /\ e.export
SoundEntries(ent) ==
    /\ Len(ent) \in Nat /\ DOMAIN ent = 1..Len(ent)
    /\ \A k \in DOMAIN ent : SoundEntry(ent[k])
    /\ \A j, k \in DOMAIN ent : j # k => ent[j].name # ent[k].name /\ Cells(ent[j]) \cap Cells(ent[k]) = {}
    /\ \A j, k \in DOMAIN ent : j < k /\ IsExported(ent[j]) /\ IsExported(ent[k]) =>
          Position(ent[j]) < Position(ent[k])

LEMMA DescribedCells ==
    ASSUME NEW e, NEW dev, NEW v, Describes(e, dev, v)
    PROVE  Cells(e) = BitsOf(dev, v) /\ Position(e) = FirstBit(dev, v)
    <1>1. /\ e.bits = v.bits /\ e.bits \in {1, 8, 16, 32}
          /\ e.offset \in Nat /\ e.bit \in 0..7 /\ 8 * e.offset + e.bit = FirstBit(dev, v)
        BY DEF Describes
    <1>2. Cells(e) = {8 * e.offset + e.bit + k : k \in 0..(e.bits - 1)}
        BY <1>1 DEF Cells, BitsFrom
    <1>. QED BY <1>1, <1>2 DEF BitsOf, Position

LEMMA EntriesSound ==
    ASSUME NEW f \in Files
    PROVE  SoundEntries(Parse(f).ent)
    <1>. DEFINE ent == Parse(f).ent
    <1>1. \A k \in DOMAIN ent : \E d, v : IsPlace(f, k, d, v)
        BY PlaceOf
    <1>2. ASSUME NEW k, NEW d, NEW v, IsPlace(f, k, d, v)
          PROVE  /\ Describes(ent[k], f[d], f[d].vars[v])
                 /\ Cells(ent[k]) = BitsOf(f[d], f[d].vars[v]) /\ Position(ent[k]) = FirstBit(f[d], f[d].vars[v])
                 /\ d \in DOMAIN f /\ v \in DOMAIN f[d].vars
        <2>1. Describes(ent[k], f[d], f[d].vars[v])
            BY <1>2, PlaceOf
        <2>. HIDE DEF ent
        <2>. QED BY <1>2, <2>1, DescribedCells DEF IsPlace
    <1>3. Len(ent) \in Nat /\ DOMAIN ent = 1..Len(ent)
        <2>. DEFINE n == Counted(f)[Len(f)]
                    X == {ent[k] : k \in 1..n}
        <2>1. n \in Nat /\ DOMAIN ent = 1..n
            BY ParsedDomain
        <2>2. ent = [k \in DOMAIN ent |-> ent[k]]
            BY DEF Parse, CorrectOffsets
        <2>. HIDE DEF n, ent
        <2>3. ent \in Seq(X)
            BY ONLY <2>1, <2>2
        <2>. HIDE DEF X
        <2>. QED BY ONLY <2>3
    <1>4. \A c, d \in DOMAIN f : \A j \in DOMAIN f[c].vars, k \in DOMAIN f[d].vars :
              LET u == f[c].vars[j]
                  v == f[d].vars[k]
              IN  /\ c # d \/ j # k => u.name # v.name /\ BitsOf(f[c], u) \cap BitsOf(f[d], v) = {}
                  /\ BitsOf(f[c], u) \subseteq 0..(EndOfImage - 1)
                  /\ u.kind = "out" /\ u.export /\ v.kind = "out" /\ v.export /\ (c < d \/ (c = d /\ j < k))
                        => FirstBit(f[c], u) < FirstBit(f[d], v)
        BY VariableAssumption
    <1>. HIDE DEF ent
    <1>5. ASSUME NEW k \in DOMAIN ent PROVE SoundEntry(ent[k])
        <2>1. PICK d, v : IsPlace(f, k, d, v)
            BY <1>1
        <2>2. Cells(ent[k]) \subseteq 0..(EndOfImage - 1)
            BY <1>2, <1>4, <2>1
        <2>3. Describes(ent[k], f[d], f[d].vars[v])
            BY <1>2, <2>1
        <2>. QED BY ONLY <2>2, <2>3 DEF SoundEntry, Describes
    <1>6. ASSUME NEW j \in DOMAIN ent, NEW k \in DOMAIN ent
          PROVE  /\ j # k => ent[j].name # ent[k].name /\ Cells(ent[j]) \cap Cells(ent[k]) = {}
                 /\ j < k /\ IsExported(ent[j]) /\ IsExported(ent[k]) => Position(ent[j]) < Position(ent[k])
        <2>1. PICK c, u : IsPlace(f, j, c, u)
            BY <1>1
        <2>2. PICK d, v : IsPlace(f, k, d, v)
            BY <1>1
        <2>. DEFINE x == f[c].vars[u]
                    y == f[d].vars[v]
        <2>3. /\ c # d \/ u # v => x.name # y.name /\ BitsOf(f[c], x) \cap BitsOf(f[d], y) = {}
              /\ x.kind = "out" /\ x.export /\ y.kind = "out" /\ y.export /\ (c < d \/ (c = d /\ u < v))
                        => FirstBit(f[c], x) < FirstBit(f[d], y)
            BY <1>2, <1>4, <2>1, <2>2
        <2>4. (j # k => c # d \/ u # v) /\ (j < k => c < d \/ (c = d /\ u < v))
            BY <2>1, <2>2, PlaceOrder
        <2>5. /\ Cells(ent[j]) = BitsOf(f[c], x) /\ Position(ent[j]) = FirstBit(f[c], x)
              /\ Cells(ent[k]) = BitsOf(f[d], y) /\ Position(ent[k]) = FirstBit(f[d], y)
              /\ Describes(ent[j], f[c], x) /\ Describes(ent[k], f[d], y)
            BY <1>2, <2>1, <2>2
        <2>. HIDE DEF x, y
        <2>6. /\ ent[j].name = x.name /\ ent[j].kind = x.kind /\ ent[j].export = x.export
              /\ ent[k].name = y.name /\ ent[k].kind = y.kind /\ ent[k].export = y.export
            BY ONLY <2>5 DEF Describes
        <2>. QED BY ONLY <2>3, <2>4, <2>5, <2>6 DEF IsExported
    <1>7. SoundEntries(ent)
        BY ONLY <1>3, <1>5, <1>6 DEF SoundEntries
    <1>. QED BY <1>7 DEF ent

(* What VariableStore knows of a variable, taken from its entry.           *)
AsDeclared(m, e) ==
    [bits |-> 0..(e.bits - 1), export |-> e.kind = "out" /\ e.export,
     input |-> IF e.kind = "inp" THEN e.address ELSE -1,
     preset |-> CASE m = "core" -> e.kind # "inp"
                  [] m = "flat" -> TRUE
                  [] m = "compact" -> e.kind \in {"out", "mem"},
     default |-> IF m # "core" /\ e.kind \notin {"out", "mem"} THEN {}
                 ELSE IF e.bits = 1 THEN {k \in {0} : e.default # {}}
                 ELSE e.default \cap (0..(e.bits - 1))]

LEMMA DeclaredNames ==
    ASSUME NEW f \in Files
    PROVE  NamesIn(f) = {Parse(f).ent[k].name : k \in DOMAIN Parse(f).ent}
    <1>. DEFINE ent == Parse(f).ent
    <1>1. ASSUME NEW k, NEW d, NEW v, IsPlace(f, k, d, v)
          PROVE  ent[k].name = f[d].vars[v].name /\ k \in DOMAIN ent /\ d \in DOMAIN f /\ v \in DOMAIN f[d].vars
        <2>1. Describes(ent[k], f[d], f[d].vars[v]) /\ k \in DOMAIN ent
            BY <1>1, PlaceOf
        <2>. HIDE DEF ent
        <2>. QED BY <1>1, <2>1 DEF Describes, IsPlace
    <1>2. /\ \A k \in DOMAIN ent : \E d, v : IsPlace(f, k, d, v)
          /\ \A d \in DOMAIN f : \A v \in DOMAIN f[d].vars : IsPlace(f, Counted(f)[d - 1] + v, d, v)
        BY PlaceOf
    <1>. HIDE DEF ent
    <1>3. ASSUME NEW k \in DOMAIN ent PROVE ent[k].name \in NamesIn(f)
        <2>1. PICK d, v : IsPlace(f, k, d, v)
            BY <1>2
        <2>. QED BY <1>1, <2>1 DEF NamesIn
    <1>4. ASSUME NEW n \in NamesIn(f) PROVE n \in {ent[k].name : k \in DOMAIN ent}
        <2>1. PICK d \in DOMAIN f : \E v \in DOMAIN f[d].vars : n = f[d].vars[v].name
            BY DEF NamesIn
        <2>2. PICK v \in DOMAIN f[d].vars : n = f[d].vars[v].name
            BY <2>1
        <2>. DEFINE k == Counted(f)[d - 1] + v
        <2>3. IsPlace(f, k, d, v)
            BY <1>2
        <2>. HIDE DEF k
        <2>. QED BY <1>1, <2>2, <2>3
    <1>5. NamesIn(f) = {ent[k].name : k \in DOMAIN ent}
        BY ONLY <1>3, <1>4
    <1>. QED BY <1>5 DEF ent

(* The variable that the store chooses by its name is the one of the entry.*)
LEMMA DeclaredVariable ==
    ASSUME NEW f \in Files, NEW m, NEW k \in DOMAIN Parse(f).ent
    PROVE  Variable(m, f, Parse(f).ent[k].name) = AsDeclared(m, Parse(f).ent[k])
    <1>. DEFINE e == Parse(f).ent[k]
                n == e.name
                dev(c) == \E u \in DOMAIN f[c].vars : f[c].vars[u].name = n
    <1>1. PICK d, v : IsPlace(f, k, d, v)
        BY PlaceOf
    <1>. DEFINE x == f[d].vars[v]
    <1>2. Describes(e, f[d], x) /\ d \in DOMAIN f /\ v \in DOMAIN f[d].vars
        BY <1>1, PlaceOf DEF IsPlace
    <1>3. ASSUME NEW c \in DOMAIN f, NEW u \in DOMAIN f[c].vars
          PROVE  f[c].vars[u].name = n <=> c = d /\ u = v
        <2>1. x.name = n
            BY <1>2 DEF Describes
        <2>2. c # d \/ u # v => f[c].vars[u].name # x.name
            BY <1>2, VariableAssumption
        <2>. QED BY <2>1, <2>2
    <1>. HIDE DEF e
    <1>4. (CHOOSE c \in DOMAIN f : dev(c)) = d
        <2>1. \A c \in DOMAIN f : dev(c) <=> c = d
            BY <1>2, <1>3
        <2>. HIDE DEF dev
        <2>. QED BY <1>2, <2>1
    <1>5. (CHOOSE u \in DOMAIN f[d].vars : f[d].vars[u].name = n) = v
        BY <1>2, <1>3
    <1>6. /\ x.kind = e.kind /\ x.export = e.export /\ x.bits = e.bits /\ x.default = e.default
          /\ f[d].address = e.address
        BY <1>2 DEF Describes
    <1>7. Variable(m, f, n) =
            LET w == f[CHOOSE c \in DOMAIN f : dev(c)]
                y == w.vars[CHOOSE u \in DOMAIN w.vars : w.vars[u].name = n]
            IN  [bits |-> 0..(y.bits - 1), export |-> y.kind = "out" /\ y.export,
                 input |-> IF y.kind = "inp" THEN w.address ELSE -1,
                 preset |-> CASE m = "core" -> y.kind # "inp"
                              [] m = "flat" -> TRUE
                              [] m = "compact" -> y.kind \in {"out", "mem"},
                 default |-> IF m # "core" /\ y.kind \notin {"out", "mem"} THEN {}
                             ELSE IF y.bits = 1 THEN {j \in {0} : y.default # {}}
                             ELSE y.default \cap (0..(y.bits - 1))]
        BY DEF Variable
    <1>. HIDE DEF dev, n, x
    <1>8. Variable(m, f, n) = AsDeclared(m, e)
        BY ONLY <1>4, <1>5, <1>6, <1>7 DEF AsDeclared, x
    <1>. QED BY <1>8 DEF e, n

(* An application finds the entry with the name.                           *)
View(e) == [addr |-> e.offset, bit |-> e.bit, len |-> e.bits]
Find(ent, name) == View(ent[Min({k \in DOMAIN ent : ent[k].name = name})])

LEMMA FoundEntry ==
    ASSUME NEW f \in Files, NEW k \in DOMAIN Parse(f).ent
    PROVE  Find(Parse(f).ent, Parse(f).ent[k].name) = View(Parse(f).ent[k])
    <1>. DEFINE ent == Parse(f).ent
                S == {j \in DOMAIN ent : ent[j].name = ent[k].name}
    <1>1. S = {k}
        BY EntriesSound DEF SoundEntries
    <1>2. k \in Nat
        <2>1. Len(ent) \in Nat /\ DOMAIN ent = 1..Len(ent)
            BY EntriesSound DEF SoundEntries
        <2>. QED BY <2>1
    <1>3. Min(S) = k
        <2>1. IsFiniteSet({k}) /\ {k} \in SUBSET Nat /\ {k} # {}
            BY <1>2, FS_Singleton
        <2>2. Min({k}) \in {k}
            BY <2>1, MinElement
        <2>. QED BY <1>1, <2>2
    <1>. HIDE DEF ent, S
    <1>4. Find(ent, ent[k].name) = View(ent[Min(S)])
        BY DEF Find, S
    <1>. QED BY <1>3, <1>4 DEF ent

LEMMA FoundVariable ==
    ASSUME NEW f \in Files, conf = Parse(f), NEW k \in DOMAIN Parse(f).ent
    PROVE  FindVariable(Parse(f).ent[k].name) = View(Parse(f).ent[k])
    <1>1. FindVariable(Parse(f).ent[k].name) = Find(Parse(f).ent, Parse(f).ent[k].name)
        BY DEF FindVariable, Find, View
    <1>. QED BY <1>1, FoundEntry

(* The inputs of a device have their area to themselves.                   *)
LEMMA OwnArea ==
    ASSUME NEW f \in Files, NEW c \in DOMAIN Parse(f).devs, NEW k \in DOMAIN Parse(f).ent,
           Cells(Parse(f).ent[k]) \cap BitsFrom(Parse(f).devs[c].in, 0, 8 * Parse(f).devs[c].inLen) # {}
    PROVE  Parse(f).ent[k].kind = "inp" /\ Parse(f).ent[k].address = Parse(f).devs[c].address
    <1>. DEFINE e == Parse(f).ent[k]
                dev == Parse(f).devs[c]
    <1>1. PICK d, v : IsPlace(f, k, d, v)
        BY PlaceOf
    <1>. DEFINE x == f[d].vars[v]
    <1>2. Describes(e, f[d], x) /\ d \in DOMAIN f /\ v \in DOMAIN f[d].vars
        BY <1>1, PlaceOf DEF IsPlace
    <1>3. c \in DOMAIN f /\ dev.address = f[c].address
        BY ParsedDevices, FileTyped
    <1>. HIDE DEF e
    <1>4. BitsOf(f[d], x) \cap BitsFrom(dev.in, 0, 8 * dev.inLen) # {}
        BY <1>2, DescribedCells DEF e
    <1>5. d = c /\ x.kind = "inp"
        <2>1. \A a, b \in DOMAIN f : \A j \in DOMAIN f[a].vars :
                  BitsOf(f[a], f[a].vars[j]) \cap BitsFrom(Parse(f).devs[b].in, 0, 8 * Parse(f).devs[b].inLen) # {}
                      => a = b /\ f[a].vars[j].kind = "inp"
            BY VariableAssumption
        <2>. QED BY ONLY <1>2, <1>3, <1>4, <2>1
    <1>. HIDE DEF x, dev
    <1>6. e.kind = x.kind /\ e.address = f[d].address
        BY <1>2 DEF Describes
    <1>. QED BY <1>3, <1>5, <1>6 DEF e, dev

(* What is found of an entry; its bits, counted from its position on.      *)
Held(img, e) == {k \in 0..(e.bits - 1) : Position(e) + k \in img}

LEMMA CellsOf ==
    ASSUME NEW e, SoundEntry(e)
    PROVE  /\ Position(e) \in Nat /\ e.bits \in Nat \ {0} /\ e.offset < KB_PI_LEN
           /\ \A x : x \in Cells(e) <=> x \in Nat /\ Position(e) <= x /\ x < Position(e) + e.bits
           /\ \A k \in 0..(e.bits - 1) : Position(e) + k \in Cells(e)
           /\ \A x \in Cells(e) : x \in 0..(EndOfImage - 1)
    <1>. DEFINE p == Position(e)
                b == e.bits
    <1>1. /\ e.offset \in Nat /\ e.bit \in 0..7 /\ b \in {1, 8, 16, 32} /\ p = 8 * e.offset + e.bit
          /\ Cells(e) \subseteq 0..(EndOfImage - 1)
        BY DEF SoundEntry, Position
    <1>2. Cells(e) = {8 * e.offset + e.bit + k : k \in 0..(b - 1)}
        BY <1>1 DEF Cells, BitsFrom
    <1>3. Cells(e) = {p + k : k \in 0..(b - 1)}
        BY <1>1, <1>2
    <1>. HIDE DEF b
    <1>4. p \in Nat /\ b \in Nat \ {0}
        BY <1>1
    <1>5. p \in Cells(e)
        BY <1>3, <1>4
    <1>6. e.offset < KB_PI_LEN
        <2>1. p \in 0..(EndOfImage - 1)
            BY <1>1, <1>5
        <2>. QED BY <1>1, <2>1, ImageAssumption DEF EndOfImage
    <1>. HIDE DEF p
    <1>7. ASSUME NEW x PROVE x \in Cells(e) <=> x \in Nat /\ p <= x /\ x < p + b
        <2>1. ASSUME x \in Cells(e) PROVE x \in Nat /\ p <= x /\ x < p + b
            BY <1>3, <1>4, <2>1
        <2>2. ASSUME x \in Nat, p <= x, x < p + b PROVE x \in Cells(e)
            <3>1. x - p \in 0..(b - 1) /\ x = p + (x - p)
                BY <1>4, <2>2
            <3>. QED BY <1>3, <3>1
        <2>. QED BY <2>1, <2>2
    <1>8. \A k \in 0..(b - 1) : p + k \in Cells(e)
        BY <1>3
    <1>. QED BY <1>1, <1>4, <1>6, <1>7, <1>8 DEF p, b

LEMMA ByteBits ==
    ASSUME NEW addr \in Nat, NEW img
    PROVE  /\ Byte(img, addr) \in SUBSET (0..7)
           /\ \A k \in 0..7 : k \in Byte(img, addr) <=> 8 * addr + k \in img
           /\ \A byte \in SUBSET (0..7) :
                 /\ \A k \in 0..7 : 8 * addr + k \in WithByte(img, addr, byte) <=> k \in byte
                 /\ \A x : (\A k \in 0..7 : x # 8 * addr + k) =>
                       (x \in WithByte(img, addr, byte) <=> x \in img)
    <1>1. /\ Byte(img, addr) \in SUBSET (0..7)
          /\ \A k \in 0..7 : k \in Byte(img, addr) <=> 8 * addr + k \in img
        BY DEF Byte
    <1>2. ASSUME NEW byte \in SUBSET (0..7)
          PROVE  /\ \A k \in 0..7 : 8 * addr + k \in WithByte(img, addr, byte) <=> k \in byte
                 /\ \A x : (\A k \in 0..7 : x # 8 * addr + k) =>
                       (x \in WithByte(img, addr, byte) <=> x \in img)
        <2>1. WithByte(img, addr, byte) =
                (img \ {8 * addr + 0 + k : k \in 0..7}) \cup {8 * addr + k : k \in byte}
            BY DEF WithByte, BitsFrom, Shifted
        <2>2. {8 * addr + 0 + k : k \in 0..7} = {8 * addr + k : k \in 0..7}
            OBVIOUS
        <2>3. \A j, k \in 0..7 : 8 * addr + j = 8 * addr + k => j = k
            OBVIOUS
        <2>. QED BY <2>1, <2>2, <2>3
    <1>. QED BY <1>1, <1>2

LEMMA BytesTransferred ==
    ASSUME NEW addr \in Nat, addr < KB_PI_LEN, NEW n \in Nat, 8 * (addr + n) <= EndOfImage
    PROVE  /\ \A x : x \in Transferred(addr, n) <=> x \in Nat /\ 8 * addr <= x /\ x < 8 * (addr + n)
           /\ \A img : \A k : k \in Read(img, addr, n) <=> k \in 0..(8 * n - 1) /\ 8 * addr + k \in img
           /\ \A img : \A value \in SUBSET Nat :
                 /\ \A k \in 0..(8 * n - 1) : 8 * addr + k \in Write(img, addr, n, value) <=> k \in value
                 /\ \A x : x \notin Transferred(addr, n) => (x \in Write(img, addr, n, value) <=> x \in img)
    <1>. DEFINE T == Transferred(addr, n)
    <1>1. EndOfImage \in Nat
        BY ImageAssumption DEF EndOfImage
    <1>2. T = {8 * addr + 0 + k : k \in 0..(8 * n - 1)} \cap (0..(EndOfImage - 1))
        BY ImageAssumption DEF Transferred, BitsFrom
    <1>3. ASSUME NEW x PROVE x \in T <=> x \in Nat /\ 8 * addr <= x /\ x < 8 * (addr + n)
        <2>1. ASSUME x \in T PROVE x \in Nat /\ 8 * addr <= x /\ x < 8 * (addr + n)
            BY <1>2, <2>1
        <2>2. ASSUME x \in Nat, 8 * addr <= x, x < 8 * (addr + n) PROVE x \in T
            <3>1. x - 8 * addr \in 0..(8 * n - 1) /\ x = 8 * addr + 0 + (x - 8 * addr)
                BY <2>2
            <3>2. x \in 0..(EndOfImage - 1)
                BY <1>1, <2>2
            <3>. QED BY <1>2, <3>1, <3>2
        <2>. QED BY <2>1, <2>2
    <1>. HIDE DEF T
    <1>4. \A k \in 0..(8 * n - 1) : 8 * addr + k \in T
        BY <1>3
    <1>5. ASSUME NEW img, NEW k
          PROVE  k \in Read(img, addr, n) <=> k \in 0..(8 * n - 1) /\ 8 * addr + k \in img
        <2>1. Read(img, addr, n) = {x - 8 * addr : x \in T \cap img}
            BY DEF Read, T
        <2>2. ASSUME k \in Read(img, addr, n) PROVE k \in 0..(8 * n - 1) /\ 8 * addr + k \in img
            <3>1. PICK x \in T \cap img : k = x - 8 * addr
                BY <2>1, <2>2
            <3>2. x \in Nat /\ 8 * addr <= x /\ x < 8 * (addr + n) /\ x \in img
                BY <1>3, <3>1
            <3>3. k \in 0..(8 * n - 1) /\ 8 * addr + k = x
                BY <3>1, <3>2
            <3>. QED BY <3>2, <3>3
        <2>3. ASSUME k \in 0..(8 * n - 1), 8 * addr + k \in img PROVE k \in Read(img, addr, n)
            <3>1. 8 * addr + k \in T \cap img /\ k = (8 * addr + k) - 8 * addr
                BY <1>4, <2>3
            <3>. QED BY <2>1, <3>1
        <2>. QED BY <2>2, <2>3
    <1>6. ASSUME NEW img, NEW value \in SUBSET Nat
          PROVE  /\ \A k \in 0..(8 * n - 1) : 8 * addr + k \in Write(img, addr, n, value) <=> k \in value
                 /\ \A x : x \notin T => (x \in Write(img, addr, n, value) <=> x \in img)
        <2>1. Write(img, addr, n, value) = (img \ T) \cup ({8 * addr + k : k \in value} \cap T)
            BY DEF Write, Shifted, T
        <2>2. ASSUME NEW k \in 0..(8 * n - 1)
              PROVE  8 * addr + k \in Write(img, addr, n, value) <=> k \in value
            <3>1. \A j \in value : 8 * addr + j = 8 * addr + k => j = k
                OBVIOUS
            <3>2. 8 * addr + k \in T
                BY <1>4
            <3>. QED BY <2>1, <3>1, <3>2
        <2>. QED BY <2>1, <2>2
    <1>. QED BY <1>3, <1>5, <1>6 DEF T

(* The offset and the length of bytes.                                     *)
LEMMA WholeBytes ==
    ASSUME NEW e, SoundEntry(e), e.bits # 1
    PROVE  /\ e.bits \div 8 \in Nat /\ 8 * (e.bits \div 8) = e.bits
           /\ Position(e) = 8 * e.offset /\ 8 * (e.offset + (e.bits \div 8)) <= EndOfImage
           /\ \A x : x \in Cells(e) <=> x \in Nat /\ 8 * e.offset <= x /\ x < 8 * (e.offset + (e.bits \div 8))
    <1>1. e.bits \in {8, 16, 32} /\ e.offset \in Nat /\ e.bit = 0
        BY DEF SoundEntry
    <1>2. e.bits \div 8 \in Nat /\ 8 * (e.bits \div 8) = e.bits
        BY <1>1
    <1>3. Position(e) = 8 * e.offset
        BY <1>1 DEF Position
    <1>. DEFINE n == e.bits \div 8
                o == e.offset
    <1>4. 8 * (o + n) = Position(e) + e.bits
        <2>1. 8 * n = e.bits /\ n \in Nat /\ o \in Nat /\ Position(e) = 8 * o
            BY <1>1, <1>2, <1>3
        <2>. HIDE DEF n, o
        <2>. QED BY <2>1
    <1>5. \A x : x \in Cells(e) <=> x \in Nat /\ Position(e) <= x /\ x < Position(e) + e.bits
        BY CellsOf
    <1>6. Position(e) + e.bits <= EndOfImage
        <2>1. e.bits - 1 \in 0..(e.bits - 1) /\ Position(e) \in Nat /\ e.bits \in Nat
            BY <1>1, CellsOf
        <2>2. Position(e) + (e.bits - 1) \in Cells(e)
            BY <2>1, CellsOf
        <2>3. Position(e) + (e.bits - 1) \in 0..(EndOfImage - 1)
            BY <2>2, CellsOf
        <2>4. EndOfImage \in Nat
            BY ImageAssumption DEF EndOfImage
        <2>. QED BY <2>1, <2>3, <2>4
    <1>7. 8 * (o + n) <= EndOfImage /\ \A x : x \in Cells(e) <=> x \in Nat /\ 8 * o <= x /\ x < 8 * (o + n)
        <2>1. Position(e) = 8 * o
            BY <1>3
        <2>. HIDE DEF n, o
        <2>. QED BY ONLY <1>4, <1>5, <1>6, <2>1
    <1>. QED BY <1>2, <1>3, <1>7

(* What an application gets of a variable are its bits, from 0 on.         *)
LEMMA GetHeld ==
    ASSUME NEW e, SoundEntry(e), NEW img
    PROVE  Get(img, View(e)) = Held(img, e)
    <1>. DEFINE o == e.offset
                n == e.bits \div 8
    <1>1. e.bits \in {1, 8, 16, 32} /\ o \in Nat /\ e.bit \in 0..7 /\ o < KB_PI_LEN
          /\ (e.bits # 1 => e.bit = 0) /\ Position(e) = 8 * o + e.bit
        BY CellsOf DEF SoundEntry, Position
    <1>2. View(e).addr = o /\ View(e).bit = e.bit /\ View(e).len = e.bits
        BY DEF View
    <1>3. CASE e.bits = 1
        <2>1. Get(img, View(e)) = {k \in {0} : e.bit \in Byte(img, o)}
            BY <1>1, <1>2, <1>3 DEF Get, GetValue
        <2>2. e.bit \in Byte(img, o) <=> Position(e) \in img
            BY <1>1, ByteBits
        <2>3. Held(img, e) = {k \in {0} : Position(e) + k \in img}
            BY <1>3 DEF Held
        <2>4. \A k \in {0} : Position(e) + k = Position(e)
            BY <1>1
        <2>. QED BY <2>1, <2>2, <2>3, <2>4
    <1>4. CASE e.bits = 8
        <2>1. Get(img, View(e)) = Byte(img, o)
            BY <1>2, <1>4 DEF Get, GetValue
        <2>2. \A k \in 0..7 : Position(e) + k = 8 * o + k
            BY <1>1, <1>4
        <2>3. Held(img, e) = {k \in 0..7 : Position(e) + k \in img}
            BY <1>4 DEF Held
        <2>. QED BY <2>1, <2>2, <2>3 DEF Byte
    <1>5. CASE e.bits \in {16, 32}
        <2>1. Get(img, View(e)) = Read(img, o, n)
            BY <1>2, <1>5 DEF Get
        <2>2. n \in Nat /\ 8 * n = e.bits /\ Position(e) = 8 * o /\ 8 * (o + n) <= EndOfImage
            BY <1>5, WholeBytes
        <2>. HIDE DEF n, o
        <2>3. \A k : k \in Read(img, o, n) <=> k \in 0..(8 * n - 1) /\ 8 * o + k \in img
            BY <1>1, <2>2, BytesTransferred
        <2>4. \A k : k \in Held(img, e) <=> k \in 0..(8 * n - 1) /\ 8 * o + k \in img
            BY <2>2 DEF Held
        <2>. QED BY <2>1, <2>3, <2>4
    <1>. QED BY <1>1, <1>3, <1>4, <1>5

(* What it sets replaces these bits, and no others.                        *)
LEMMA SetHeld ==
    ASSUME NEW e, SoundEntry(e), NEW img, NEW value \in SUBSET Nat
    PROVE  /\ \A k \in 0..(e.bits - 1) : Position(e) + k \in Set(img, View(e), value) <=> k \in value
           /\ \A x : x \notin Cells(e) => (x \in Set(img, View(e), value) <=> x \in img)
    <1>. DEFINE o == e.offset
                n == e.bits \div 8
    <1>1. e.bits \in {1, 8, 16, 32} /\ o \in Nat /\ e.bit \in 0..7 /\ o < KB_PI_LEN /\ KB_PI_LEN \in Nat
          /\ (e.bits # 1 => e.bit = 0) /\ Position(e) = 8 * o + e.bit
        BY CellsOf, ImageAssumption DEF SoundEntry, Position
    <1>2. View(e).addr = o /\ View(e).bit = e.bit /\ View(e).len = e.bits
        BY DEF View
    <1>3. CASE e.bits = 1
        <2>. DEFINE byte == IF value \cap {0} # {} THEN Byte(img, o) \cup {e.bit} ELSE Byte(img, o) \ {e.bit}
                    new == Set(img, View(e), value)
        <2>1. new = WithByte(img, o, byte)
            <3>1. new = SetValue(img, o, e.bit, value \cap {0})
                BY <1>2, <1>3 DEF Set
            <3>2. ~(o >= KB_PI_LEN) /\ ~(e.bit >= 8)
                BY <1>1
            <3>. QED BY <3>1, <3>2 DEF SetValue
        <2>2. byte \in SUBSET (0..7) /\ \A k \in 0..7 : k \in byte <=>
                    IF k = e.bit THEN 0 \in value ELSE 8 * o + k \in img
            <3>. DEFINE old == Byte(img, o)
            <3>1. old \in SUBSET (0..7) /\ \A k \in 0..7 : k \in old <=> 8 * o + k \in img
                BY <1>1, ByteBits
            <3>2. value \cap {0} # {} <=> 0 \in value
                OBVIOUS
            <3>. HIDE DEF old
            <3>. QED BY <1>1, <3>1, <3>2 DEF old
        <2>. HIDE DEF byte, new
        <2>3. /\ \A k \in 0..7 : 8 * o + k \in new <=> k \in byte
              /\ \A x : (\A k \in 0..7 : x # 8 * o + k) => (x \in new <=> x \in img)
            BY <1>1, <2>1, <2>2, ByteBits
        <2>. HIDE DEF o
        <2>4. \A x : x \in Cells(e) <=> x = Position(e)
            <3>1. \A x : x \in Cells(e) <=> x \in Nat /\ Position(e) <= x /\ x < Position(e) + 1
                BY <1>3, CellsOf
            <3>2. Position(e) \in Nat
                BY CellsOf
            <3>. QED BY ONLY <3>1, <3>2
        <2>5. Position(e) \in new <=> 0 \in value
            BY <1>1, <2>2, <2>3
        <2>6. ASSUME NEW x, x \notin Cells(e) PROVE x \in new <=> x \in img
            <3>1. CASE \A k \in 0..7 : x # 8 * o + k
                BY <2>3, <3>1
            <3>2. ASSUME NEW k \in 0..7, x = 8 * o + k PROVE x \in new <=> x \in img
                <4>1. k # e.bit
                    BY <1>1, <2>4, <2>6, <3>2
                <4>. QED BY <2>2, <2>3, <3>2, <4>1
            <3>. QED BY <3>1, <3>2
        <2>7. \A k \in 0..(e.bits - 1) : k = 0 /\ Position(e) + k = Position(e)
            BY <1>3, CellsOf
        <2>. QED BY <2>5, <2>6, <2>7 DEF new
    <1>4. CASE e.bits = 8
        <2>. DEFINE byte == value \cap (0..7)
                    new == Set(img, View(e), value)
        <2>1. new = WithByte(img, o, byte)
            <3>1. new = SetValue(img, o, 8, value)
                BY <1>2, <1>4 DEF Set
            <3>2. ~(o >= KB_PI_LEN)
                BY <1>1
            <3>. QED BY <3>1, <3>2 DEF SetValue
        <2>2. /\ \A k \in 0..7 : 8 * o + k \in new <=> k \in byte
              /\ \A x : (\A k \in 0..7 : x # 8 * o + k) => (x \in new <=> x \in img)
            <3>1. byte \in SUBSET (0..7)
                OBVIOUS
            <3>2. o \in Nat
                BY <1>1
            <3>. HIDE DEF byte, new, o
            <3>3. /\ \A k \in 0..7 : 8 * o + k \in WithByte(img, o, byte) <=> k \in byte
                  /\ \A x : (\A k \in 0..7 : x # 8 * o + k) => (x \in WithByte(img, o, byte) <=> x \in img)
                BY ONLY <3>1, <3>2, ByteBits
            <3>. QED BY <2>1, <3>3
        <2>3. Position(e) = 8 * o
            BY <1>1, <1>4
        <2>. HIDE DEF new, o
        <2>4. \A k \in 0..7 : 8 * o + k \in Cells(e)
            BY <1>4, <2>3, CellsOf
        <2>. QED BY <1>4, <2>2, <2>3, <2>4 DEF new
    <1>5. CASE e.bits \in {16, 32}
        <2>. DEFINE new == Set(img, View(e), value)
        <2>1. new = Write(img, o, n, value)
            BY <1>2, <1>5 DEF Set
        <2>2. n \in Nat /\ 8 * n = e.bits /\ Position(e) = 8 * o /\ 8 * (o + n) <= EndOfImage
              /\ \A x : x \in Cells(e) <=> x \in Nat /\ 8 * o <= x /\ x < 8 * (o + n)
            BY <1>5, WholeBytes
        <2>. HIDE DEF n, o, new
        <2>3. /\ \A k \in 0..(8 * n - 1) : 8 * o + k \in new <=> k \in value
              /\ \A x : x \notin Transferred(o, n) => (x \in new <=> x \in img)
              /\ \A x : x \in Transferred(o, n) <=> x \in Nat /\ 8 * o <= x /\ x < 8 * (o + n)
            BY <1>1, <2>1, <2>2, BytesTransferred
        <2>4. \A k \in 0..(e.bits - 1) : Position(e) + k \in new <=> k \in value
            BY <2>2, <2>3
        <2>5. \A x : x \notin Cells(e) => (x \in new <=> x \in img)
            BY <2>2, <2>3
        <2>. QED BY <2>4, <2>5 DEF new
    <1>. QED BY <1>1, <1>3, <1>4, <1>5

(* The bits of a variable say what it holds.                               *)
LEMMA SameHeld ==
    ASSUME NEW e, SoundEntry(e), NEW old, NEW new, \A x \in Cells(e) : x \in new <=> x \in old
    PROVE  Held(new, e) = Held(old, e)
    <1>1. \A k \in 0..(e.bits - 1) : Position(e) + k \in Cells(e)
        BY CellsOf
    <1>. QED BY <1>1 DEF Held

(* The default of a variable, and its bits in the image.                   *)
DefaultOf(e) ==
    IF e.bits = 1 THEN {k \in {0} : e.default # {}} ELSE e.default \cap (0..(e.bits - 1))

LEMMA PresetCells ==
    ASSUME NEW e, SoundEntry(e)
    PROVE  /\ Preset(e) \subseteq Cells(e)
           /\ \A k \in 0..(e.bits - 1) : Position(e) + k \in Preset(e) <=> k \in DefaultOf(e)
    <1>. DEFINE p == Position(e)
    <1>1. /\ e.bits \in {1, 8, 16, 32} /\ e.offset \in Nat /\ e.bit \in 0..7
          /\ (e.bits # 1 => e.bit = 0) /\ p = 8 * e.offset + e.bit /\ p \in Nat
          /\ \A k \in 0..(e.bits - 1) : p + k \in Cells(e)
        BY CellsOf DEF SoundEntry, Position
    <1>2. CASE e.bits = 1
        <2>1. Preset(e) = IF e.default # {} THEN BitsFrom(e.offset, e.bit, 1) ELSE {}
            BY <1>2 DEF Preset
        <2>2. BitsFrom(e.offset, e.bit, 1) = {p}
            <3>1. BitsFrom(e.offset, e.bit, 1) = {p + k : k \in 0..0}
                BY <1>1 DEF BitsFrom
            <3>2. 0..0 = {0} /\ p + 0 = p
                BY <1>1
            <3>. HIDE DEF p
            <3>. QED BY <3>1, <3>2
        <2>3. \A k \in 0..(e.bits - 1) : k = 0 /\ p + k = p
            BY <1>1, <1>2
        <2>4. p \in Cells(e)
            <3>1. 0 \in 0..(e.bits - 1)
                BY <1>2
            <3>. QED BY <1>1, <2>3, <3>1
        <2>5. DefaultOf(e) = {k \in {0} : e.default # {}}
            BY <1>2 DEF DefaultOf
        <2>. HIDE DEF p
        <2>. QED BY <2>1, <2>2, <2>3, <2>4, <2>5 DEF p
    <1>3. CASE e.bits # 1
        <2>1. Preset(e) = {p + k : k \in e.default \cap (0..(e.bits - 1))}
            <3>1. Preset(e) = Shifted(e.default \cap (0..(e.bits - 1)), 8 * e.offset)
                BY <1>1, <1>3 DEF Preset
            <3>2. 8 * e.offset = p
                BY <1>1, <1>3
            <3>. QED BY <3>1, <3>2 DEF Shifted
        <2>2. DefaultOf(e) = e.default \cap (0..(e.bits - 1))
            BY <1>3 DEF DefaultOf
        <2>3. \A j, k \in 0..(e.bits - 1) : p + j = p + k => j = k
            BY <1>1
        <2>. HIDE DEF p
        <2>. QED BY <1>1, <2>1, <2>2, <2>3 DEF p
    <1>. QED BY <1>2, <1>3

LEMMA DefaultWithin ==
    ASSUME NEW e, SoundEntry(e), NEW img,
           \A x \in Cells(e) : x \in img <=> x \in Preset(e)
    PROVE  Held(img, e) = DefaultOf(e)
    <1>1. \A k \in 0..(e.bits - 1) : Position(e) + k \in Cells(e)
        BY CellsOf
    <1>2. \A k \in 0..(e.bits - 1) : Position(e) + k \in Preset(e) <=> k \in DefaultOf(e)
        BY PresetCells
    <1>3. DefaultOf(e) \subseteq 0..(e.bits - 1)
        BY DEF DefaultOf, SoundEntry
    <1>. QED BY ONLY <1>1, <1>2, <1>3, \A x \in Cells(e) : x \in img <=> x \in Preset(e) DEF Held

(* With a bridge, every variable has its default when the bridge starts.   *)
LEMMA DefaultsHeld ==
    ASSUME NEW ent, SoundEntries(ent), NEW k \in DOMAIN ent
    PROVE  Held(Defaults(ent), ent[k]) = DefaultOf(ent[k])
    <1>1. /\ \A j \in DOMAIN ent : SoundEntry(ent[j])
          /\ \A j \in DOMAIN ent \ {k} : Cells(ent[j]) \cap Cells(ent[k]) = {}
        BY DEF SoundEntries
    <1>2. \A j \in DOMAIN ent : Preset(ent[j]) \subseteq Cells(ent[j])
        BY <1>1, PresetCells
    <1>3. \A x \in Cells(ent[k]) : x \in 0..(EndOfImage - 1)
        BY <1>1, CellsOf
    <1>4. Defaults(ent) = (UNION {Preset(e) : e \in {ent[j] : j \in DOMAIN ent}}) \cap (0..(EndOfImage - 1))
        BY DEF Defaults, ToSet, EndOfImage
    <1>5. ASSUME NEW x \in Cells(ent[k]) PROVE x \in Defaults(ent) <=> x \in Preset(ent[k])
        <2>1. x \in Defaults(ent) <=> \E j \in DOMAIN ent : x \in Preset(ent[j])
            <3>1. x \in UNION {Preset(e) : e \in {ent[j] : j \in DOMAIN ent}} <=>
                      \E j \in DOMAIN ent : x \in Preset(ent[j])
                OBVIOUS
            <3>2. x \in 0..(EndOfImage - 1)
                BY <1>3
            <3>. DEFINE U == UNION {Preset(e) : e \in {ent[j] : j \in DOMAIN ent}}
                        I == 0..(EndOfImage - 1)
            <3>3. x \in U /\ x \in I <=> x \in U
                BY <3>2
            <3>4. Defaults(ent) = U \cap I
                BY <1>4
            <3>. HIDE DEF I
            <3>5. x \in Defaults(ent) <=> x \in U
                <4>. HIDE DEF U
                <4>. QED BY ONLY <3>3, <3>4
            <3>. QED BY <3>1, <3>5 DEF U
        <2>2. \A j \in DOMAIN ent \ {k} : x \notin Preset(ent[j])
            BY <1>1, <1>2
        <2>. QED BY <2>1, <2>2
    <1>. QED BY <1>1, <1>5, DefaultWithin

(* Without one, the outputs and the memory have it.                        *)
LEMMA DefaultWritten ==
    ASSUME NEW e, SoundEntry(e), NEW mem
    PROVE  WithDefault(mem, e) = IF e.kind \in {"out", "mem"} THEN (mem \ Cells(e)) \cup Preset(e) ELSE mem
    BY DEF WithDefault, SoundEntry, EndOfImage

LEMMA DefaultsWritten ==
    ASSUME NEW ent, SoundEntries(ent), NEW mem
    PROVE  \E w : /\ SetDefaults(mem, ent) = w[Len(ent)] /\ w[0] = mem
                  /\ \A n \in 1..Len(ent) : w[n] = WithDefault(w[n - 1], ent[n])
    <1>. DEFINE end == Len(ent)
                A == SUBSET (mem \cup Nat)
                step == [n \in 1..end |-> [a \in A |-> WithDefault(a, ent[n])]]
    <1>1. end \in Nat /\ DOMAIN ent = 1..end /\ \A n \in 1..end : SoundEntry(ent[n])
        BY DEF SoundEntries
    <1>2. ASSUME NEW n \in 1..end, NEW a \in A PROVE WithDefault(a, ent[n]) \in A
        <2>1. Preset(ent[n]) \subseteq Nat
            <3>1. Preset(ent[n]) \subseteq Cells(ent[n]) /\ \A x \in Cells(ent[n]) : x \in Nat
                BY <1>1, PresetCells, CellsOf
            <3>. QED BY <3>1
        <2>2. WithDefault(a, ent[n]) \subseteq a \cup Preset(ent[n])
            BY <1>1, DefaultWritten
        <2>. QED BY <2>1, <2>2
    <1>3. step \in [1..end -> [A -> A]] /\ mem \in A
        <2>. HIDE DEF end
        <2>1. mem \in A
            OBVIOUS
        <2>. HIDE DEF A
        <2>. QED BY <1>2, <2>1
    <1>. HIDE DEF step, end, A
    <1>4. PICK g : Loop(g, end, A, mem, step)
        BY <1>1, <1>3, Recursion
    <1>5. /\ g \in [0..end -> A] /\ g[0] = mem
          /\ \A n \in 1..end : n # 0 /\ g[n] = WithDefault(g[n - 1], ent[n])
        <2>1. g \in [0..end -> A] /\ g[0] = mem /\ \A n \in 1..end : g[n] = step[n][g[n - 1]]
            BY <1>4 DEF Loop
        <2>2. ASSUME NEW n \in 1..end PROVE n # 0 /\ g[n] = WithDefault(g[n - 1], ent[n])
            <3>1. n - 1 \in 0..end /\ n # 0
                BY <1>1
            <3>2. g[n - 1] \in A
                BY <2>1, <3>1
            <3>. QED BY <2>1, <3>1, <3>2 DEF step
        <2>. QED BY <2>1, <2>2
    <1>6. g = [n \in 0..end |-> IF n = 0 THEN mem ELSE WithDefault(g[n - 1], ent[n])]
        <2>1. \A n \in 0..end : n = 0 \/ n \in 1..end
            BY <1>1
        <2>. QED BY <1>5, <2>1
    <1>. DEFINE written[n \in 0..end] == IF n = 0 THEN mem ELSE WithDefault(written[n - 1], ent[n])
    <1>7. written = [n \in 0..end |-> IF n = 0 THEN mem ELSE WithDefault(written[n - 1], ent[n])]
        BY <1>6
    <1>8. SetDefaults(mem, ent) = written[end]
        BY DEF SetDefaults, end
    <1>. HIDE DEF written
    <1>. DEFINE next(n) == IF n = 0 THEN mem ELSE WithDefault(written[n - 1], ent[n])
    <1>9. written = [n \in 0..end |-> next(n)]
        BY <1>7
    <1>. HIDE DEF next
    <1>10. \A n \in 0..end : written[n] = next(n)
        BY <1>9
    <1>11. written[0] = mem /\ \A n \in 1..end : written[n] = WithDefault(written[n - 1], ent[n])
        <2>1. 0 \in 0..end /\ \A n \in 1..end : n \in 0..end /\ n # 0
            BY <1>1
        <2>. QED BY <1>10, <2>1 DEF next
    <1>. QED BY <1>8, <1>11 DEF end

LEMMA SetDefaultsHeld ==
    ASSUME NEW ent, SoundEntries(ent), NEW k \in DOMAIN ent, NEW mem
    PROVE  Held(SetDefaults(mem, ent), ent[k]) =
              IF ent[k].kind \in {"out", "mem"} THEN DefaultOf(ent[k]) ELSE Held(mem, ent[k])
    <1>. DEFINE end == Len(ent)
                e == ent[k]
    <1>1. /\ end \in Nat /\ DOMAIN ent = 1..end /\ \A j \in 1..end : SoundEntry(ent[j])
          /\ \A j \in (1..end) \ {k} : Cells(ent[j]) \cap Cells(e) = {}
        BY DEF SoundEntries
    <1>2. PICK w : /\ SetDefaults(mem, ent) = w[end] /\ w[0] = mem
                   /\ \A n \in 1..end : w[n] = WithDefault(w[n - 1], ent[n])
        BY DefaultsWritten
    <1>. DEFINE Right(n) == \A x \in Cells(e) :
                    x \in w[n] <=> IF k <= n /\ e.kind \in {"out", "mem"} THEN x \in Preset(e) ELSE x \in mem
                S == {n \in 0..end : Right(n)}
    <1>3. ASSUME NEW n \in 1..end, Right(n - 1) PROVE Right(n)
        <2>1. w[n] = IF ent[n].kind \in {"out", "mem"} THEN (w[n - 1] \ Cells(ent[n])) \cup Preset(ent[n])
                     ELSE w[n - 1]
            BY <1>1, <1>2, DefaultWritten
        <2>2. Preset(ent[n]) \subseteq Cells(ent[n])
            BY <1>1, PresetCells
        <2>3. CASE n = k
            <3>1. k <= n /\ ~(k <= n - 1)
                BY <2>3
            <3>. QED BY <1>3, <2>1, <2>3, <3>1
        <2>4. CASE n # k
            <3>1. k <= n <=> k <= n - 1
                BY <1>1, <2>4
            <3>2. Cells(ent[n]) \cap Cells(e) = {}
                BY <1>1, <2>4
            <3>. QED BY <1>3, <2>1, <2>2, <3>1, <3>2
        <2>. QED BY <2>3, <2>4
    <1>4. Right(0)
        <2>1. ~(k <= 0)
            BY <1>1
        <2>. QED BY <1>2, <2>1
    <1>5. Right(end)
        <2>. HIDE DEF Right, end
        <2>1. 0 \in S /\ end \in 0..end
            BY <1>1, <1>4
        <2>2. \A n \in 1..end : n - 1 \in S => n \in S
            <3>1. \A n \in 1..end : n \in 0..end
                BY <1>1
            <3>. QED BY <1>3, <3>1
        <2>. HIDE DEF S
        <2>3. end \in S
            BY <1>1, <2>1, <2>2, Induction
        <2>. QED BY <2>3 DEF S
    <1>6. k <= end /\ SoundEntry(e)
        BY <1>1
    <1>. DEFINE img == SetDefaults(mem, ent)
    <1>7. \A x \in Cells(e) : x \in img <=> IF e.kind \in {"out", "mem"} THEN x \in Preset(e) ELSE x \in mem
        BY <1>2, <1>5, <1>6
    <1>. HIDE DEF e, img
    <1>8. CASE e.kind \in {"out", "mem"}
        <2>1. Held(img, e) = DefaultOf(e)
            BY <1>6, <1>7, <1>8, DefaultWithin
        <2>. QED BY <1>8, <2>1 DEF e, img
    <1>9. CASE e.kind \notin {"out", "mem"}
        <2>1. Held(img, e) = Held(mem, e)
            BY <1>6, <1>7, <1>9, SameHeld
        <2>. QED BY <1>9, <2>1 DEF e, img
    <1>. QED BY <1>8, <1>9

(* Nth counts the elements of a set in their order, each of them once.     *)
LEMMA NthOrder ==
    ASSUME NEW S \in SUBSET Nat, IsFiniteSet(S)
    PROVE  /\ Cardinality(S) \in Nat
           /\ \A d \in 1..Cardinality(S) : Nth(S, d) \in S
           /\ \A n \in S : \E d \in 1..Cardinality(S) : Nth(S, d) = n
           /\ \A c, d \in 1..Cardinality(S) : c < d => Nth(S, c) < Nth(S, d)
    <1>. DEFINE UpTo(n) == {m \in S : m <= n}
                rank(n) == Cardinality(UpTo(n))
                C == Cardinality(S)
    <1>1. C \in Nat
        BY FS_CardinalityType
    <1>2. ASSUME NEW n \in S PROVE IsFiniteSet(UpTo(n)) /\ rank(n) \in 1..C
        <2>1. UpTo(n) \subseteq S /\ UpTo(n) # {}
            OBVIOUS
        <2>2. IsFiniteSet(UpTo(n)) /\ rank(n) <= C
            BY <2>1, FS_Subset
        <2>3. rank(n) \in Nat /\ rank(n) # 0
            BY <2>1, <2>2, FS_CardinalityType, FS_EmptySet
        <2>. QED BY <1>1, <2>2, <2>3
    <1>3. ASSUME NEW m \in S, NEW n \in S, m < n PROVE rank(m) < rank(n)
        <2>1. UpTo(m) \in SUBSET (UpTo(n) \ {n}) /\ n \in UpTo(n)
            <3>1. m \in Nat /\ n \in Nat /\ \A x \in S : x \in Nat
                OBVIOUS
            <3>2. \A x \in S : x <= m => x <= n /\ x # n
                BY <1>3, <3>1
            <3>3. n \in UpTo(n)
                BY <3>1
            <3>4. \A x \in UpTo(m) : x \in UpTo(n) \ {n}
                BY <3>2
            <3>. HIDE DEF UpTo
            <3>. QED BY <3>3, <3>4
        <2>2. IsFiniteSet(UpTo(n) \ {n}) /\ Cardinality(UpTo(n) \ {n}) = rank(n) - 1
            BY <1>2, <2>1, FS_RemoveElement
        <2>3. rank(m) <= Cardinality(UpTo(n) \ {n})
            BY <2>1, <2>2, FS_Subset
        <2>4. rank(m) \in Nat /\ rank(n) \in Nat
            BY <1>2
        <2>. QED BY <2>2, <2>3, <2>4
    <1>4. \A d \in 1..C : Nth(S, d) \in S /\ rank(Nth(S, d)) = d
        BY NthElement
    <1>. HIDE DEF rank
    <1>5. ASSUME NEW n \in S PROVE \E d \in 1..C : Nth(S, d) = n
        <2>. DEFINE d == rank(n)
                    m == Nth(S, d)
        <2>1. d \in 1..C /\ m \in S /\ rank(m) = d
            BY <1>2, <1>4
        <2>2. m \in Nat /\ n \in Nat /\ ~(m < n) /\ ~(n < m)
            <3>1. d \in Nat /\ ~(d < d)
                BY <1>1, <2>1
            <3>2. m \in Nat /\ n \in Nat
                BY <2>1
            <3>. HIDE DEF m
            <3>. QED BY <1>3, <2>1, <3>1, <3>2
        <2>3. m = n
            <3>. HIDE DEF m
            <3>. QED BY ONLY <2>2
        <2>. QED BY <2>1, <2>3
    <1>6. ASSUME NEW c \in 1..C, NEW d \in 1..C, c < d PROVE Nth(S, c) < Nth(S, d)
        <2>. DEFINE m == Nth(S, c)
                    n == Nth(S, d)
        <2>1. m \in S /\ n \in S /\ rank(m) = c /\ rank(n) = d
            BY <1>4
        <2>. HIDE DEF m, n
        <2>2. m \in Nat /\ n \in Nat /\ c \in Nat /\ d \in Nat
            BY <1>1, <2>1
        <2>3. n < m => d < c
            BY <1>3, <2>1
        <2>4. m # n
            BY <1>6, <2>1, <2>2
        <2>5. m < n
            BY ONLY <1>6, <2>2, <2>3, <2>4
        <2>. QED BY <2>5 DEF m, n
    <1>. QED BY <1>1, <1>4, <1>5, <1>6

-----------------------------------------------------------------------------
(* Entries of the copy list: below eight bits the mask has as many.        *)
Copies == [addr: Nat, len: Nat, mask: SUBSET (0..7)]
SoundCopy(c) ==
    /\ c \in Copies /\ c.len # 0
    /\ c.len < 8 => Cardinality(c.mask) = c.len
    /\ c.len >= 8 => \E n \in Nat : c.len = 8 * n
Cover(s) == UNION {Copied(s[i]) : i \in DOMAIN s}

LEMMA CopiedBytes ==
    ASSUME NEW c, c.addr \in Nat, NEW n \in Nat, n # 0, c.len = 8 * n
    PROVE  \A x : x \in Copied(c) <=> x \in Nat /\ 8 * c.addr <= x /\ x < 8 * (c.addr + n)
    <1>. DEFINE a == c.addr
                len == c.len
    <1>1. a \in Nat /\ len = 8 * n /\ len >= 8
        OBVIOUS
    <1>2. 8 * (len \div 8) = 8 * n
        BY <1>1
    <1>3. Copied(c) = {8 * a + 0 + k : k \in 0..(8 * n - 1)}
        BY <1>1, <1>2 DEF Copied, BitsFrom
    <1>. HIDE DEF a, len
    <1>4. ASSUME NEW x PROVE x \in Copied(c) <=> x \in Nat /\ 8 * a <= x /\ x < 8 * (a + n)
        <2>1. ASSUME x \in Copied(c) PROVE x \in Nat /\ 8 * a <= x /\ x < 8 * (a + n)
            BY <1>1, <1>3, <2>1
        <2>2. ASSUME x \in Nat, 8 * a <= x, x < 8 * (a + n) PROVE x \in Copied(c)
            <3>1. x - 8 * a \in 0..(8 * n - 1) /\ x = 8 * a + 0 + (x - 8 * a)
                BY <1>1, <2>2
            <3>. QED BY <1>3, <3>1
        <2>. QED BY <2>1, <2>2
    <1>. QED BY <1>4 DEF a

LEMMA CopiedBits ==
    ASSUME NEW c, c.addr \in Nat, c.mask \in SUBSET (0..7), c.len < 8, c.len \in Nat
    PROVE  /\ \A x : x \in Copied(c) <=> \E k \in c.mask : x = 8 * c.addr + k
           /\ \A k \in 0..7 : 8 * c.addr + k \in Copied(c) <=> k \in c.mask
    <1>1. Copied(c) = {8 * c.addr + k : k \in c.mask}
        <2>1. ~(c.len >= 8)
            OBVIOUS
        <2>. QED BY <2>1 DEF Copied, Shifted
    <1>2. \A j, k \in 0..7 : 8 * c.addr + j = 8 * c.addr + k => j = k
        OBVIOUS
    <1>. QED BY <1>1, <1>2

(* What is copied of a variable are its bits.                              *)
LEMMA CopiedEntry ==
    ASSUME NEW e, SoundEntry(e)
    PROVE  /\ SoundCopy(CopyEntry(e)) /\ Copied(CopyEntry(e)) = Cells(e)
           /\ CopyEntry(e).len = 1 \/ CopyEntry(e).len >= 8
    <1>. DEFINE c == CopyEntry(e)
                mask == IF e.bits <= 8 THEN {e.bit + k : k \in 0..(e.bits - 1)} \cap (0..7) ELSE WideMask
    <1>1. e.bits \in {1, 8, 16, 32} /\ e.offset \in Nat /\ e.bit \in 0..7 /\ (e.bits # 1 => e.bit = 0)
        BY DEF SoundEntry
    <1>2. c = [addr |-> e.offset, len |-> e.bits, mask |-> mask]
        BY DEF CopyEntry
    <1>3. mask \in SUBSET (0..7)
        BY MaskAssumption
    <1>4. e.bits = 1 => mask = {e.bit}
        <2>. SUFFICES ASSUME e.bits = 1 PROVE mask = {e.bit}
            OBVIOUS
        <2>1. \A k \in 0..(e.bits - 1) : k = 0
            OBVIOUS
        <2>2. 0 \in 0..(e.bits - 1) /\ e.bit + 0 = e.bit
            BY <1>1
        <2>. QED BY <1>1, <2>1, <2>2
    <1>. HIDE DEF c, mask
    <1>5. c.addr = e.offset /\ c.len = e.bits /\ c.mask = mask /\ c \in Copies
        BY <1>1, <1>2, <1>3 DEF Copies
    <1>6. CASE e.bits = 1
        <2>1. Cardinality(c.mask) = 1
            BY <1>4, <1>5, <1>6, FS_Singleton
        <2>2. SoundCopy(c)
            BY <1>5, <1>6, <2>1 DEF SoundCopy
        <2>3. \A x : x \in Copied(c) <=> \E k \in c.mask : x = 8 * c.addr + k
            <3>1. c.addr \in Nat /\ c.mask \in SUBSET (0..7) /\ c.len < 8 /\ c.len \in Nat
                BY <1>1, <1>3, <1>5, <1>6
            <3>. QED BY <3>1, CopiedBits
        <2>4. \A x : x \in Copied(c) <=> x = Position(e)
            BY <1>4, <1>5, <1>6, <2>3 DEF Position
        <2>5. \A x : x \in Cells(e) <=> x = Position(e)
            <3>1. \A x : x \in Cells(e) <=> x \in Nat /\ Position(e) <= x /\ x < Position(e) + 1
                BY <1>6, CellsOf
            <3>2. Position(e) \in Nat
                BY CellsOf
            <3>. QED BY ONLY <3>1, <3>2
        <2>. QED BY <1>5, <1>6, <2>2, <2>4, <2>5 DEF c
    <1>7. CASE e.bits # 1
        <2>. DEFINE n == e.bits \div 8
        <2>1. n \in Nat /\ 8 * n = e.bits /\ n # 0
              /\ \A x : x \in Cells(e) <=> x \in Nat /\ 8 * e.offset <= x /\ x < 8 * (e.offset + n)
            <3>1. n \in Nat /\ 8 * n = e.bits /\ e.bits # 0
                  /\ \A x : x \in Cells(e) <=> x \in Nat /\ 8 * e.offset <= x /\ x < 8 * (e.offset + n)
                <4>1. e.bits # 0
                    BY <1>1
                <4>2. /\ e.bits \div 8 \in Nat /\ 8 * (e.bits \div 8) = e.bits
                      /\ \A x : x \in Cells(e) <=>
                            x \in Nat /\ 8 * e.offset <= x /\ x < 8 * (e.offset + (e.bits \div 8))
                    BY <1>7, WholeBytes
                <4>. QED BY ONLY <4>1, <4>2
            <3>. HIDE DEF n
            <3>. QED BY <3>1
        <2>. HIDE DEF n
        <2>2. c.addr \in Nat /\ c.len = 8 * n /\ c.len >= 8 /\ ~(c.len < 8) /\ c.len # 0
            BY <1>1, <1>5, <1>7, <2>1
        <2>3. SoundCopy(c)
            BY <1>5, <2>1, <2>2 DEF SoundCopy
        <2>4. \A x : x \in Copied(c) <=> x \in Nat /\ 8 * c.addr <= x /\ x < 8 * (c.addr + n)
            BY <2>1, <2>2, CopiedBytes
        <2>5. \A x : x \in Copied(c) <=> x \in Cells(e)
            BY ONLY <1>5, <2>1, <2>4
        <2>. QED BY <2>2, <2>3, <2>5 DEF c
    <1>. QED BY <1>6, <1>7

LEMMA Appended ==
    ASSUME NEW S, NEW s \in Seq(S), NEW c \in S
    PROVE  /\ Append(s, c) \in Seq(S) /\ DOMAIN Append(s, c) = 1..(Len(s) + 1)
           /\ \A i \in 1..Len(s) : Append(s, c)[i] = s[i]
           /\ Append(s, c)[Len(s) + 1] = c
    OBVIOUS

(* The last element is replaced.                                           *)
LEMMA Replaced ==
    ASSUME NEW S, NEW s \in Seq(S), s # <<>>, NEW c \in S
    PROVE  LET t == Append(Front(s), c) IN
           /\ t \in Seq(S) /\ DOMAIN t = 1..Len(s)
           /\ \A i \in 1..(Len(s) - 1) : t[i] = s[i]
           /\ t[Len(s)] = c
    <1>. DEFINE n == Len(s) - 1
                r == SubSeq(s, 1, n)
    <1>1. n \in Nat /\ Len(s) = n + 1 /\ \A i \in 1..n : s[i] \in S
        OBVIOUS
    <1>2. 1 \in Int /\ n \in Int
        BY <1>1
    <1>. HIDE DEF n
    <1>3. r \in Seq(S) /\ Len(r) = (IF 1 <= n THEN n - 1 + 1 ELSE 0) /\ \A i \in 1..(n - 1 + 1) : r[i] = s[1 + i - 1]
        BY ONLY <1>1, <1>2, SubSeqProperties
    <1>4. Len(r) = n /\ \A i \in 1..n : r[i] = s[i]
        <2>1. n - 1 + 1 = n /\ (IF 1 <= n THEN n - 1 + 1 ELSE 0) = n /\ \A i \in 1..n : 1 + i - 1 = i
            BY <1>1
        <2>. HIDE DEF r
        <2>. QED BY ONLY <1>3, <2>1
    <1>5. Front(s) = r
        BY DEF Front, n
    <1>. HIDE DEF r
    <1>6. /\ Append(r, c) \in Seq(S) /\ DOMAIN Append(r, c) = 1..(Len(r) + 1)
          /\ \A i \in 1..Len(r) : Append(r, c)[i] = r[i]
          /\ Append(r, c)[Len(r) + 1] = c
        BY <1>3, Appended
    <1>. QED BY ONLY <1>1, <1>4, <1>5, <1>6 DEF n

(* One list is the other with an element more, or with its last one joined *)
(* with this element.                                                      *)
LEMMA CoverAppended ==
    ASSUME NEW s, NEW n \in Nat, DOMAIN s = 1..n, NEW t, DOMAIN t = 1..(n + 1),
           \A i \in 1..n : t[i] = s[i]
    PROVE  Cover(t) = Cover(s) \cup Copied(t[n + 1])
    <1>1. \A i \in 1..(n + 1) : i \in 1..n \/ i = n + 1
        OBVIOUS
    <1>2. \A i \in 1..n : i \in 1..(n + 1)
        OBVIOUS
    <1>3. n + 1 \in 1..(n + 1)
        OBVIOUS
    <1>. QED BY <1>1, <1>2, <1>3 DEF Cover

Extended(s, t, n, C) ==
    /\ n \in Nat \ {0} /\ DOMAIN s = 1..n /\ DOMAIN t = 1..n
    /\ \A i \in 1..(n - 1) : t[i] = s[i]
    /\ Copied(t[n]) = Copied(s[n]) \cup C
LEMMA CoverReplaced ==
    ASSUME NEW s, NEW t, NEW n, NEW C, Extended(s, t, n, C)
    PROVE  Cover(t) = Cover(s) \cup C
    <1>. USE DEF Extended
    <1>1. \A i \in 1..n : i \in 1..(n - 1) \/ i = n
        OBVIOUS
    <1>2. n \in 1..n
        OBVIOUS
    <1>3. ASSUME NEW x \in Cover(t) PROVE x \in Cover(s) \cup C
        <2>1. PICK i \in 1..n : x \in Copied(t[i])
            BY <1>3 DEF Cover
        <2>2. x \in Copied(s[i]) \/ x \in C
            BY <1>1, <2>1
        <2>. QED BY <2>2 DEF Cover
    <1>4. ASSUME NEW x \in Cover(s) \cup C PROVE x \in Cover(t)
        <2>1. CASE x \in C
            BY <1>2, <2>1 DEF Cover
        <2>2. CASE x \in Cover(s)
            <3>1. PICK i \in 1..n : x \in Copied(s[i])
                BY <2>2 DEF Cover
            <3>2. x \in Copied(t[i])
                BY <1>1, <3>1
            <3>. QED BY <3>2 DEF Cover
        <2>. QED BY <1>4, <2>1, <2>2
    <1>. QED BY <1>3, <1>4

(* Two entries for bits of one byte.                                       *)
LEMMA JoinedBits ==
    ASSUME NEW l, SoundCopy(l), l.len < 8, NEW c, SoundCopy(c), c.len = 1, l.addr = c.addr,
           Copied(l) \cap Copied(c) = {}
    PROVE  LET j == [l EXCEPT !.len = @ + c.len, !.mask = @ \cup c.mask]
           IN  SoundCopy(j) /\ Copied(j) = Copied(l) \cup Copied(c)
    <1>. DEFINE j == [l EXCEPT !.len = @ + c.len, !.mask = @ \cup c.mask]
    <1>1. /\ l \in Copies /\ c \in Copies /\ Cardinality(l.mask) = l.len /\ Cardinality(c.mask) = 1 /\ l.len # 0
          /\ l.addr \in Nat /\ l.len \in Nat /\ l.mask \in SUBSET (0..7) /\ c.mask \in SUBSET (0..7) /\ c.len < 8
        BY DEF SoundCopy, Copies
    <1>2. j.addr = l.addr /\ j.len = l.len + 1 /\ j.mask = l.mask \cup c.mask /\ j \in Copies
        <2>1. l = [addr |-> l.addr, len |-> l.len, mask |-> l.mask]
            BY <1>1 DEF Copies
        <2>2. j = [addr |-> l.addr, len |-> l.len + 1, mask |-> l.mask \cup c.mask]
            <3>. DEFINE n == l.len + c.len
                        m == l.mask \cup c.mask
            <3>2. j = [l EXCEPT !.len = n, !.mask = m]
                OBVIOUS
            <3>. HIDE DEF n, m, j
            <3>3. j = [addr |-> l.addr, len |-> n, mask |-> m]
                BY ONLY <2>1, <3>2
            <3>1. j = [addr |-> l.addr, len |-> l.len + c.len, mask |-> l.mask \cup c.mask]
                BY <3>3 DEF n, m
            <3>. QED BY <3>1
        <2>. HIDE DEF j
        <2>3. l.len + 1 \in Nat /\ l.mask \cup c.mask \in SUBSET (0..7)
            BY <1>1
        <2>. QED BY ONLY <1>1, <2>2, <2>3 DEF Copies
    <1>. HIDE DEF j
    <1>3. IsFiniteSet(0..7) /\ Cardinality(0..7) = 8
        <2>1. 0 \in Int /\ 7 \in Int /\ ~(0 > 7) /\ 7 - 0 + 1 = 8
            OBVIOUS
        <2>2. \A a, b \in Int : IsFiniteSet(a..b) /\ Cardinality(a..b) = IF a > b THEN 0 ELSE b - a + 1
            BY ONLY FS_Interval
        <2>3. IsFiniteSet(0..7) /\ Cardinality(0..7) = IF 0 > 7 THEN 0 ELSE 7 - 0 + 1
            BY ONLY <2>1, <2>2
        <2>. QED BY ONLY <2>1, <2>3
    <1>4. PICK b : c.mask = {b}
        <2>1. IsFiniteSet(c.mask)
            BY <1>1, <1>3, FS_Subset
        <2>. QED BY <1>1, <2>1, FS_Singleton
    <1>5. b \in 0..7 /\ b \notin l.mask
        <2>1. b \in 0..7
            BY <1>1, <1>4
        <2>2. 8 * c.addr + b \in Copied(c)
            BY <1>1, <1>4, <2>1, CopiedBits
        <2>3. 8 * l.addr + b \notin Copied(l)
            BY <2>2
        <2>4. \A k \in 0..7 : 8 * l.addr + k \in Copied(l) <=> k \in l.mask
            BY <1>1, CopiedBits
        <2>. QED BY <2>1, <2>3, <2>4
    <1>6. IsFiniteSet(j.mask) /\ Cardinality(j.mask) = l.len + 1
        <2>1. IsFiniteSet(l.mask)
            BY <1>1, <1>3, FS_Subset
        <2>2. IsFiniteSet(l.mask \cup {b}) /\ Cardinality(l.mask \cup {b}) = Cardinality(l.mask) + 1
            BY <1>5, <2>1, FS_AddElement
        <2>. QED BY <1>1, <1>2, <1>4, <2>2
    <1>7. j.len >= 8 => j.len = 8
        BY <1>1, <1>2
    <1>8. SoundCopy(j)
        <2>1. j.len = 8 => j.len = 8 * 1
            OBVIOUS
        <2>. QED BY <1>1, <1>2, <1>6, <1>7, <2>1 DEF SoundCopy
    <1>9. \A x : x \in Copied(l) \cup Copied(c) <=> \E k \in j.mask : x = 8 * l.addr + k
        <2>1. \A x : x \in Copied(l) <=> \E k \in l.mask : x = 8 * l.addr + k
            BY <1>1, CopiedBits
        <2>2. \A x : x \in Copied(c) <=> \E k \in c.mask : x = 8 * l.addr + k
            BY <1>1, CopiedBits
        <2>. QED BY ONLY <1>2, <2>1, <2>2
    <1>10. CASE j.len < 8
        <2>1. \A x : x \in Copied(j) <=> \E k \in j.mask : x = 8 * j.addr + k
            BY <1>1, <1>2, <1>10, CopiedBits
        <2>2. \A x : x \in Copied(j) <=> x \in Copied(l) \cup Copied(c)
            BY ONLY <1>2, <1>9, <2>1
        <2>. QED BY <1>8, <2>2 DEF j
    <1>11. CASE j.len >= 8
        <2>1. j.len = 8 /\ j.addr \in Nat
            BY <1>1, <1>2, <1>7, <1>11
        <2>2. \A x : x \in Copied(j) <=> x \in Nat /\ 8 * j.addr <= x /\ x < 8 * (j.addr + 1)
            <3>1. 1 \in Nat /\ 1 # 0 /\ j.len = 8 * 1
                BY <2>1
            <3>. QED BY <2>1, <3>1, CopiedBytes
        <2>3. j.mask = 0..7
            <3>1. j.mask \in SUBSET (0..7) /\ Cardinality(j.mask) = Cardinality(0..7)
                BY <1>1, <1>2, <1>3, <1>6, <2>1
            <3>. QED BY <1>3, <3>1, FS_Subset
        <2>4. ASSUME NEW x PROVE x \in Copied(j) <=> x \in Copied(l) \cup Copied(c)
            <3>1. x \in Copied(l) \cup Copied(c) <=> \E k \in 0..7 : x = 8 * j.addr + k
                BY <1>2, <1>9, <2>3
            <3>2. ASSUME x \in Nat, 8 * j.addr <= x, x < 8 * (j.addr + 1)
                  PROVE  \E k \in 0..7 : x = 8 * j.addr + k
                <4>1. x - 8 * j.addr \in 0..7 /\ x = 8 * j.addr + (x - 8 * j.addr)
                    BY <2>1, <3>2
                <4>. QED BY <4>1
            <3>3. ASSUME NEW k \in 0..7, x = 8 * j.addr + k
                  PROVE  x \in Nat /\ 8 * j.addr <= x /\ x < 8 * (j.addr + 1)
                BY <2>1, <3>3
            <3>. QED BY <2>2, <3>1, <3>2, <3>3
        <2>. QED BY <1>8, <2>4 DEF j
    <1>12. j.len < 8 \/ j.len >= 8
        BY <1>1, <1>2
    <1>. QED BY <1>10, <1>11, <1>12

(* Two entries for bytes that follow each other.                           *)
LEMMA JoinedBytes ==
    ASSUME NEW l, SoundCopy(l), l.len >= 8, NEW c, SoundCopy(c), c.len >= 8,
           c.addr = l.addr + l.len \div 8
    PROVE  LET j == [l EXCEPT !.len = @ + c.len]
           IN  SoundCopy(j) /\ Copied(j) = Copied(l) \cup Copied(c)
    <1>. DEFINE j == [l EXCEPT !.len = @ + c.len]
    <1>1. /\ l \in Copies /\ l.addr \in Nat /\ l.len \in Nat /\ l.mask \in SUBSET (0..7)
          /\ c.addr \in Nat /\ c.len \in Nat
        BY DEF SoundCopy, Copies
    <1>2. PICK m \in Nat : l.len = 8 * m
        BY DEF SoundCopy
    <1>3. PICK n \in Nat : c.len = 8 * n
        BY DEF SoundCopy
    <1>4. j.addr = l.addr /\ j.len = 8 * (m + n) /\ j \in Copies
        <2>1. l = [addr |-> l.addr, len |-> l.len, mask |-> l.mask]
            BY <1>1 DEF Copies
        <2>2. j = [addr |-> l.addr, len |-> l.len + c.len, mask |-> l.mask]
            BY <2>1
        <2>. HIDE DEF j
        <2>3. l.len + c.len \in Nat /\ l.len + c.len = 8 * (m + n)
            BY <1>1, <1>2, <1>3
        <2>. QED BY ONLY <1>1, <2>2, <2>3 DEF Copies
    <1>. HIDE DEF j
    <1>5. m # 0 /\ n # 0 /\ m + n \in Nat /\ m + n # 0 /\ c.addr = l.addr + m
        <2>1. l.len \div 8 = m
            BY <1>2
        <2>. QED BY <1>1, <1>2, <1>3, <2>1
    <1>6. SoundCopy(j)
        <2>1. ~(j.len < 8) /\ j.len # 0
            BY <1>4, <1>5
        <2>. QED BY <1>4, <1>5, <2>1 DEF SoundCopy
    <1>7. ASSUME NEW x PROVE x \in Copied(j) <=> x \in Copied(l) \cup Copied(c)
        <2>1. x \in Copied(l) <=> x \in Nat /\ 8 * l.addr <= x /\ x < 8 * (l.addr + m)
            BY <1>1, <1>2, <1>5, CopiedBytes
        <2>2. x \in Copied(c) <=> x \in Nat /\ 8 * c.addr <= x /\ x < 8 * (c.addr + n)
            BY <1>1, <1>3, <1>5, CopiedBytes
        <2>3. x \in Copied(j) <=> x \in Nat /\ 8 * j.addr <= x /\ x < 8 * (j.addr + (m + n))
            BY <1>1, <1>4, <1>5, CopiedBytes
        <2>. QED BY <1>1, <1>4, <1>5, <2>1, <2>2, <2>3
    <1>. QED BY <1>6, <1>7 DEF j

(* The entries of the list say how many bits their masks have.             *)
SoundList(s) == s \in Seq(Copies) /\ \A i \in 1..Len(s) : SoundCopy(s[i])
Single(c) == SoundCopy(c) /\ (c.len = 1 \/ c.len >= 8)

LEMMA JoinedList ==
    ASSUME NEW s, SoundList(s), NEW c, Single(c), Cover(s) \cap Copied(c) = {}
    PROVE  SoundList(Joined(s, c)) /\ Cover(Joined(s, c)) = Cover(s) \cup Copied(c)
    <1>. DEFINE n == Len(s)
                l == s[n]
                bits == [l EXCEPT !.len = @ + c.len, !.mask = @ \cup c.mask]
                bytes == [l EXCEPT !.len = @ + c.len]
                t == Joined(s, c)
    <1>1. /\ s \in Seq(Copies) /\ n \in Nat /\ DOMAIN s = 1..n /\ \A i \in 1..n : SoundCopy(s[i])
          /\ SoundCopy(c) /\ c \in Copies /\ c.len \in Nat
        BY DEF SoundList, Single, SoundCopy, Copies
    <1>2. s = <<>> <=> n = 0
        BY <1>1
    <1>3. ASSUME t = Append(s, c) PROVE SoundList(t) /\ Cover(t) = Cover(s) \cup Copied(c)
        <2>. HIDE DEF t
        <2>1. /\ t \in Seq(Copies) /\ DOMAIN t = 1..(n + 1)
              /\ \A i \in 1..n : t[i] = s[i]
              /\ t[n + 1] = c
            BY <1>1, <1>3, Appended
        <2>. HIDE DEF n
        <2>2. Cover(t) = Cover(s) \cup Copied(t[n + 1])
            BY <1>1, <2>1, CoverAppended
        <2>3. \A i \in 1..Len(t) : SoundCopy(t[i])
            <3>1. DOMAIN t = 1..Len(t)
                BY ONLY <2>1
            <3>2. \A i \in 1..(n + 1) : i \in 1..n \/ i = n + 1
                BY <1>1
            <3>. QED BY ONLY <1>1, <2>1, <3>1, <3>2
        <2>. QED BY <2>1, <2>2, <2>3 DEF SoundList
    <1>4. ASSUME n # 0, NEW j, SoundCopy(j), Copied(j) = Copied(l) \cup Copied(c), t = Append(Front(s), j)
          PROVE  SoundList(t) /\ Cover(t) = Cover(s) \cup Copied(c)
        <2>. HIDE DEF t
        <2>1. j \in Copies /\ s # <<>>
            BY <1>2, <1>4 DEF SoundCopy
        <2>2. /\ t \in Seq(Copies) /\ DOMAIN t = 1..n
              /\ \A i \in 1..(n - 1) : t[i] = s[i]
              /\ t[n] = j
            <3>. DEFINE r == Append(Front(s), j)
            <3>1. s \in Seq(Copies)
                BY <1>1
            <3>2. /\ r \in Seq(Copies) /\ DOMAIN r = 1..Len(s)
                  /\ \A i \in 1..(Len(s) - 1) : r[i] = s[i]
                  /\ r[Len(s)] = j
                BY ONLY <2>1, <3>1, Replaced
            <3>3. t = r
                BY <1>4
            <3>. HIDE DEF r
            <3>. QED BY ONLY <3>2, <3>3 DEF n
        <2>3. Copied(t[n]) = Copied(s[n]) \cup Copied(c)
            BY <1>4, <2>2
        <2>. HIDE DEF n
        <2>4. Cover(t) = Cover(s) \cup Copied(c)
            <3>. DEFINE C == Copied(c)
            <3>1. n \in Nat /\ n # 0 /\ DOMAIN s = 1..n
                BY <1>1, <1>4
            <3>2. Copied(t[n]) = Copied(s[n]) \cup C
                BY <2>3
            <3>. HIDE DEF C, l
            <3>3. Extended(s, t, n, C)
                BY ONLY <2>2, <3>1, <3>2 DEF Extended
            <3>4. Cover(t) = Cover(s) \cup C
                BY ONLY <3>3, CoverReplaced
            <3>. QED BY <3>4 DEF C
        <2>5. \A i \in 1..Len(t) : SoundCopy(t[i])
            <3>1. DOMAIN t = 1..Len(t)
                BY ONLY <2>2
            <3>2. \A i \in 1..n : i \in 1..(n - 1) \/ i = n
                BY <1>1
            <3>3. \A i \in 1..(n - 1) : i \in 1..n
                BY <1>1
            <3>. QED BY ONLY <1>1, <1>4, <2>2, <3>1, <3>2, <3>3
        <2>. QED BY <2>2, <2>4, <2>5 DEF SoundList
    <1>5. CASE n = 0
        <2>1. t = <<c>>
            BY <1>2, <1>5 DEF Joined
        <2>2. <<c>> = Append(s, c)
            BY <1>1, <1>2, <1>5
        <2>. QED BY <1>3, <2>1, <2>2
    <1>6. CASE n # 0
        <2>1. SoundCopy(l) /\ Copied(l) \subseteq Cover(s)
            <3>1. n \in 1..n
                BY <1>1, <1>6
            <3>. QED BY <1>1, <3>1 DEF Cover
        <2>2. t = IF l.addr = c.addr /\ l.len < 8 /\ c.len < 8 THEN Append(Front(s), bits)
                  ELSE IF l.len >= 8 /\ c.len >= 8 /\ c.addr = l.addr + l.len \div 8
                  THEN Append(Front(s), bytes)
                  ELSE Append(s, c)
            BY <1>2, <1>6 DEF Joined, Last
        <2>3. ASSUME l.addr = c.addr, l.len < 8, c.len < 8
              PROVE  SoundList(t) /\ Cover(t) = Cover(s) \cup Copied(c)
            <3>1. c.len = 1
                BY <1>1, <2>3 DEF Single
            <3>2. Copied(l) \cap Copied(c) = {}
                BY <2>1
            <3>3. t = Append(Front(s), bits)
                BY <2>2, <2>3
            <3>. HIDE DEF l, n, t
            <3>4. SoundCopy(bits) /\ Copied(bits) = Copied(l) \cup Copied(c)
                BY <1>1, <2>1, <2>3, <3>1, <3>2, JoinedBits
            <3>. HIDE DEF bits
            <3>. QED BY <1>4, <1>6, <3>3, <3>4
        <2>4. ASSUME l.len >= 8, c.len >= 8, c.addr = l.addr + l.len \div 8
              PROVE  SoundList(t) /\ Cover(t) = Cover(s) \cup Copied(c)
            <3>1. t = Append(Front(s), bytes)
                <4>1. ~(c.len < 8)
                    BY <1>1, <2>4
                <4>. QED BY <2>2, <2>4, <4>1
            <3>. HIDE DEF l, n, t
            <3>2. SoundCopy(bytes) /\ Copied(bytes) = Copied(l) \cup Copied(c)
                BY <1>1, <2>1, <2>4, JoinedBytes
            <3>. HIDE DEF bytes
            <3>. QED BY <1>4, <1>6, <3>1, <3>2
        <2>5. ASSUME ~(l.addr = c.addr /\ l.len < 8 /\ c.len < 8),
                     ~(l.len >= 8 /\ c.len >= 8 /\ c.addr = l.addr + l.len \div 8)
              PROVE  SoundList(t) /\ Cover(t) = Cover(s) \cup Copied(c)
            BY <1>3, <2>2, <2>5
        <2>. QED BY <2>3, <2>4, <2>5
    <1>. QED BY <1>5, <1>6

-----------------------------------------------------------------------------
(* The exported outputs are in ascending order: the list is kept.          *)
Exporting(ent) == [d \in 1..Cardinality(Exports(ent)) |-> CopyEntry(ent[Nth(Exports(ent), d)])]

LEMMA ExportsOf ==
    ASSUME NEW ent, SoundEntries(ent)
    PROVE  /\ Exports(ent) \in SUBSET Nat /\ IsFiniteSet(Exports(ent)) /\ Cardinality(Exports(ent)) \in Nat
           /\ Exports(ent) \in SUBSET (DOMAIN ent)
           /\ \A k \in Exports(ent) : IsExported(ent[k]) /\ SoundEntry(ent[k])
    <1>1. DOMAIN ent = 1..Len(ent) /\ Len(ent) \in Nat /\ \A k \in DOMAIN ent : SoundEntry(ent[k])
        BY DEF SoundEntries
    <1>2. Exports(ent) \in SUBSET (DOMAIN ent) /\ \A k \in Exports(ent) : IsExported(ent[k])
        BY DEF Exports, IsExported
    <1>3. IsFiniteSet(DOMAIN ent)
        BY <1>1, FS_Interval
    <1>4. IsFiniteSet(Exports(ent))
        BY <1>2, <1>3, FS_Subset
    <1>5. Cardinality(Exports(ent)) \in Nat
        BY <1>4, FS_CardinalityType
    <1>. QED BY <1>1, <1>2, <1>4, <1>5

LEMMA KeptOrder ==
    ASSUME NEW d, SoundEntry(d), NEW e, SoundEntry(e), Position(d) < Position(e),
           Cells(d) \cap Cells(e) = {}
    PROVE  LET a == CopyEntry(d)
               b == CopyEntry(e)
           IN  a.addr <= b.addr /\ (a.addr = b.addr => a.mask \cap b.mask = {})
    <1>1. /\ d.offset \in Nat /\ d.bit \in 0..7 /\ e.offset \in Nat /\ e.bit \in 0..7
          /\ 8 * d.offset + d.bit < 8 * e.offset + e.bit
        BY DEF SoundEntry, Position
    <1>2. d.offset <= e.offset
        BY <1>1
    <1>3. ASSUME d.offset = e.offset PROVE d.bits <= 8 /\ e.bits <= 8
        <2>1. e.bit > d.bit /\ e.bits = 1 /\ d.bits \in {1, 8, 16, 32}
            BY <1>1, <1>3 DEF SoundEntry
        <2>2. ASSUME d.bits > 8 PROVE FALSE
            <3>1. d.bit = 0 /\ d.offset = e.offset
                BY <1>3, <2>1, <2>2 DEF SoundEntry
            <3>2. e.bit \in 0..(d.bits - 1) /\ 0 \in 0..(e.bits - 1)
                BY <1>1, <2>1, <2>2
            <3>3. Position(d) + e.bit \in Cells(d) /\ Position(e) + 0 \in Cells(e)
                BY <3>2, CellsOf
            <3>4. Position(d) + e.bit = Position(e) + 0
                BY <1>1, <3>1 DEF Position
            <3>. QED BY <3>3, <3>4
        <2>. QED BY <2>1, <2>2
    <1>4. ASSUME d.offset = e.offset,
                 NEW x \in {d.bit + k : k \in 0..(d.bits - 1)} \cap {e.bit + k : k \in 0..(e.bits - 1)}
          PROVE  FALSE
        <2>1. PICK j \in 0..(d.bits - 1) : x = d.bit + j
            OBVIOUS
        <2>2. PICK k \in 0..(e.bits - 1) : x = e.bit + k
            OBVIOUS
        <2>3. Position(d) + j \in Cells(d) /\ Position(e) + k \in Cells(e)
            BY CellsOf
        <2>4. Position(d) + j = Position(e) + k
            <3>1. j \in Nat /\ k \in Nat
                BY CellsOf
            <3>2. d.bit + j = e.bit + k
                BY <2>1, <2>2
            <3>. QED BY <1>1, <1>4, <3>1, <3>2 DEF Position
        <2>. QED BY <2>3, <2>4
    <1>. QED BY <1>2, <1>3, <1>4 DEF CopyEntry

LEMMA KeptList ==
    ASSUME NEW ent, SoundEntries(ent)
    PROVE  /\ ExportList(ent) = Exporting(ent) /\ Exporting(ent) \in Seq(Copies)
           /\ Len(Exporting(ent)) = Cardinality(Exports(ent))
    <1>. DEFINE E == Exports(ent)
                C == Cardinality(E)
                cl == Exporting(ent)
    <1>1. C \in Nat /\ (\A d \in 1..C : Nth(E, d) \in E)
          /\ (\A c, d \in 1..C : c < d => Nth(E, c) < Nth(E, d))
        BY ExportsOf, NthOrder
    <1>2. \A k \in E : k \in DOMAIN ent /\ SoundEntry(ent[k]) /\ IsExported(ent[k])
        BY ExportsOf
    <1>3. \A d \in 1..C : cl[d] = CopyEntry(ent[Nth(E, d)]) /\ cl[d] \in Copies
        <2>1. \A d \in 1..C : cl[d] = CopyEntry(ent[Nth(E, d)])
            BY DEF Exporting
        <2>2. \A d \in 1..C : SoundCopy(CopyEntry(ent[Nth(E, d)]))
            BY <1>1, <1>2, CopiedEntry
        <2>. QED BY <2>1, <2>2 DEF SoundCopy
    <1>4. cl = [d \in 1..C |-> cl[d]]
        BY DEF Exporting
    <1>5. cl \in Seq(Copies) /\ Len(cl) = C
        <2>. HIDE DEF cl, C
        <2>. QED BY ONLY <1>1, <1>3, <1>4
    <1>6. Ascending(cl)
        <2>. SUFFICES ASSUME NEW d \in 2..C
                      PROVE  /\ cl[d - 1].addr <= cl[d].addr
                             /\ cl[d - 1].addr = cl[d].addr => cl[d - 1].mask \cap cl[d].mask = {}
            BY <1>5 DEF Ascending
        <2>1. d - 1 \in 1..C /\ d \in 1..C /\ d - 1 < d
            BY <1>1
        <2>. DEFINE j == Nth(E, d - 1)
                    k == Nth(E, d)
        <2>2. j \in E /\ k \in E /\ j < k
            BY <1>1, <2>1
        <2>3. cl[d - 1] = CopyEntry(ent[j]) /\ cl[d] = CopyEntry(ent[k])
            BY <1>3, <2>1
        <2>. HIDE DEF E, j, k, cl
        <2>4. j # k
            <3>1. j \in Nat /\ k \in Nat
                BY <2>2, ExportsOf DEF E
            <3>. QED BY <2>2, <3>1
        <2>5. Position(ent[j]) < Position(ent[k]) /\ Cells(ent[j]) \cap Cells(ent[k]) = {}
              /\ SoundEntry(ent[j]) /\ SoundEntry(ent[k])
            BY <1>2, <2>2, <2>4 DEF SoundEntries
        <2>. QED BY <2>3, <2>5, KeptOrder
    <1>7. ExportList(ent) = cl
        <2>1. ExportList(ent) = IF Ascending(cl) THEN cl ELSE <<>>
            BY DEF ExportList, Exporting
        <2>. QED BY <1>6, <2>1
    <1>. QED BY <1>5, <1>7

LEMMA JoinedTyped ==
    ASSUME NEW s \in Seq(Copies), NEW c \in Copies
    PROVE  Joined(s, c) \in Seq(Copies)
    <1>. DEFINE l == s[Len(s)]
                bits == [l EXCEPT !.len = @ + c.len, !.mask = @ \cup c.mask]
                bytes == [l EXCEPT !.len = @ + c.len]
    <1>1. c.len \in Nat /\ c.mask \in SUBSET (0..7)
        BY DEF Copies
    <1>2. CASE s = <<>>
        BY <1>2 DEF Joined
    <1>3. CASE s # <<>>
        <2>1. l \in Copies
            <3>1. Len(s) \in 1..Len(s)
                BY <1>3
            <3>. QED BY <3>1
        <2>. HIDE DEF l
        <2>2. l = [addr |-> l.addr, len |-> l.len, mask |-> l.mask]
              /\ l.addr \in Nat /\ l.len \in Nat /\ l.mask \in SUBSET (0..7)
            BY ONLY <2>1 DEF Copies
        <2>. DEFINE n == l.len + c.len
                    m == l.mask \cup c.mask
        <2>3. n \in Nat /\ m \in SUBSET (0..7) /\ bits = [l EXCEPT !.len = n, !.mask = m]
              /\ bytes = [l EXCEPT !.len = n]
            BY <1>1, <2>2
        <2>. HIDE DEF n, m, bits, bytes
        <2>4. bits \in Copies /\ bytes \in Copies
            <3>1. bits = [addr |-> l.addr, len |-> n, mask |-> m]
                BY ONLY <2>2, <2>3
            <3>2. bytes = [addr |-> l.addr, len |-> n, mask |-> l.mask]
                BY ONLY <2>2, <2>3
            <3>. QED BY ONLY <2>2, <2>3, <3>1, <3>2 DEF Copies
        <2>5. Joined(s, c) \in {Append(Front(s), bits), Append(Front(s), bytes), Append(s, c)}
            BY <1>3 DEF Joined, Last, bits, bytes, l
        <2>6. Append(Front(s), bits) \in Seq(Copies) /\ Append(Front(s), bytes) \in Seq(Copies)
            BY <1>3, <2>4, Replaced
        <2>7. Append(s, c) \in Seq(Copies)
            OBVIOUS
        <2>. QED BY <2>5, <2>6, <2>7
    <1>. QED BY <1>2, <1>3

LEMMA CopyListJoined ==
    ASSUME NEW ent, SoundEntries(ent)
    PROVE  LET end == Cardinality(Exports(ent)) IN
           \E w : /\ CopyList(ent) = w[end] /\ w[0] = <<>>
                  /\ \A n \in 1..end : w[n] = Joined(w[n - 1], Exporting(ent)[n])
    <1>. DEFINE end == Cardinality(Exports(ent))
                cl == Exporting(ent)
                A == Seq(Copies)
                base == <<>>
                step == [n \in 1..end |-> [a \in A |-> Joined(a, cl[n])]]
    <1>1. end \in Nat /\ cl \in Seq(Copies) /\ Len(cl) = end /\ ExportList(ent) = cl
        BY KeptList, ExportsOf
    <1>. HIDE DEF end, cl
    <1>2. \A n \in 1..end : cl[n] \in Copies
        BY <1>1
    <1>3. step \in [1..end -> [A -> A]] /\ base \in A
        <2>1. \A n \in 1..end : \A a \in A : Joined(a, cl[n]) \in A
            BY <1>2, JoinedTyped
        <2>2. base \in A
            OBVIOUS
        <2>. HIDE DEF A, base
        <2>. QED BY <2>1, <2>2
    <1>. HIDE DEF step, A, base
    <1>4. PICK g : Loop(g, end, A, base, step)
        BY <1>1, <1>3, Recursion
    <1>5. /\ g \in [0..end -> A] /\ g[0] = <<>>
          /\ \A n \in 1..end : n # 0 /\ g[n] = Joined(g[n - 1], cl[n])
        <2>1. g \in [0..end -> A] /\ g[0] = base /\ \A n \in 1..end : g[n] = step[n][g[n - 1]]
            BY <1>4 DEF Loop
        <2>2. ASSUME NEW n \in 1..end PROVE n # 0 /\ g[n] = Joined(g[n - 1], cl[n])
            <3>1. n - 1 \in 0..end /\ n # 0
                BY <1>1
            <3>2. g[n - 1] \in A
                BY <2>1, <3>1
            <3>. QED BY <2>1, <3>1, <3>2 DEF step
        <2>. QED BY <2>1, <2>2 DEF base
    <1>6. g = [n \in 0..end |-> IF n = 0 THEN <<>> ELSE Joined(g[n - 1], cl[n])]
        <2>1. \A n \in 0..end : n = 0 \/ n \in 1..end
            BY <1>1
        <2>. QED BY <1>5, <2>1
    <1>. DEFINE joined[n \in 0..end] == IF n = 0 THEN <<>> ELSE Joined(joined[n - 1], cl[n])
    <1>7. joined = [n \in 0..end |-> IF n = 0 THEN <<>> ELSE Joined(joined[n - 1], cl[n])]
        BY <1>6
    <1>8. CopyList(ent) = joined[end]
        BY <1>1 DEF CopyList
    <1>. HIDE DEF joined
    <1>. DEFINE next(n) == IF n = 0 THEN <<>> ELSE Joined(joined[n - 1], cl[n])
    <1>9. joined = [n \in 0..end |-> next(n)]
        BY <1>7
    <1>. HIDE DEF next
    <1>10. \A n \in 0..end : joined[n] = next(n)
        BY <1>9
    <1>11. joined[0] = <<>> /\ \A n \in 1..end : joined[n] = Joined(joined[n - 1], cl[n])
        <2>1. 0 \in 0..end /\ \A n \in 1..end : n \in 0..end /\ n # 0
            BY <1>1
        <2>. QED BY <1>10, <2>1 DEF next
    <1>. QED BY <1>8, <1>11 DEF end, cl

(* The copy list stands for the bits of the exported outputs, whatever is  *)
(* joined.                                                                 *)
LEMMA CopyListCovers ==
    ASSUME NEW ent, SoundEntries(ent)
    PROVE  \A x : x \in Cover(CopyList(ent)) <=> \E k \in Exports(ent) : x \in Cells(ent[k])
    <1>. DEFINE E == Exports(ent)
                end == Cardinality(E)
                cl == Exporting(ent)
    <1>1. /\ end \in Nat /\ \A d \in 1..end : Nth(E, d) \in E
          /\ \A k \in E : \E d \in 1..end : Nth(E, d) = k
          /\ \A c, d \in 1..end : c < d => Nth(E, c) < Nth(E, d)
          /\ E \in SUBSET Nat
        BY ExportsOf, NthOrder
    <1>2. \A k \in E : k \in DOMAIN ent /\ SoundEntry(ent[k])
        BY ExportsOf
    <1>3. ASSUME NEW d \in 1..end
          PROVE  Single(cl[d]) /\ Copied(cl[d]) = Cells(ent[Nth(E, d)])
        <2>1. cl[d] = CopyEntry(ent[Nth(E, d)])
            BY DEF Exporting
        <2>2. SoundEntry(ent[Nth(E, d)])
            BY <1>1, <1>2
        <2>. HIDE DEF cl, E
        <2>. QED BY <2>1, <2>2, CopiedEntry DEF Single
    <1>4. ASSUME NEW c \in 1..end, NEW d \in 1..end, c < d PROVE Copied(cl[c]) \cap Copied(cl[d]) = {}
        <2>1. Nth(E, c) < Nth(E, d) /\ Nth(E, c) \in E /\ Nth(E, d) \in E
            BY <1>1, <1>4
        <2>2. Nth(E, c) \in Nat /\ Nth(E, d) \in Nat
            BY <1>1, <2>1
        <2>3. Nth(E, c) # Nth(E, d)
            BY <2>1, <2>2
        <2>4. Cells(ent[Nth(E, c)]) \cap Cells(ent[Nth(E, d)]) = {}
            BY <1>2, <2>1, <2>3 DEF SoundEntries
        <2>. QED BY <1>3, <2>4
    <1>5. PICK w : /\ CopyList(ent) = w[end] /\ w[0] = <<>>
                   /\ \A n \in 1..end : w[n] = Joined(w[n - 1], cl[n])
        BY CopyListJoined
    <1>. HIDE DEF cl, E
    <1>. DEFINE Good(n) == /\ SoundList(w[n])
                           /\ \A x : x \in Cover(w[n]) <=> \E d \in 1..n : x \in Copied(cl[d])
                S == {n \in 0..end : Good(n)}
    <1>6. Good(0)
        <2>1. <<>> \in Seq(Copies) /\ Len(<<>>) = 0 /\ DOMAIN <<>> = {} /\ 1..0 = {}
            OBVIOUS
        <2>2. SoundList(<<>>) /\ Cover(<<>>) = {}
            BY <2>1 DEF SoundList, Cover
        <2>. QED BY <1>5, <2>1, <2>2
    <1>7. ASSUME NEW n \in 1..end, Good(n - 1) PROVE Good(n)
        <2>1. \A d \in 1..(n - 1) : d \in 1..end /\ d < n
            BY <1>1
        <2>2. Cover(w[n - 1]) \cap Copied(cl[n]) = {}
            BY <1>4, <1>7, <2>1
        <2>3. SoundList(w[n]) /\ Cover(w[n]) = Cover(w[n - 1]) \cup Copied(cl[n])
            <3>1. SoundList(w[n - 1]) /\ Single(cl[n]) /\ w[n] = Joined(w[n - 1], cl[n])
                BY <1>3, <1>5, <1>7
            <3>. QED BY <2>2, <3>1, JoinedList
        <2>4. \A d : d \in 1..n <=> d \in 1..(n - 1) \/ d = n
            BY <1>1
        <2>5. \A x : x \in Cover(w[n]) <=> \E d \in 1..n : x \in Copied(cl[d])
            <3>1. \A x : x \in Cover(w[n - 1]) <=> \E d \in 1..(n - 1) : x \in Copied(cl[d])
                BY <1>7
            <3>. QED BY ONLY <2>3, <2>4, <3>1
        <2>. QED BY <2>3, <2>5
    <1>8. Good(end)
        <2>. HIDE DEF Good, end
        <2>1. 0 \in S /\ end \in 0..end
            BY <1>1, <1>6
        <2>2. \A n \in 1..end : n - 1 \in S => n \in S
            <3>1. \A n \in 1..end : n \in 0..end
                BY <1>1
            <3>. QED BY <1>7, <3>1
        <2>. HIDE DEF S
        <2>3. end \in S
            BY <1>1, <2>1, <2>2, Induction
        <2>. QED BY <2>3 DEF S
    <1>9. \A x : x \in Cover(CopyList(ent)) <=> \E d \in 1..end : x \in Cells(ent[Nth(E, d)])
        <2>1. \A x : x \in Cover(w[end]) <=> \E d \in 1..end : x \in Copied(cl[d])
            BY <1>8
        <2>2. \A d \in 1..end : Copied(cl[d]) = Cells(ent[Nth(E, d)])
            BY <1>3
        <2>. QED BY ONLY <1>5, <2>1, <2>2
    <1>10. ASSUME NEW x
           PROVE  (\E d \in 1..end : x \in Cells(ent[Nth(E, d)])) <=> \E k \in E : x \in Cells(ent[k])
        BY <1>1
    <1>. QED BY ONLY <1>9, <1>10 DEF E

-----------------------------------------------------------------------------
(* What the applications read under the names of a configuration.          *)
Reading(f, img) == [n \in NamesIn(f) |-> Get(img, Find(Parse(f).ent, n))]
Declares(m, f, n, e) ==
    n = e.name /\ n \in NamesIn(f) /\ n \in DOMAIN Declared[m][f] /\ Declared[m][f][n] = AsDeclared(m, e)

LEMMA ReadEntry ==
    ASSUME NEW f \in Files, NEW img
    PROVE  /\ DOMAIN Reading(f, img) = NamesIn(f)
           /\ \A n \in NamesIn(f) : \E k \in DOMAIN Parse(f).ent : n = Parse(f).ent[k].name
           /\ \A k \in DOMAIN Parse(f).ent : Reading(f, img)[Parse(f).ent[k].name] = Held(img, Parse(f).ent[k])
    <1>. DEFINE ent == Parse(f).ent
    <1>1. NamesIn(f) = {ent[k].name : k \in DOMAIN ent}
        BY DeclaredNames
    <1>2. ASSUME NEW k \in DOMAIN ent PROVE Reading(f, img)[ent[k].name] = Held(img, ent[k])
        <2>1. Reading(f, img)[ent[k].name] = Get(img, Find(ent, ent[k].name))
            BY <1>1 DEF Reading
        <2>2. Find(ent, ent[k].name) = View(ent[k])
            BY FoundEntry
        <2>3. SoundEntry(ent[k])
            BY EntriesSound DEF SoundEntries
        <2>. QED BY <2>1, <2>2, <2>3, GetHeld
    <1>. QED BY <1>1, <1>2 DEF Reading

LEMMA DeclaredEntry ==
    ASSUME NEW m \in Machines, NEW f \in Files
    PROVE  /\ DOMAIN Declared[m][f] = NamesIn(f)
           /\ \A k \in DOMAIN Parse(f).ent : Declares(m, f, Parse(f).ent[k].name, Parse(f).ent[k])
    <1>1. Declared[m][f] = [n \in NamesIn(f) |-> Variable(m, f, n)]
        BY DEF Declared
    <1>2. ASSUME NEW k \in DOMAIN Parse(f).ent
          PROVE  Declares(m, f, Parse(f).ent[k].name, Parse(f).ent[k])
        <2>. DEFINE n == Parse(f).ent[k].name
        <2>1. n \in NamesIn(f)
            BY DeclaredNames
        <2>2. Variable(m, f, n) = AsDeclared(m, Parse(f).ent[k])
            BY DeclaredVariable
        <2>. QED BY <1>1, <2>1, <2>2 DEF Declares
    <1>. QED BY <1>1, <1>2

(* Without a file there are no names.                                      *)
LEMMA NoEntries ==
    ASSUME NoFile \in Files
    PROVE  NamesIn(NoFile) = {} /\ DOMAIN Parse(NoFile).ent = {}
    <1>1. DOMAIN NoFile = {}
        BY DEF NoFile
    <1>2. NamesIn(NoFile) = {}
        BY <1>1 DEF NamesIn
    <1>. QED BY <1>2, DeclaredNames

-----------------------------------------------------------------------------
(* The values that every variable but some has kept.                       *)
LEMMA KeptReading ==
    ASSUME NEW f \in Files, NEW old, NEW new,
           \A k \in DOMAIN Parse(f).ent : Held(new, Parse(f).ent[k]) = Held(old, Parse(f).ent[k])
    PROVE  Reading(f, new) = Reading(f, old)
    <1>1. \A n \in NamesIn(f) : Reading(f, new)[n] = Reading(f, old)[n]
        <2>. SUFFICES ASSUME NEW n \in NamesIn(f) PROVE Reading(f, new)[n] = Reading(f, old)[n]
            OBVIOUS
        <2>1. PICK k \in DOMAIN Parse(f).ent : n = Parse(f).ent[k].name
            BY ReadEntry
        <2>2. Reading(f, new)[n] = Held(new, Parse(f).ent[k])
            BY <2>1, ReadEntry
        <2>3. Reading(f, old)[n] = Held(old, Parse(f).ent[k])
            BY <2>1, ReadEntry
        <2>. QED BY <2>2, <2>3
    <1>. QED BY <1>1 DEF Reading

(* A module stores its inputs: no variable changes but its own inputs.     *)
LEMMA DeliveredInputs ==
    ASSUME NEW f \in Files, NEW c \in DOMAIN Parse(f).devs, NEW img, NEW value,
           NEW k \in DOMAIN Parse(f).ent,
           ~(Parse(f).ent[k].kind = "inp" /\ Parse(f).ent[k].address = Parse(f).devs[c].address)
    PROVE  Held(Write(img, Parse(f).devs[c].in, Parse(f).devs[c].inLen, value), Parse(f).ent[k]) =
               Held(img, Parse(f).ent[k])
    <1>. DEFINE e == Parse(f).ent[k]
                dev == Parse(f).devs[c]
                new == Write(img, dev.in, dev.inLen, value)
    <1>1. Cells(e) \cap BitsFrom(dev.in, 0, 8 * dev.inLen) = {}
        BY OwnArea
    <1>2. SoundEntry(e)
        BY EntriesSound DEF SoundEntries
    <1>. HIDE DEF e, dev
    <1>3. \A x \in Cells(e) : x \in new <=> x \in img
        <2>1. Transferred(dev.in, dev.inLen) \subseteq BitsFrom(dev.in, 0, 8 * dev.inLen)
            BY DEF Transferred
        <2>2. \A x : x \notin Transferred(dev.in, dev.inLen) => (x \in new <=> x \in img)
            BY DEF Write
        <2>. QED BY ONLY <1>1, <2>1, <2>2
    <1>4. Held(new, e) = Held(img, e)
        <2>. HIDE DEF new
        <2>. QED BY <1>2, <1>3, SameHeld
    <1>. QED BY <1>4 DEF e, dev, new

(* One variable is written.                                                *)
OnlyWritten(ent, k, new, old, value) ==
    /\ Held(new, ent[k]) = value \cap (0..(ent[k].bits - 1))
    /\ \A j \in DOMAIN ent : j # k => Held(new, ent[j]) = Held(old, ent[j])
LEMMA WrittenVariable ==
    ASSUME NEW f \in Files, NEW k \in DOMAIN Parse(f).ent, NEW img, NEW value \in Patterns,
           NEW new, new = Set(img, View(Parse(f).ent[k]), value)
    PROVE  OnlyWritten(Parse(f).ent, k, new, img, value)
    <1>. DEFINE ent == Parse(f).ent
    <1>1. /\ \A j \in DOMAIN ent : SoundEntry(ent[j])
          /\ \A j \in DOMAIN ent : j # k => Cells(ent[j]) \cap Cells(ent[k]) = {}
        BY EntriesSound DEF SoundEntries
    <1>2. value \in SUBSET Nat
        BY PatternAssumption
    <1>0. new = Set(img, View(ent[k]), value)
        OBVIOUS
    <1>. HIDE DEF ent
    <1>3. /\ \A i \in 0..(ent[k].bits - 1) : Position(ent[k]) + i \in new <=> i \in value
          /\ \A x : x \notin Cells(ent[k]) => (x \in new <=> x \in img)
        <2>1. k \in DOMAIN ent
            BY DEF ent
        <2>2. SoundEntry(ent[k])
            BY <1>1, <2>1
        <2>. QED BY <1>0, <1>2, <2>2, SetHeld
    <1>4. Held(new, ent[k]) = value \cap (0..(ent[k].bits - 1))
        BY <1>3 DEF Held
    <1>5. ASSUME NEW j \in DOMAIN ent, j # k PROVE Held(new, ent[j]) = Held(img, ent[j])
        <2>1. SoundEntry(ent[j]) /\ \A x \in Cells(ent[j]) : x \in new <=> x \in img
            BY <1>1, <1>3, <1>5
        <2>. QED BY <2>1, SameHeld
    <1>. QED BY <1>4, <1>5 DEF ent, OnlyWritten

(* All exported outputs are written: each of them gets its value, and no   *)
(* other variable changes.                                                 *)
ShiftedTo(e, values) == Shifted(values \cap (0..(e.bits - 1)), Position(e))

LEMMA ShiftedBits ==
    ASSUME NEW e, SoundEntry(e), NEW values
    PROVE  /\ ShiftedTo(e, values) \subseteq Cells(e)
           /\ \A i \in 0..(e.bits - 1) : Position(e) + i \in ShiftedTo(e, values) <=> i \in values
    <1>. DEFINE p == Position(e)
                B == 0..(e.bits - 1)
    <1>1. p \in Nat /\ \A i \in B : p + i \in Cells(e)
        BY CellsOf
    <1>2. ShiftedTo(e, values) = {p + i : i \in values \cap B}
        BY DEF ShiftedTo, Shifted
    <1>3. \A i \in B : i \in Int
        BY CellsOf
    <1>. HIDE DEF p, B
    <1>4. ShiftedTo(e, values) \subseteq Cells(e)
        BY <1>1, <1>2
    <1>5. ASSUME NEW i \in B PROVE p + i \in ShiftedTo(e, values) <=> i \in values
        <2>1. ASSUME p + i \in ShiftedTo(e, values) PROVE i \in values
            <3>1. PICK j \in values \cap B : p + i = p + j
                BY <1>2, <2>1
            <3>2. i \in Int /\ j \in Int /\ p \in Int
                BY <1>1, <1>3
            <3>3. i = j
                BY ONLY <3>1, <3>2
            <3>. QED BY <3>1, <3>3
        <2>. QED BY <1>2, <2>1
    <1>. QED BY <1>4, <1>5 DEF p, B

LEMMA ExportedNames ==
    ASSUME NEW f \in Files, conf = Parse(f)
    PROVE  LET ent == Parse(f).ent IN
           /\ \A n \in Exported : \E k \in Exports(ent) : n = ent[k].name
           /\ \A k \in DOMAIN ent : k \in Exports(ent) <=> IsExported(ent[k])
           /\ \A k \in Exports(ent) : k \in DOMAIN ent /\ ent[k].name \in Exported
    BY DEF Exported, Exports, IsExported

LEMMA ExportedOutputs ==
    ASSUME NEW f \in Files, conf = Parse(f), NEW w \in [Exported -> Patterns], NEW background,
           ExportOutputs(w, background), NEW k \in DOMAIN Parse(f).ent
    PROVE  LET e == Parse(f).ent[k] IN
           /\ IsExported(e) => /\ e.name \in Exported
                               /\ Held(image', e) = w[e.name] \cap (0..(e.bits - 1))
           /\ ~IsExported(e) => Held(image', e) = Held(image, e)
    <1>. DEFINE ent == Parse(f).ent
                e == ent[k]
                copied == Cover(CopyList(ent))
                blank(n) == Shifted(0..(FindVariable(n).len - 1), 8 * FindVariable(n).addr + FindVariable(n).bit)
                out(n) == Shifted(w[n] \cap (0..(FindVariable(n).len - 1)),
                                  8 * FindVariable(n).addr + FindVariable(n).bit)
                user == (background \ UNION {blank(n) : n \in Exported}) \cup UNION {out(n) : n \in Exported}
    <1>1. /\ \A j \in DOMAIN ent : SoundEntry(ent[j])
          /\ \A i, j \in DOMAIN ent : i # j => Cells(ent[i]) \cap Cells(ent[j]) = {}
          /\ \A i, j \in DOMAIN ent : i # j => ent[i].name # ent[j].name
        BY EntriesSound DEF SoundEntries
    <1>2. image' = (image \ copied) \cup (user \cap copied)
        <2>1. UNION {Copied(c) : c \in ToSet(conf.cl)} = copied
            <3>1. conf.cl = CopyList(ent)
                BY DEF Parse, CorrectOffsets
            <3>2. ToSet(CopyList(ent)) = {CopyList(ent)[i] : i \in DOMAIN CopyList(ent)}
                BY DEF ToSet
            <3>. HIDE DEF ent
            <3>. QED BY <3>1, <3>2 DEF Cover
        <2>2. DOMAIN w = Exported
            OBVIOUS
        <2>. QED BY <2>1, <2>2 DEF ExportOutputs, ExportFrom
    <1>3. \A x : x \in copied <=> \E j \in Exports(ent) : x \in Cells(ent[j])
        BY EntriesSound, CopyListCovers
    <1>4. /\ \A n \in Exported : \E j \in Exports(ent) : n = ent[j].name
          /\ \A j \in DOMAIN ent : j \in Exports(ent) <=> IsExported(ent[j])
          /\ \A j \in Exports(ent) : j \in DOMAIN ent /\ ent[j].name \in Exported
        BY ExportedNames
    <1>5. ASSUME NEW j \in Exports(ent)
          PROVE  out(ent[j].name) = ShiftedTo(ent[j], w[ent[j].name])
        <2>1. FindVariable(ent[j].name) = [addr |-> ent[j].offset, bit |-> ent[j].bit, len |-> ent[j].bits]
            BY <1>4, FoundVariable DEF View
        <2>. HIDE DEF ent
        <2>. QED BY <2>1 DEF ShiftedTo, Position
    <1>6. ASSUME NEW j \in Exports(ent)
          PROVE  blank(ent[j].name) = ShiftedTo(ent[j], 0..(ent[j].bits - 1))
        <2>1. FindVariable(ent[j].name) = [addr |-> ent[j].offset, bit |-> ent[j].bit, len |-> ent[j].bits]
            BY <1>4, FoundVariable DEF View
        <2>2. \A B : B \cap B = B
            OBVIOUS
        <2>3. (0..(ent[j].bits - 1)) \cap (0..(ent[j].bits - 1)) = 0..(ent[j].bits - 1)
            BY <2>2
        <2>. HIDE DEF ent
        <2>4. ShiftedTo(ent[j], 0..(ent[j].bits - 1)) = Shifted(0..(ent[j].bits - 1), Position(ent[j]))
            BY <2>3 DEF ShiftedTo
        <2>5. blank(ent[j].name) = Shifted(0..(ent[j].bits - 1), 8 * ent[j].offset + ent[j].bit)
            BY <2>1
        <2>. QED BY <2>4, <2>5 DEF Position
    <1>. HIDE DEF ent, copied, out, blank
    <1>7. k \in DOMAIN ent
        BY DEF ent
    <1>8. ASSUME IsExported(e)
          PROVE  e.name \in Exported /\ Held(image', e) = w[e.name] \cap (0..(e.bits - 1))
        <2>1. k \in Exports(ent) /\ e.name \in Exported
            BY <1>4, <1>7, <1>8
        <2>2. \A i \in 0..(e.bits - 1) : Position(e) + i \in image' <=> i \in w[e.name]
            <3>. SUFFICES ASSUME NEW i \in 0..(e.bits - 1)
                          PROVE  Position(e) + i \in image' <=> i \in w[e.name]
                OBVIOUS
            <3>. DEFINE x == Position(e) + i
            <3>1. x \in Cells(e) /\ x \in copied
                BY <1>1, <1>3, <1>7, <2>1, CellsOf
            <3>2. x \in blank(e.name) /\ (x \in out(e.name) <=> i \in w[e.name])
                <4>1. blank(e.name) = ShiftedTo(e, 0..(e.bits - 1)) /\ out(e.name) = ShiftedTo(e, w[e.name])
                    BY <1>5, <1>6, <2>1
                <4>2. SoundEntry(e)
                    BY <1>1, <1>7
                <4>. HIDE DEF e, x
                <4>3. \A values : Position(e) + i \in ShiftedTo(e, values) <=> i \in values
                    BY <4>2, ShiftedBits
                <4>4. Position(e) + i \in blank(e.name)
                    BY <4>1, <4>3
                <4>5. Position(e) + i \in out(e.name) <=> i \in w[e.name]
                    BY <4>1, <4>3
                <4>. QED BY <4>4, <4>5 DEF x
            <3>3. ASSUME NEW n \in Exported, n # e.name PROVE x \notin out(n)
                <4>1. PICK j \in Exports(ent) : n = ent[j].name
                    BY <1>4
                <4>2. j # k /\ j \in DOMAIN ent /\ SoundEntry(ent[j])
                    BY <1>1, <1>4, <3>3, <4>1
                <4>3. Cells(ent[j]) \cap Cells(ent[k]) = {}
                    BY <1>1, <1>7, <4>2
                <4>4. out(n) \subseteq Cells(ent[j])
                    BY <1>5, <4>1, <4>2, ShiftedBits
                <4>. QED BY <3>1, <4>3, <4>4
            <3>. HIDE DEF x, e
            <3>4. x \in user <=> x \in out(e.name)
                BY <2>1, <3>2, <3>3
            <3>. HIDE DEF user
            <3>5. x \in image' <=> i \in w[e.name]
                BY <1>2, <3>1, <3>2, <3>4
            <3>. QED BY <3>5 DEF x
        <2>3. Held(image', e) = w[e.name] \cap (0..(e.bits - 1))
            <3>. HIDE DEF e
            <3>. QED BY <2>2 DEF Held
        <2>. QED BY <2>1, <2>3
    <1>9. ASSUME ~IsExported(e) PROVE Held(image', e) = Held(image, e)
        <2>1. k \notin Exports(ent)
            BY <1>4, <1>7, <1>9
        <2>2. \A j \in Exports(ent) : Cells(ent[j]) \cap Cells(e) = {}
            <3>. SUFFICES ASSUME NEW j \in Exports(ent) PROVE Cells(ent[j]) \cap Cells(e) = {}
                OBVIOUS
            <3>1. j \in DOMAIN ent /\ j # k
                BY <1>4, <2>1
            <3>. QED BY <1>1, <1>7, <3>1
        <2>3. \A x \in Cells(e) : x \in image' <=> x \in image
            <3>1. \A x \in Cells(e) : x \notin copied
                BY <1>3, <2>2
            <3>. HIDE DEF user, e
            <3>. QED BY <1>2, <3>1
        <2>4. SoundEntry(e)
            BY <1>1, <1>7
        <2>. QED BY <2>3, <2>4, SameHeld
    <1>. QED BY <1>8, <1>9 DEF ent, e

-----------------------------------------------------------------------------
(* What the store relies on: the inputs of the base are stored at the      *)
(* place of its device in the file, those of a module at the place that    *)
(* the file gives it; and nothing but inputs is written before the start.  *)
OffsetInv ==
    \E d \in DOMAIN conf.devs :
        conf.devs[d].in = BaseOffset /\ conf.devs[d].inLen = Module[Base].in
DefaultInv ==
    \A k \in DOMAIN conf.ent :
        conf.ent[k].kind # "inp" => Held(image, conf.ent[k]) = DefaultOf(conf.ent[k])
StoreInv ==
    /\ machine # "core" => running /\ (file # NoFile => OffsetInv)
    /\ machine = "core" /\ Scanning => table[1] = BaseTable[1]
    /\ machine = "core" /\ ~Scanning /\ file # NoFile =>
          /\ PlacedInv(table, conf.devs) /\ OffsetInv
          /\ scan.step = "start" => DefaultInv

LEMMA StandaloneOffset ==
    ASSUME NEW f \in StandaloneFiles, f # NoFile
    PROVE  \E d \in DOMAIN Parse(f).devs :
               Parse(f).devs[d].in = 0 /\ Parse(f).devs[d].inLen = Module[Base].in
    <1>1. PICK d \in Matches(BaseTable[1], Parse(f).devs) : Parse(f).devs[d].in = 0
        BY StandaloneAssumption
    <1>2. d \in DOMAIN Parse(f).devs /\ BaseTable[1].inLen = Parse(f).devs[d].inLen
        BY DEF Matches, SameModule
    <1>3. BaseTable[1].inLen = Module[Base].in
        BY DEF BaseTable, Entry
    <1>. QED BY <1>1, <1>2, <1>3

LEMMA EndOfScan ==
    ASSUME TableInv, StoreInv, machine = "core", file # NoFile, EndOfConfig /\ StartImage
    PROVE  /\ table' \in Tables /\ PlacedInv(table', conf.devs)
           /\ \E d \in DOMAIN conf.devs :
                  conf.devs[d].in = coreOffset' /\ conf.devs[d].inLen = Module[Base].in
           /\ \A k \in DOMAIN conf.ent : Held(image', conf.ent[k]) = DefaultOf(conf.ent[k])
    <1>. DEFINE devs == conf.devs
                b == BaseTable[1]
    <1>1. /\ table[1] = b /\ file \in Files /\ conf = Parse(file)
          /\ devs = Parse(file).devs
        BY DEF StoreInv, TableInv, EndOfConfig, At, Scanning
    <1>2. table' \in Tables /\ PlacedInv(table', conf.devs)
        BY ConfiguredFile
    <1>3. \E d \in DOMAIN devs : devs[d].in = coreOffset' /\ devs[d].inLen = Module[Base].in
        <2>1. Matches(b, devs) # {}
            BY <1>1, VariableAssumption
        <2>2. coreOffset' = Adjusted(b, devs).in
            BY <1>1, <2>1 DEF EndOfConfig
        <2>3. b \in Entries /\ b.inLen = Module[Base].in
            <3>1. b \in Entries
                <4>1. BaseTable \in Tables /\ 1 \in DOMAIN BaseTable
                    BY BaseOnly DEF BaseTable
                <4>. QED BY <4>1, TableTyped
            <3>2. b.inLen = Module[Base].in
                BY DEF BaseTable, Entry
            <3>. QED BY <3>1, <3>2
        <2>. HIDE DEF devs, b
        <2>4. /\ Matches(b, devs) # {} => \E d \in Matches(b, devs) : SamePlace(Adjusted(b, devs), devs[d])
            BY <1>1, <2>3, AdjustedEntry
        <2>5. PICK d \in Matches(b, devs) : SamePlace(Adjusted(b, devs), devs[d])
            BY <2>1, <2>4
        <2>6. d \in DOMAIN devs /\ b.inLen = devs[d].inLen
            BY <2>5 DEF Matches, SameModule
        <2>7. devs[d].in = coreOffset'
            BY <2>2, <2>5 DEF SamePlace
        <2>. QED BY <2>3, <2>6, <2>7
    <1>4. image' = Defaults(conf.ent)
        BY DEF StartImage
    <1>5. SoundEntries(conf.ent)
        BY <1>1, EntriesSound
    <1>6. \A k \in DOMAIN conf.ent : Held(image', conf.ent[k]) = DefaultOf(conf.ent[k])
        BY <1>4, <1>5, DefaultsHeld
    <1>. QED BY <1>2, <1>3, <1>6

(* Inputs are stored: those of one address.                                *)
LEMMA StoredInputs ==
    ASSUME TableInv, StoreInv, file # NoFile,
           (\E j, p : Input(j, p)) \/ (\E p : BaseInput(p))
    PROVE  \E a : \A k \in DOMAIN conf.ent :
               ~(conf.ent[k].kind = "inp" /\ conf.ent[k].address = a) =>
                   Held(image', conf.ent[k]) = Held(image, conf.ent[k])
    <1>1. file \in Files /\ conf = Parse(file)
        BY DEF TableInv
    <1>2. \E d \in DOMAIN conf.devs : \E p : image' = Write(image, conf.devs[d].in, conf.devs[d].inLen, p)
        <2>1. ASSUME NEW j, NEW p, Input(j, p)
              PROVE  \E d \in DOMAIN conf.devs : image' = Write(image, conf.devs[d].in, conf.devs[d].inLen, p)
            <3>1. j \in Live(table) /\ image' = Write(image, table[j].in, table[j].inLen, p)
                BY <2>1 DEF Input, Active, Live
            <3>2. PlacedInv(table, conf.devs)
                BY <2>1 DEF StoreInv, Input, Scanning
            <3>3. PICK d \in DOMAIN conf.devs : SamePlace(table[j], conf.devs[d])
                BY <3>1, <3>2 DEF PlacedInv
            <3>. QED BY <3>1, <3>3 DEF SamePlace
        <2>2. ASSUME NEW p, BaseInput(p)
              PROVE  \E d \in DOMAIN conf.devs : image' = Write(image, conf.devs[d].in, conf.devs[d].inLen, p)
            <3>1. image' = Write(image, BaseOffset, Module[Base].in, p)
                BY <2>2 DEF BaseInput
            <3>2. OffsetInv
                BY <2>2 DEF StoreInv, BaseInput, running, Scanning
            <3>. QED BY <3>1, <3>2 DEF OffsetInv
        <2>. QED BY <2>1, <2>2
    <1>3. PICK d \in DOMAIN conf.devs : \E p : image' = Write(image, conf.devs[d].in, conf.devs[d].inLen, p)
        BY <1>2
    <1>4. PICK p : image' = Write(image, conf.devs[d].in, conf.devs[d].inLen, p)
        BY <1>3
    <1>5. \A k \in DOMAIN conf.ent :
               ~(conf.ent[k].kind = "inp" /\ conf.ent[k].address = conf.devs[d].address) =>
                   Held(image', conf.ent[k]) = Held(image, conf.ent[k])
        BY <1>1, <1>4, DeliveredInputs
    <1>. QED BY <1>5

LEMMA InitStore == ASSUME Init PROVE StoreInv
    <1>1. CASE machine = "core"
        <2>1. Scanning /\ table = BaseTable
            BY <1>1 DEF Init, Scanning, FirstScan
        <2>. QED BY <1>1, <2>1 DEF StoreInv
    <1>2. CASE machine # "core"
        <2>1. running
            BY <1>2 DEF Init, Running, FirstScan, running
        <2>2. file \in StandaloneFiles /\ conf = Parse(file)
            BY <1>2 DEF Init
        <2>3. file # NoFile => OffsetInv
            BY <1>2, <2>2, StandaloneOffset DEF OffsetInv, BaseOffset
        <2>. QED BY <1>2, <2>1, <2>3 DEF StoreInv
    <1>. QED BY <1>1, <1>2

LEMMA ScanStore ==
    ASSUME IndInv, TableInv, StoreInv, machine = "core", Scan
    PROVE  machine' = "core" /\ ~running /\ Scanning' /\ table'[1] = BaseTable[1]
           /\ UNCHANGED <<file, conf, image>>
    <1>1. PICK s \in Sides : \/ Look(s)
                             \/ \E a \in {"found", "lost", "repeated"} : Dialogue(s, a)
                             \/ \E lost \in BOOLEAN : Detect(s, lost)
        BY DEF Scan
    <1>2. scan.step \in {"look", "dialogue", "detect"}
        BY <1>1 DEF Look, Dialogue, Detect, At
    <1>3. Scanning /\ ~running
        BY <1>2 DEF Scanning, running
    <1>4. table[1] = BaseTable[1] /\ table \in Tables
        BY <1>3 DEF StoreInv, TableInv
    <1>5. UNCHANGED <<machine, file, conf, image>>
        BY <1>1 DEF Scan, Look, Dialogue, Detect, configVars
    <1>6. table'[1] = table[1]
        <2>1. CASE UNCHANGED table
            BY <2>1
        <2>2. ASSUME NEW e, table' = WithDevice(table, e) PROVE table'[1] = table[1]
            <3>1. table \in Seq(Entries) /\ Len(table) \in Nat \ {0}
                BY <1>4, TableTyped
            <3>2. Append(table, e)[1] = table[1]
                BY <3>1
            <3>. QED BY <2>2, <3>2 DEF WithDevice
        <2>3. UNCHANGED table \/ \E e : table' = WithDevice(table, e)
            BY <1>1 DEF Look, Dialogue, Detect
        <2>. QED BY <2>1, <2>2, <2>3
    <1>7. Scanning'
        <2>1. EndSide(s)[2] \in {"look", "adjust"}
            BY DEF EndSide
        <2>2. CASE Look(s)
            BY <2>1, <2>2 DEF Look, NextScan, Scanning
        <2>3. CASE Dialogue(s, "found")
            <3>1. scan \in Scans /\ scan' = [scan EXCEPT !.told[s] = @ + 1, !.step = "detect"]
                BY <2>3 DEF Dialogue, IndInv, ScanInv, ScanTypeOK
            <3>2. scan'.step = "detect"
                BY <3>1 DEF Scans
            <3>. QED BY <3>2 DEF Scanning
        <2>4. CASE \E a \in {"lost", "repeated"} : Dialogue(s, a)
            <3>1. scan'.step = scan.step \/ scan'.step = EndSide(s)[2]
                <4>. PICK a \in {"lost", "repeated"} : Dialogue(s, a)
                    BY <2>4
                <4>. DEFINE base == IF scan.errors < MaxErrors THEN [scan EXCEPT !.errors = @ + 1]
                                    ELSE NextScan(EndSide(s))
                            told == IF a = "repeated" THEN base.told[s] + 1 ELSE base.told[s]
                            disturbed == IF a = "repeated" \/ scan.errors = MaxErrors
                                         THEN base.disturbed \cup {s} ELSE base.disturbed
                <4>1. scan' = [base EXCEPT !.told[s] = told, !.disturbed = disturbed]
                    BY DEF Dialogue
                <4>2. scan \in Scans
                    BY DEF IndInv, ScanInv, ScanTypeOK
                <4>3. /\ DOMAIN base = {"side", "step", "errors", "told", "disturbed", "retries"}
                      /\ base.step = scan.step \/ base.step = EndSide(s)[2]
                    BY <4>2 DEF NextScan, Scans
                <4>. HIDE DEF base, told, disturbed
                <4>4. scan'.step = base.step
                    BY <4>1, <4>3
                <4>. QED BY <4>3, <4>4
            <3>. QED BY <1>2, <2>1, <3>1 DEF Scanning
        <2>5. CASE \E lost \in BOOLEAN : Detect(s, lost)
            BY <2>1, <2>5 DEF Detect, NextScan, Scanning
        <2>. QED BY <1>1, <2>2, <2>3, <2>4, <2>5
    <1>. QED BY <1>3, <1>4, <1>5, <1>6, <1>7

LEMMA UseStore ==
    ASSUME TableInv, StoreInv, Use
    PROVE  StoreInv'
    <1>1. UNCHANGED tableVars
        BY DEF Use, Application, Input, BaseInput
    <1>2. /\ (OffsetInv <=> OffsetInv') /\ (Scanning <=> Scanning') /\ (running <=> running')
          /\ (PlacedInv(table, conf.devs) => PlacedInv(table, conf.devs)')
          /\ UNCHANGED <<machine, file, conf, table, scan>>
        BY <1>1 DEF tableVars, configVars, busVars, OffsetInv, BaseOffset, Scanning, running, PlacedInv,
                Live
    <1>3. ASSUME machine = "core", file # NoFile, scan.step = "start", DefaultInv PROVE DefaultInv'
        <2>1. ~running
            BY <1>3 DEF running
        <2>2. \E j, p : Input(j, p)
            BY <2>1 DEF Use, Application, BaseInput
        <2>3. PICK a : \A k \in DOMAIN conf.ent :
                  ~(conf.ent[k].kind = "inp" /\ conf.ent[k].address = a) =>
                      Held(image', conf.ent[k]) = Held(image, conf.ent[k])
            BY <1>3, <2>2, StoredInputs
        <2>4. conf' = conf
            BY <1>2
        <2>. QED BY <1>3, <2>3, <2>4 DEF DefaultInv
    <1>. QED BY <1>2, <1>3 DEF StoreInv

LEMMA NextStore ==
    ASSUME IndInv, TableInv, StoreInv, machine \in Machines, Next
    PROVE  StoreInv'
    <1>1. CASE Reset
        <2>1. CASE \E f \in Files, b \in Buses : ResetCore(f, b)
            <3>1. machine' = "core" /\ table' = BaseTable /\ scan' = FirstScan(MaxRetries)
                BY <2>1 DEF ResetCore, RestartScan
            <3>2. Scanning' /\ (table[1] = BaseTable[1])'
                BY <3>1 DEF Scanning, FirstScan
            <3>. QED BY <3>1, <3>2 DEF StoreInv
        <2>2. CASE \E f \in StandaloneFiles : ResetStandalone(f)
            <3>1. PICK f \in StandaloneFiles : ResetStandalone(f)
                BY <2>2
            <3>2. /\ machine # "core" /\ UNCHANGED <<machine, scan>>
                  /\ file' = f /\ conf' = Parse(f)
                BY <3>1 DEF ResetStandalone, NewConfig
            <3>3. running'
                BY <3>2 DEF StoreInv, running
            <3>4. file' # NoFile => OffsetInv'
                BY <3>2, StandaloneOffset DEF OffsetInv, BaseOffset
            <3>. QED BY <3>2, <3>3, <3>4 DEF StoreInv
        <2>. QED BY <1>1, <2>1, <2>2 DEF Reset
    <1>2. CASE Scan
        <2>1. machine = "core"
            BY <1>2 DEF Scan, Look, Dialogue, Detect, At, StoreInv, running
        <2>2. machine' = "core" /\ Scanning' /\ table'[1] = BaseTable[1]
            BY <1>2, <2>1, ScanStore
        <2>. QED BY <2>2 DEF StoreInv
    <1>3. CASE EndOfConfig /\ StartImage
        <2>1. machine = "core" /\ UNCHANGED <<machine, file, conf>> /\ scan'.step = "start"
            BY <1>3 DEF EndOfConfig, At, StoreInv, running, configVars, NextScan
        <2>2. ASSUME file # NoFile PROVE PlacedInv(table, conf.devs)' /\ OffsetInv' /\ DefaultInv'
            <3>1. /\ PlacedInv(table', conf.devs)
                  /\ \E d \in DOMAIN conf.devs :
                         conf.devs[d].in = coreOffset' /\ conf.devs[d].inLen = Module[Base].in
                  /\ \A k \in DOMAIN conf.ent : Held(image', conf.ent[k]) = DefaultOf(conf.ent[k])
                BY <1>3, <2>1, <2>2, EndOfScan
            <3>2. conf' = conf
                BY <2>1
            <3>. QED BY <2>1, <3>1, <3>2 DEF OffsetInv, BaseOffset, DefaultInv
        <2>3. ~Scanning'
            BY <2>1 DEF Scanning
        <2>. QED BY <2>1, <2>2, <2>3 DEF StoreInv
    <1>4. CASE SetRunning /\ UNCHANGED <<image, preset>>
        <2>1. machine = "core" /\ scan.step = "start" /\ scan'.step = "running"
              /\ UNCHANGED <<machine, file, conf, table, coreOffset>>
            BY <1>4 DEF SetRunning, At, StoreInv, running, configVars, Running, FirstScan
        <2>2. ~Scanning /\ ~Scanning'
            BY <2>1 DEF Scanning
        <2>3. /\ PlacedInv(table, conf.devs) => PlacedInv(table, conf.devs)'
              /\ OffsetInv => OffsetInv'
            BY <2>1 DEF PlacedInv, Live, OffsetInv, BaseOffset
        <2>. QED BY <2>1, <2>2, <2>3 DEF StoreInv
    <1>5. CASE InitAgain /\ UNCHANGED <<image, preset>>
        <2>1. machine = "core" /\ machine' = machine /\ table' = BaseTable /\ scan'.step = "look"
            BY <1>5 DEF InitAgain, At, StoreInv, running, RestartScan, FirstScan
        <2>2. Scanning' /\ (table[1] = BaseTable[1])'
            BY <2>1 DEF Scanning
        <2>. QED BY <2>1, <2>2 DEF StoreInv
    <1>6. CASE \E s \in Sides, t \in DOMAIN Module : FindGate(s, t) /\ UNCHANGED <<image, preset>>
        <2>1. PICK s \in Sides, t \in DOMAIN Module : FindGate(s, t)
            BY <1>6
        <2>2. scan.step = "running" /\ UNCHANGED <<machine, file, conf, scan, coreOffset>>
            BY <2>1 DEF FindGate, At, configVars, busVars
        <2>3. CASE machine = "core"
            <3>1. PlacedInv(table', conf.devs)
                BY <2>1, <2>3, FoundGate
            <3>2. PlacedInv(table, conf.devs)' /\ (OffsetInv => OffsetInv')
                BY <2>2, <3>1 DEF OffsetInv, BaseOffset
            <3>3. ~Scanning /\ ~Scanning'
                BY <2>2 DEF Scanning
            <3>. QED BY <2>2, <2>3, <3>2, <3>3 DEF StoreInv
        <2>4. CASE machine # "core"
            BY <2>2, <2>4 DEF StoreInv, running, OffsetInv, BaseOffset
        <2>. QED BY <2>3, <2>4
    <1>7. CASE Use
        BY <1>7, UseStore
    <1>. QED BY <1>1, <1>2, <1>3, <1>4, <1>5, <1>6, <1>7 DEF Next, Start

LEMMA SameStore == ASSUME StoreInv, UNCHANGED vars PROVE StoreInv'
    BY DEF vars, tableVars, configVars, busVars, StoreInv, running, Scanning, PlacedInv, Live,
           OffsetInv, BaseOffset, DefaultInv

(* Once the scan has ended with a configuration, whatever is active has    *)
(* the place that the file gives it, the base's inputs included, and until *)
(* the start every variable but the inputs has its default.                *)
THEOREM StoreInvariance ==
    Spec => [](IndInv /\ machine \in Machines /\ TableInv /\ StoreInv)
    <1>. DEFINE Inv == IndInv /\ machine \in Machines /\ TableInv
    <1>1. Init => StoreInv
        BY InitStore
    <1>2. Inv /\ StoreInv /\ [Next]_vars => StoreInv'
        BY NextStore, SameStore
    <1>3. Spec => []Inv
        BY TableInvariance
    <1>. HIDE DEF Inv
    <1>4. Spec => [](Inv /\ StoreInv)
        BY <1>1, <1>2, <1>3, PTL DEF Spec
    <1>. QED BY <1>4, PTL DEF Inv

-----------------------------------------------------------------------------
(* The process image as the store sees it.                                 *)
LEMMA StoreNow ==
    ASSUME file \in Files, conf = Parse(file), machine \in Machines
    PROVE  /\ DOMAIN Configuration = NamesIn(file)
           /\ AllValues = IF running THEN Reading(file, image) ELSE <<>>
    <1>1. DOMAIN Configuration = NamesIn(file)
        BY DeclaredEntry DEF Configuration
    <1>2. \A n : FindVariable(n) = Find(Parse(file).ent, n)
        BY DEF FindVariable, Find, View
    <1>. QED BY <1>1, <1>2 DEF AllValues, Reading

LEMMA StoreNext ==
    ASSUME file' \in Files, conf' = Parse(file'), machine' \in Machines
    PROVE  /\ DOMAIN Configuration' = NamesIn(file')
           /\ AllValues' = IF running' THEN Reading(file', image') ELSE <<>>
    <1>1. DOMAIN Configuration' = NamesIn(file')
        BY DeclaredEntry DEF Configuration
    <1>2. \A n : FindVariable(n)' = Find(Parse(file').ent, n)
        BY DEF FindVariable, Find, View
    <1>. QED BY <1>1, <1>2 DEF AllValues, Reading

(* The entry k as the store sees it while the configuration stays.         *)
Seen(e) ==
    /\ e.name \in DOMAIN Configuration
    /\ Configuration[e.name].bits = 0..(e.bits - 1) /\ Configuration[e.name].export = IsExported(e)
    /\ e.kind = "inp" => Configuration[e.name].input = e.address
    /\ AllValues[e.name] = Held(image, e)
    /\ AllValues'[e.name] = Held(image', e)

LEMMA DeclaredFields ==
    ASSUME NEW m, NEW e
    PROVE  /\ AsDeclared(m, e).bits = 0..(e.bits - 1)
           /\ AsDeclared(m, e).export = IsExported(e)
           /\ e.kind = "inp" => AsDeclared(m, e).input = e.address
           /\ AsDeclared(m, e).default = IF m # "core" /\ e.kind \notin {"out", "mem"} THEN {} ELSE DefaultOf(e)
    <1>. DEFINE bits == 0..(e.bits - 1)
                export == IsExported(e)
                input == IF e.kind = "inp" THEN e.address ELSE -1
                preset_ == CASE m = "core" -> e.kind # "inp"
                            [] m = "flat" -> TRUE
                            [] m = "compact" -> e.kind \in {"out", "mem"}
                default == IF m # "core" /\ e.kind \notin {"out", "mem"} THEN {} ELSE DefaultOf(e)
    <1>1. AsDeclared(m, e) = [bits |-> bits, export |-> export, input |-> input,
                              preset |-> preset_, default |-> default]
        BY DEF AsDeclared, IsExported, DefaultOf
    <1>2. e.kind = "inp" => input = e.address
        OBVIOUS
    <1>. HIDE DEF bits, export, input, preset_, default
    <1>3. /\ AsDeclared(m, e).bits = bits /\ AsDeclared(m, e).export = export
          /\ AsDeclared(m, e).input = input
          /\ AsDeclared(m, e).default = default
        BY ONLY <1>1
    <1>. QED BY <1>2, <1>3 DEF bits, export, default

LEMMA UsedStore ==
    ASSUME TableInv, machine \in Machines, running, UNCHANGED tableVars
    PROVE  LET ent == Parse(file).ent IN
           /\ conf = Parse(file) /\ file \in Files /\ running'
           /\ Configuration' = Configuration
           /\ AllValues = Reading(file, image) /\ AllValues' = Reading(file, image')
           /\ \A n \in DOMAIN Configuration : \E k \in DOMAIN ent : n = ent[k].name
           /\ \A k \in DOMAIN ent : Seen(ent[k])
    <1>. DEFINE ent == Parse(file).ent
    <1>1. /\ file \in Files /\ conf = Parse(file)
          /\ UNCHANGED <<machine, file, conf, scan>>
        BY DEF TableInv, tableVars, configVars, busVars
    <1>2. running'
        BY <1>1 DEF running
    <1>3. Configuration' = Configuration
        BY <1>1 DEF Configuration
    <1>4. DOMAIN Configuration = NamesIn(file) /\ AllValues = Reading(file, image)
        BY <1>1, StoreNow
    <1>5. AllValues' = Reading(file, image')
        <2>1. file' \in Files /\ conf' = Parse(file') /\ machine' \in Machines
            BY <1>1
        <2>2. AllValues' = IF running' THEN Reading(file', image') ELSE <<>>
            BY ONLY <2>1, StoreNext
        <2>. QED BY <1>1, <1>2, <2>2
    <1>6. \A n \in DOMAIN Configuration : \E k \in DOMAIN ent : n = ent[k].name
        BY <1>1, <1>4, ReadEntry
    <1>7. ASSUME NEW k \in DOMAIN ent PROVE Seen(ent[k])
        <2>1. Declares(machine, file, ent[k].name, ent[k])
            BY <1>1, DeclaredEntry
        <2>2. /\ Reading(file, image)[ent[k].name] = Held(image, ent[k])
              /\ Reading(file, image')[ent[k].name] = Held(image', ent[k])
            BY <1>1, ReadEntry
        <2>. DEFINE e == ent[k]
                    a == AsDeclared(machine, e)
        <2>3. /\ a.bits = 0..(e.bits - 1) /\ a.export = IsExported(e)
              /\ e.kind = "inp" => a.input = e.address
            BY DeclaredFields
        <2>. HIDE DEF e, a
        <2>4. e.name \in DOMAIN Configuration /\ Configuration[e.name] = a
            BY <2>1 DEF Declares, Configuration, e, a
        <2>5. AllValues[e.name] = Held(image, e) /\ AllValues'[e.name] = Held(image', e)
            BY <1>4, <1>5, <2>2 DEF e
        <2>6. Seen(e)
            BY ONLY <2>3, <2>4, <2>5 DEF Seen
        <2>. QED BY <2>6 DEF e
    <1>. QED BY <1>1, <1>2, <1>3, <1>4, <1>5, <1>6, <1>7

(* An application writes one variable.                                     *)
LEMMA SetStep ==
    ASSUME TableInv, machine \in Machines, NEW n \in Written, NEW p \in Patterns,
           Application(SetVariable(n, p))
    PROVE  Store!Use
    <1>. DEFINE ent == Parse(file).ent
    <1>1. running /\ UNCHANGED tableVars /\ SetVariable(n, p)
        BY DEF Application
    <1>2. /\ conf = Parse(file) /\ file \in Files /\ running'
          /\ Configuration' = Configuration
          /\ \A m \in DOMAIN Configuration : \E k \in DOMAIN ent : m = ent[k].name
          /\ \A k \in DOMAIN ent : Seen(ent[k])
        BY <1>1, UsedStore
    <1>3. PICK k \in DOMAIN ent : n = ent[k].name
        BY <1>1, <1>2 DEF SetVariable, Names
    <1>4. image' = Set(image, View(ent[k]), p)
        <2>1. FindVariable(n) = View(ent[k])
            BY <1>2, <1>3, FoundVariable
        <2>. QED BY <1>1, <2>1 DEF SetVariable
    <1>5. /\ Held(image', ent[k]) = p \cap (0..(ent[k].bits - 1))
          /\ \A j \in DOMAIN ent : j # k => Held(image', ent[j]) = Held(image, ent[j])
        <2>1. k \in DOMAIN Parse(file).ent /\ image' = Set(image, View(Parse(file).ent[k]), p)
            BY <1>4
        <2>2. OnlyWritten(ent, k, image', image, p)
            BY <1>2, <2>1, WrittenVariable
        <2>. HIDE DEF ent
        <2>. QED BY <2>2 DEF OnlyWritten
    <1>. HIDE DEF ent
    <1>6. n \in DOMAIN Configuration /\ Configuration[n].bits = 0..(ent[k].bits - 1)
        BY <1>2, <1>3 DEF Seen
    <1>7. AllValues'[n] = p \cap Configuration[n].bits
        BY <1>2, <1>3, <1>5, <1>6 DEF Seen
    <1>8. \A m \in DOMAIN Configuration : m # n => AllValues'[m] = AllValues[m]
        <2>. SUFFICES ASSUME NEW m \in DOMAIN Configuration, m # n PROVE AllValues'[m] = AllValues[m]
            OBVIOUS
        <2>1. PICK j \in DOMAIN ent : m = ent[j].name
            BY <1>2
        <2>2. j # k
            BY <1>3, <2>1
        <2>3. Seen(ent[j]) /\ Held(image', ent[j]) = Held(image, ent[j])
            BY <1>2, <1>5, <2>2
        <2>. QED BY <2>1, <2>3 DEF Seen
    <1>9. Store!Write(n)
        BY <1>7, <1>8 DEF Store!Write, Store!Changed, Store!Values
    <1>. QED BY <1>1, <1>2, <1>6, <1>9 DEF Store!Use

(* It writes all exported outputs.                                         *)
LEMMA ExportStep ==
    ASSUME TableInv, machine \in Machines, NEW w \in [Exported -> Patterns], NEW b,
           Application(ExportOutputs(w, b))
    PROVE  Store!Use
    <1>. DEFINE ent == Parse(file).ent
    <1>1. running /\ UNCHANGED tableVars /\ ExportOutputs(w, b)
        BY DEF Application
    <1>2. /\ conf = Parse(file) /\ file \in Files /\ running'
          /\ Configuration' = Configuration
          /\ \A m \in DOMAIN Configuration : \E k \in DOMAIN ent : m = ent[k].name
          /\ \A k \in DOMAIN ent : Seen(ent[k])
        BY <1>1, UsedStore
    <1>3. ASSUME NEW k \in DOMAIN ent
          PROVE  /\ IsExported(ent[k]) => /\ ent[k].name \in Exported
                                          /\ Held(image', ent[k]) = w[ent[k].name] \cap (0..(ent[k].bits - 1))
                 /\ ~IsExported(ent[k]) => Held(image', ent[k]) = Held(image, ent[k])
        BY <1>1, <1>2, ExportedOutputs
    <1>. HIDE DEF ent
    <1>4. ASSUME NEW n \in DOMAIN Configuration
          PROVE  /\ ~Configuration[n].export => AllValues'[n] = AllValues[n]
                 /\ Configuration[n].export => AllValues'[n] \in {p \cap Configuration[n].bits : p \in Patterns}
        <2>1. PICK k \in DOMAIN ent : n = ent[k].name
            BY <1>2
        <2>2. /\ Configuration[n].export <=> IsExported(ent[k])
              /\ Configuration[n].bits = 0..(ent[k].bits - 1)
              /\ AllValues'[n] = Held(image', ent[k]) /\ AllValues[n] = Held(image, ent[k])
            BY <1>2, <2>1 DEF Seen
        <2>3. ~IsExported(ent[k]) => Held(image', ent[k]) = Held(image, ent[k])
            BY <1>3
        <2>4. IsExported(ent[k]) => /\ w[n] \in Patterns
                                    /\ Held(image', ent[k]) = w[n] \cap (0..(ent[k].bits - 1))
            BY <1>3, <2>1
        <2>. QED BY <2>2, <2>3, <2>4
    <1>5. Store!Export
        BY <1>4 DEF Store!Export, Store!Changed, Store!Values, Store!Exported
    <1>. QED BY <1>1, <1>2, <1>5 DEF Store!Use

(* Entries have the address of their device.                               *)
LEMMA EntryAddress ==
    ASSUME NEW f \in Files, NEW k \in DOMAIN Parse(f).ent
    PROVE  Parse(f).ent[k].address \in Nat
    <1>1. PICK d, v : IsPlace(f, k, d, v)
        BY PlaceOf
    <1>2. Describes(Parse(f).ent[k], f[d], f[d].vars[v]) /\ d \in 1..Len(f)
        BY <1>1, PlaceOf DEF IsPlace
    <1>3. f[d].address \in Nat
        BY <1>2, FileTyped
    <1>. QED BY <1>2, <1>3 DEF Describes

(* Inputs are stored.                                                      *)
LEMMA InputStep ==
    ASSUME TableInv, StoreInv, machine \in Machines,
           (\E j, p : Input(j, p)) \/ (\E p : BaseInput(p))
    PROVE  (running /\ Store!Use) \/ UNCHANGED <<Configuration, running, AllValues>>
    <1>. DEFINE ent == Parse(file).ent
    <1>1. UNCHANGED tableVars /\ file \in Files /\ conf = Parse(file)
        BY DEF Input, BaseInput, TableInv
    <1>2. CASE ~running
        <2>1. UNCHANGED <<machine, file, scan>>
            BY <1>1 DEF tableVars, configVars, busVars
        <2>. QED BY <1>2, <2>1 DEF Configuration, running, AllValues
    <1>3. CASE running
        <2>1. /\ running' /\ Configuration' = Configuration
              /\ AllValues = Reading(file, image) /\ AllValues' = Reading(file, image')
              /\ \A m \in DOMAIN Configuration : \E k \in DOMAIN ent : m = ent[k].name
              /\ \A k \in DOMAIN ent : Seen(ent[k])
            BY <1>1, <1>3, UsedStore
        <2>2. PICK a : \A k \in DOMAIN ent : ~(ent[k].kind = "inp" /\ ent[k].address = a) =>
                                                Held(image', ent[k]) = Held(image, ent[k])
            <3>1. CASE file = NoFile
                BY <1>1, <3>1, NoEntries
            <3>2. CASE file # NoFile
                BY <1>1, <3>2, StoredInputs
            <3>. QED BY <3>1, <3>2
        <2>3. CASE \A k \in DOMAIN ent : Held(image', ent[k]) = Held(image, ent[k])
            <3>1. Reading(file, image') = Reading(file, image)
                BY <1>1, <2>3, KeptReading
            <3>. QED BY <1>3, <2>1, <3>1
        <2>4. CASE \E k \in DOMAIN ent : Held(image', ent[k]) # Held(image, ent[k])
            <3>. HIDE DEF ent
            <3>1. PICK k \in DOMAIN ent : Held(image', ent[k]) # Held(image, ent[k])
                BY <2>4
            <3>2. ASSUME NEW m \in DOMAIN Configuration, AllValues'[m] # AllValues[m]
                  PROVE  Configuration[m].input = a
                <4>1. PICK j \in DOMAIN ent : m = ent[j].name
                    BY <2>1
                <4>2. ent[j].kind = "inp" /\ ent[j].address = a
                    BY <2>1, <2>2, <3>2, <4>1 DEF Seen
                <4>. QED BY <2>1, <4>1, <4>2 DEF Seen
            <3>. DEFINE n == ent[k].name
            <3>3. n \in DOMAIN Configuration /\ Configuration[n].input = a
                BY <2>1, <3>1, <3>2 DEF Seen
            <3>. HIDE DEF n
            <3>4. a \in Store!Senders
                <4>1. ent[k].kind = "inp" /\ ent[k].address = a
                    BY <2>2, <3>1
                <4>2. a \in Nat
                    BY <1>1, <4>1, EntryAddress DEF ent
                <4>. QED BY <3>3, <4>2 DEF Store!Senders
            <3>5. Store!Deliver(a)
                BY <3>2 DEF Store!Deliver, Store!Changed
            <3>. QED BY <1>3, <2>1, <3>4, <3>5 DEF Store!Use
        <2>. QED BY <2>3, <2>4
    <1>. QED BY <1>2, <1>3

-----------------------------------------------------------------------------
(* The store is filled.                                                    *)
PresetIn(m, f, img, n) == Declared[m][f][n].preset => Reading(f, img)[n] = Declared[m][f][n].default
LEMMA PresetFields ==
    ASSUME NEW e
    PROVE  /\ AsDeclared("core", e).preset => e.kind # "inp"
           /\ AsDeclared("compact", e).preset => e.kind \in {"out", "mem"}
    <1>1. AsDeclared("core", e).preset = (e.kind # "inp")
        BY DEF AsDeclared
    <1>2. AsDeclared("compact", e).preset = (e.kind \in {"out", "mem"})
        BY DEF AsDeclared
    <1>. QED BY <1>1, <1>2

LEMMA PresetRead ==
    ASSUME NEW m \in Machines, NEW f \in Files, NEW img,
           \A k \in DOMAIN Parse(f).ent :
               AsDeclared(m, Parse(f).ent[k]).preset =>
                   Held(img, Parse(f).ent[k]) = AsDeclared(m, Parse(f).ent[k]).default
    PROVE  \A n \in DOMAIN Declared[m][f] : PresetIn(m, f, img, n)
    <1>. SUFFICES ASSUME NEW n \in DOMAIN Declared[m][f] PROVE PresetIn(m, f, img, n)
        OBVIOUS
    <1>1. n \in NamesIn(f)
        BY DeclaredEntry
    <1>2. PICK k \in DOMAIN Parse(f).ent : n = Parse(f).ent[k].name
        BY <1>1, ReadEntry
    <1>3. Declares(m, f, Parse(f).ent[k].name, Parse(f).ent[k])
        BY DeclaredEntry
    <1>4. Reading(f, img)[n] = Held(img, Parse(f).ent[k])
        BY <1>2, ReadEntry
    <1>5. Declared[m][f][n] = AsDeclared(m, Parse(f).ent[k])
        BY <1>2, <1>3 DEF Declares
    <1>. QED BY <1>4, <1>5 DEF PresetIn

(* The bridge starts.                                                      *)
LEMMA StartStep ==
    ASSUME TableInv, StoreInv, machine \in Machines, SetRunning, UNCHANGED image
    PROVE  Store!Start
    <1>1. /\ ~running /\ running' /\ machine = "core" /\ scan.step = "start" /\ ~Scanning
          /\ UNCHANGED <<machine, file, conf>>
        BY DEF SetRunning, At, StoreInv, running, Scanning, configVars, Running, FirstScan
    <1>2. file \in Files /\ conf = Parse(file)
        BY DEF TableInv
    <1>3. Configuration' = Configuration
        BY <1>1 DEF Configuration
    <1>4. DOMAIN Configuration' = NamesIn(file) /\ AllValues' = Reading(file, image)
        <2>1. file' \in Files /\ conf' = Parse(file') /\ machine' \in Machines
            BY <1>1, <1>2
        <2>2. /\ DOMAIN Configuration' = NamesIn(file')
              /\ AllValues' = IF running' THEN Reading(file', image') ELSE <<>>
            BY ONLY <2>1, StoreNext
        <2>. QED BY <1>1, <2>2
    <1>5. \A k \in DOMAIN Parse(file).ent :
              AsDeclared("core", Parse(file).ent[k]).preset =>
                  Held(image, Parse(file).ent[k]) = AsDeclared("core", Parse(file).ent[k]).default
        <2>1. CASE file = NoFile
            BY <1>2, <2>1, NoEntries
        <2>2. CASE file # NoFile
            <3>. SUFFICES ASSUME NEW k \in DOMAIN Parse(file).ent, AsDeclared("core", Parse(file).ent[k]).preset
                          PROVE  Held(image, Parse(file).ent[k]) = AsDeclared("core", Parse(file).ent[k]).default
                OBVIOUS
            <3>1. DefaultInv
                BY <1>1, <2>2 DEF StoreInv
            <3>2. Parse(file).ent[k].kind # "inp"
                BY PresetFields
            <3>3. Held(image, Parse(file).ent[k]) = DefaultOf(Parse(file).ent[k])
                BY <1>2, <3>1, <3>2 DEF DefaultInv
            <3>4. AsDeclared("core", Parse(file).ent[k]).default = DefaultOf(Parse(file).ent[k])
                BY DeclaredFields
            <3>. QED BY <3>3, <3>4
        <2>. QED BY <2>1, <2>2
    <1>6. \A n \in DOMAIN Configuration : PresetIn("core", file, image, n)
        BY <1>1, <1>2, <1>5, PresetRead DEF Configuration
    <1>7. \A n \in DOMAIN Configuration' :
              Configuration'[n].preset => AllValues'[n] = Configuration'[n].default
        BY <1>1, <1>3, <1>4, <1>6 DEF PresetIn, Configuration
    <1>8. DOMAIN AllValues' = DOMAIN Configuration'
        BY <1>4 DEF Reading
    <1>. QED BY <1>1, <1>3, <1>7, <1>8 DEF Store!Start, Store!Filled

(* A machine without a bridge fills it at once.                            *)
LEMMA StandaloneDefaults ==
    ASSUME NEW m, m # "core", NEW ent, SoundEntries(ent), NEW k \in DOMAIN ent, NEW mem,
           ent[k].kind \in {"out", "mem"} \/ mem = {}
    PROVE  Held(SetDefaults(mem, ent), ent[k]) = AsDeclared(m, ent[k]).default
    <1>1. Held(SetDefaults(mem, ent), ent[k]) =
              IF ent[k].kind \in {"out", "mem"} THEN DefaultOf(ent[k]) ELSE Held(mem, ent[k])
        BY SetDefaultsHeld
    <1>2. AsDeclared(m, ent[k]).default =
              IF ent[k].kind \notin {"out", "mem"} THEN {} ELSE DefaultOf(ent[k])
        BY DeclaredFields
    <1>3. Held({}, ent[k]) = {}
        BY DEF Held
    <1>. QED BY <1>1, <1>2, <1>3

LEMMA RestartStep ==
    ASSUME TableInv, StoreInv, machine \in Machines, NEW f \in Files, ResetStandalone(f), ResetImage
    PROVE  Store!Restart
    <1>1. /\ machine # "core" /\ running /\ running' /\ machine' = machine
          /\ file' = f /\ conf' = Parse(f)
        BY DEF ResetStandalone, NewConfig, StoreInv, running
    <1>2. DOMAIN Configuration' = NamesIn(f) /\ AllValues' = Reading(f, image')
        <2>1. file' \in Files /\ conf' = Parse(file') /\ machine' \in Machines
            BY <1>1
        <2>2. /\ DOMAIN Configuration' = NamesIn(file')
              /\ AllValues' = IF running' THEN Reading(file', image') ELSE <<>>
            BY ONLY <2>1, StoreNext
        <2>. QED BY <1>1, <2>2
    <1>3. Configuration' = Declared[machine][f]
        BY <1>1 DEF Configuration
    <1>4. SoundEntries(Parse(f).ent)
        BY EntriesSound
    <1>5. \A k \in DOMAIN Parse(f).ent :
              AsDeclared(machine, Parse(f).ent[k]).preset =>
                  Held(image', Parse(f).ent[k]) = AsDeclared(machine, Parse(f).ent[k]).default
        <2>. SUFFICES ASSUME NEW k \in DOMAIN Parse(f).ent, AsDeclared(machine, Parse(f).ent[k]).preset
                      PROVE  Held(image', Parse(f).ent[k]) = AsDeclared(machine, Parse(f).ent[k]).default
            OBVIOUS
        <2>1. CASE machine = "flat"
            <3>1. image' = SetDefaults({}, Parse(f).ent)
                BY <1>1, <2>1 DEF ResetImage
            <3>. QED BY <1>1, <1>4, <3>1, StandaloneDefaults
        <2>2. CASE machine = "compact"
            <3>1. PICK mem : image' = SetDefaults(mem, Parse(f).ent)
                BY <1>1, <2>2 DEF ResetImage
            <3>2. Parse(f).ent[k].kind \in {"out", "mem"}
                BY <2>2, PresetFields
            <3>. QED BY <1>1, <1>4, <3>1, <3>2, StandaloneDefaults
        <2>. QED BY <1>1, <2>1, <2>2 DEF Machines
    <1>6. \A n \in DOMAIN Declared[machine][f] : PresetIn(machine, f, image', n)
        BY <1>5, PresetRead
    <1>7. \A n \in DOMAIN Configuration' :
              Configuration'[n].preset => AllValues'[n] = Configuration'[n].default
        BY <1>2, <1>3, <1>6 DEF PresetIn
    <1>8. DOMAIN AllValues' = DOMAIN Configuration'
        BY <1>2 DEF Reading
    <1>9. Configuration' \in {Declared[m][g] : m \in Machines, g \in Files}
        BY <1>3
    <1>. QED BY <1>1, <1>7, <1>8, <1>9 DEF Store!Restart, Store!Filled

LEMMA StoreInit == ASSUME Init PROVE Store!Init
    <1>1. file \in Files /\ conf = Parse(file) /\ machine \in Machines
        BY StandaloneAssumption DEF Init
    <1>2. DOMAIN Configuration = NamesIn(file) /\ AllValues = IF running THEN Reading(file, image) ELSE <<>>
        BY <1>1, StoreNow
    <1>3. Configuration \in {Declared[m][f] : m \in Machines, f \in Files} /\ running \in BOOLEAN
        BY <1>1 DEF Configuration, running
    <1>4. CASE running
        <2>1. machine # "core" /\ image = SetDefaults({}, Parse(file).ent)
            BY <1>4 DEF Init, FirstScan, running
        <2>2. ASSUME NEW n \in NamesIn(file) PROVE Reading(file, image)[n] = Configuration[n].default
            <3>1. PICK k \in DOMAIN Parse(file).ent : n = Parse(file).ent[k].name
                BY <1>1, ReadEntry
            <3>2. Reading(file, image)[n] = Held(image, Parse(file).ent[k])
                BY <1>1, <3>1, ReadEntry
            <3>3. Declares(machine, file, Parse(file).ent[k].name, Parse(file).ent[k])
                BY <1>1, DeclaredEntry
            <3>4. Configuration[n] = AsDeclared(machine, Parse(file).ent[k])
                BY <3>1, <3>3 DEF Declares, Configuration
            <3>5. SoundEntries(Parse(file).ent)
                BY <1>1, EntriesSound
            <3>6. Held(image, Parse(file).ent[k]) = AsDeclared(machine, Parse(file).ent[k]).default
                BY <2>1, <3>5, StandaloneDefaults
            <3>. QED BY <3>2, <3>4, <3>6
        <2>3. AllValues = [n \in DOMAIN Configuration |-> Configuration[n].default]
            BY <1>2, <1>4, <2>2 DEF Reading
        <2>. QED BY <1>3, <1>4, <2>3 DEF Store!Init, Store!Defaults
    <1>5. CASE ~running
        BY <1>2, <1>3, <1>5 DEF Store!Init
    <1>. QED BY <1>4, <1>5

-----------------------------------------------------------------------------
(* Everything that happens to the process image is a step of the store.    *)
LEMMA Hidden ==
    ASSUME ~running, ~running', UNCHANGED <<machine, file>>
    PROVE  UNCHANGED <<Configuration, running, AllValues>>
    <1>1. Configuration' = Configuration
        BY DEF Configuration
    <1>2. AllValues = <<>> /\ AllValues' = <<>>
        BY DEF AllValues
    <1>3. running' = running
        BY DEF running
    <1>. QED BY <1>1, <1>2, <1>3

LEMMA StoreStep ==
    ASSUME IndInv, TableInv, StoreInv, machine \in Machines, Next
    PROVE  Store!Next \/ UNCHANGED <<Configuration, running, AllValues>>
    <1>1. CASE Reset
        <2>1. ASSUME NEW f \in Files, NEW b \in Buses, ResetCore(f, b) PROVE Store!Reset
            <3>1. file' = f /\ machine' = machine /\ ~running'
                BY <2>1 DEF ResetCore, NewConfig, running, FirstScan
            <3>2. Configuration' \in {Declared[m][g] : m \in Machines, g \in Files}
                BY <3>1 DEF Configuration
            <3>3. AllValues' = <<>>
                BY <3>1 DEF AllValues
            <3>. QED BY <3>1, <3>2, <3>3 DEF Store!Reset
        <2>2. ASSUME NEW f \in StandaloneFiles, ResetStandalone(f) PROVE Store!Restart
            <3>1. ResetImage
                BY <1>1 DEF Reset
            <3>. QED BY <2>2, <3>1, StandaloneAssumption, RestartStep
        <2>. QED BY <1>1, <2>1, <2>2 DEF Reset, Store!Next
    <1>2. CASE Scan
        <2>1. machine = "core"
            BY <1>2 DEF Scan, Look, Dialogue, Detect, At, StoreInv, running
        <2>2. machine' = "core" /\ ~running /\ Scanning' /\ file' = file
            BY <1>2, <2>1, ScanStore
        <2>3. ~running'
            BY <2>2 DEF Scanning, running
        <2>. QED BY <2>1, <2>2, <2>3, Hidden
    <1>3. CASE EndOfConfig /\ StartImage
        <2>1. ~running /\ ~running' /\ UNCHANGED <<machine, file>>
            BY <1>3 DEF EndOfConfig, At, running, configVars, NextScan
        <2>. QED BY <2>1, Hidden
    <1>4. CASE SetRunning /\ UNCHANGED <<image, preset>>
        BY <1>4, StartStep DEF Store!Next
    <1>5. CASE InitAgain /\ UNCHANGED <<image, preset>>
        <2>1. ~running /\ ~running' /\ UNCHANGED <<machine, file>>
            BY <1>5 DEF InitAgain, At, running, configVars, FirstScan
        <2>. QED BY <2>1, Hidden
    <1>6. CASE \E s \in Sides, t \in DOMAIN Module : FindGate(s, t) /\ UNCHANGED <<image, preset>>
        <2>1. UNCHANGED <<machine, file, conf, scan, image>>
            BY <1>6 DEF FindGate, configVars, busVars
        <2>. QED BY <2>1 DEF Configuration, running, AllValues, FindVariable
    <1>7. CASE Use
        <2>1. CASE \E n \in Written, p \in Patterns : Application(SetVariable(n, p))
            BY <2>1, SetStep DEF Store!Next
        <2>2. CASE \E w \in [Exported -> Patterns], b \in Background : Application(ExportOutputs(w, b))
            BY <2>2, ExportStep DEF Store!Next
        <2>3. CASE (\E j, p : Input(j, p)) \/ (\E p : BaseInput(p))
            BY <2>3, InputStep DEF Store!Next
        <2>. QED BY <1>7, <2>1, <2>2, <2>3 DEF Use
    <1>. QED BY <1>1, <1>2, <1>3, <1>4, <1>5, <1>6, <1>7 DEF Next, Start

LEMMA StoreStutter ==
    ASSUME UNCHANGED vars
    PROVE  UNCHANGED <<Configuration, running, AllValues>>
    BY DEF vars, tableVars, configVars, busVars, Configuration, running, AllValues, FindVariable

(* Whatever the configurations, the modules and the order of events: every *)
(* variable is read and written under its name as if nothing else were in  *)
(* the process image, the inputs that the driver of a Compact or a Flat    *)
(* stores at its start included, where the file has the base there.        *)
THEOREM ImageIsStore == Spec => StoreImplemented
    <1>. DEFINE Inv == IndInv /\ machine \in Machines /\ TableInv /\ StoreInv
    <1>1. Init => Store!Init
        BY StoreInit
    <1>2. Inv /\ [Next]_vars => [Store!Next]_<<Configuration, running, AllValues>>
        BY StoreStep, StoreStutter
    <1>3. Spec => []Inv
        BY StoreInvariance
    <1>. HIDE DEF Inv
    <1>4. Spec => Store!Spec
        BY <1>1, <1>2, <1>3, PTL DEF Spec, Store!Spec
    <1>. QED BY <1>4 DEF StoreImplemented
=============================================================================
