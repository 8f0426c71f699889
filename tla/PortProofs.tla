----------------------------- MODULE PortProofs -----------------------------
(***************************************************************************)
(* The odometer of PortWalk, for every word size and every port range that *)
(* does not end at the last port number.                                   *)
(***************************************************************************)
EXTENDS PortWalk, TLAPS

(***************************************************************************)
(* The quotient and the remainder of a number by the word are the only     *)
(* ones.                                                                   *)
(***************************************************************************)
LEMMA DivisionIsUnique ==
  ASSUME NEW q \in Int, NEW c \in Int, NEW r \in 0 .. Word - 1,
         NEW s \in 0 .. Word - 1, q * Word + r = c * Word + s
  PROVE  q = c /\ r = s
<1>1. Word \in Nat /\ Word > 0
  BY WordAssumption
<1>2. (q - c) * Word = s - r
  BY <1>1
<1>3. q - c >= 1 => (q - c) * Word >= Word
  BY <1>1
<1>4. q - c <= -1 => (q - c) * Word <= -Word
  BY <1>1
<1> QED BY <1>1, <1>2, <1>3, <1>4

(***************************************************************************)
(* unpackPorts(packPorts(c, s)) returns the pair.                          *)
(***************************************************************************)
LEMMA UnpackPacked ==
  ASSUME NEW c \in Ports, NEW s \in Ports
  PROVE  UnpackPorts(PackPorts(c, s)) = <<c, s>>
<1> DEFINE v == c * Word + s
           q == v \div Word
           r == v % Word
<1>1. Word \in Nat /\ Word > 0 /\ c \in Nat /\ s \in Nat
  BY WordAssumption DEF Ports
<1>2. v \in Nat
  BY <1>1
<1>3. q \in Int /\ r \in 0 .. Word - 1 /\ q * Word + r = v
  <2> HIDE DEF v
  <2> QED BY <1>1, <1>2
<1> HIDE DEF q, r
<1>4. q = c /\ r = s
  BY <1>3, DivisionIsUnique DEF Ports
<1> QED BY <1>4 DEF UnpackPorts, PackPorts, q, r

(***************************************************************************)
(* One step of the odometer from inside ranges that end below the last     *)
(* port: the server port advances, or both go on.                          *)
(***************************************************************************)
LEMMA StepInRange ==
  ASSUME NEW x \in PortRange, NEW y \in PortRange,
         x.max < Word - 1, y.max < Word - 1,
         NEW c \in x.min .. x.max, NEW s \in y.min .. y.max
  PROVE  /\ NextServerPort(s, y) = IF s = y.max THEN y.min ELSE s + 1
         /\ NextClientPort(c, s, x, y) =
              IF s # y.max THEN c ELSE IF c = x.max THEN x.min ELSE c + 1
<1>1. /\ Word \in Nat /\ x.min \in Nat /\ x.max \in Nat
      /\ y.min \in Nat /\ y.max \in Nat
  BY WordAssumption DEF PortRange, Ports
<1>2. Incremented(s) = s + 1 /\ Incremented(c) = c + 1
  BY <1>1 DEF Incremented
<1> QED BY <1>1, <1>2 DEF NextServerPort, NextClientPort

(***************************************************************************)
(* What the invariant adds to PortsInRange: the ranges are the configured  *)
(* ones, and the packed word is that of its two ports.                     *)
(***************************************************************************)
WalkInv ==
  /\ cr \in ClientRanges /\ sr \in ServerRanges
  /\ PortsInRange
  /\ Local \in Nat /\ Server \in Nat

(***************************************************************************)
(* No configured range ends at the last port number.                       *)
(***************************************************************************)
BelowLastPort ==
  /\ \A r \in ClientRanges : r.max < Word - 1
  /\ \A r \in ServerRanges : r.max < Word - 1

(***************************************************************************)
(* The pair a step stores is the one it loads next.                        *)
(***************************************************************************)
LEMMA WalkStep ==
  ASSUME BelowLastPort, WalkInv, SendNext
  PROVE  /\ cr' = cr /\ sr' = sr
         /\ Server' = IF Server = sr.max THEN sr.min ELSE Server + 1
         /\ Local' = IF Server # sr.max THEN Local
                     ELSE IF Local = cr.max THEN cr.min ELSE Local + 1
<1>1. /\ cr \in PortRange /\ sr \in PortRange
      /\ cr.max < Word - 1 /\ sr.max < Word - 1
      /\ Local \in cr.min .. cr.max /\ Server \in sr.min .. sr.max
  BY RangesAssumption DEF WalkInv, BelowLastPort, PortsInRange
<1> DEFINE c == NextClientPort(Local, Server, cr, sr)
           s == NextServerPort(Server, sr)
<1>2. /\ s = IF Server = sr.max THEN sr.min ELSE Server + 1
      /\ c = IF Server # sr.max THEN Local
            ELSE IF Local = cr.max THEN cr.min ELSE Local + 1
  BY <1>1, StepInRange
<1>3. ports' = PackPorts(c, s) /\ cr' = cr /\ sr' = sr
  BY DEF SendNext, GetNextPorts
<1>4. /\ Word \in Nat /\ cr.min \in Nat /\ cr.max \in Nat
      /\ sr.min \in Nat /\ sr.max \in Nat
  BY <1>1, WordAssumption DEF PortRange, Ports
<1> HIDE DEF c, s
<1>5. c \in Ports /\ s \in Ports
  BY <1>1, <1>2, <1>4 DEF Ports
<1>6. UnpackPorts(ports') = <<c, s>>
  BY <1>3, <1>5, UnpackPacked
<1>7. Local' = c /\ Server' = s
  BY <1>6 DEF Local, Server
<1> QED BY <1>2, <1>3, <1>7

(***************************************************************************)
(* The invariant is inductive.                                             *)
(***************************************************************************)
LEMMA WalkInductive ==
  ASSUME BelowLastPort
  PROVE  /\ Init => WalkInv
         /\ WalkInv /\ [SendNext]_vars => WalkInv'
<1>1. ASSUME Init PROVE WalkInv
  <2>1. cr \in PortRange /\ sr \in PortRange
    BY <1>1, RangesAssumption DEF Init
  <2>2. /\ cr.min \in Ports /\ sr.min \in Ports /\ cr.min \in Nat
        /\ sr.min \in Nat /\ cr.max \in Nat /\ sr.max \in Nat
        /\ cr.min <= cr.max /\ sr.min <= sr.max
    BY <2>1, WordAssumption DEF PortRange, Ports
  <2>3. UnpackPorts(ports) = <<cr.min, sr.min>>
    BY <1>1, <2>2, UnpackPacked DEF Init
  <2> QED BY <1>1, <2>2, <2>3 DEF Init, WalkInv, PortsInRange, Local, Server
<1>2. ASSUME WalkInv, SendNext PROVE WalkInv'
  <2>1. cr \in PortRange /\ sr \in PortRange
    BY <1>2, RangesAssumption DEF WalkInv
  <2>2. /\ cr.min \in Nat /\ sr.min \in Nat /\ cr.max \in Nat
        /\ sr.max \in Nat /\ cr.min <= cr.max /\ sr.min <= sr.max
    BY <2>1, WordAssumption DEF PortRange, Ports
  <2>3. PortsInRange' /\ Local' \in Nat /\ Server' \in Nat
    BY <1>2, <2>2, WalkStep DEF WalkInv, PortsInRange
  <2> QED BY <1>2, <2>3, WalkStep DEF WalkInv
<1>3. ASSUME WalkInv, UNCHANGED vars PROVE WalkInv'
  BY <1>3 DEF WalkInv, PortsInRange, Local, Server, vars
<1> QED BY <1>1, <1>2, <1>3

(***************************************************************************)
(* As long as no range ends at the last port number, the send loop never   *)
(* leaves the configured ranges.                                           *)
(***************************************************************************)
THEOREM WalkStaysInRange ==
  ASSUME BelowLastPort
  PROVE  Spec => []PortsInRange
<1>1. WalkInv => PortsInRange
  BY DEF WalkInv
<1> QED BY <1>1, WalkInductive, PTL DEF Spec

(***************************************************************************)
(* And it visits the pairs of the two ranges in a fixed cycle that leaves  *)
(* none out.                                                               *)
(***************************************************************************)
THEOREM WalkCoversAllPairs ==
  ASSUME BelowLastPort
  PROVE  Spec => EveryPairInTurn
<1>1. WalkInv /\ [SendNext]_vars
        => [Position' = IF Position = Size - 1 THEN 0 ELSE Position + 1]_vars
  <2> SUFFICES ASSUME WalkInv, SendNext
               PROVE  Position' = IF Position = Size - 1 THEN 0
                                  ELSE Position + 1
    OBVIOUS
  <2>1. cr \in PortRange /\ sr \in PortRange
    BY RangesAssumption DEF WalkInv
  <2> DEFINE w == sr.max - sr.min + 1
             h == cr.max - cr.min + 1
             x == Local - cr.min
             y == Server - sr.min
  <2>2. /\ cr.min \in Nat /\ sr.min \in Nat /\ cr.max \in Nat
        /\ sr.max \in Nat /\ cr.min <= cr.max /\ sr.min <= sr.max
    BY <2>1, WordAssumption DEF PortRange, Ports
  <2>3. w \in Nat /\ h \in Nat /\ x \in 0 .. h - 1 /\ y \in 0 .. w - 1
    BY <2>2 DEF WalkInv, PortsInRange
  <2>4. /\ Local' - cr.min = IF y # w - 1 THEN x
                             ELSE IF x = h - 1 THEN 0 ELSE x + 1
        /\ Server' - sr.min = IF y = w - 1 THEN 0 ELSE y + 1
        /\ cr' = cr /\ sr' = sr
    BY <2>2, <2>3, WalkStep DEF WalkInv
  <2>5. /\ Position = x * w + y /\ Size = h * w
        /\ Position' = (Local' - cr.min) * w + (Server' - sr.min)
    BY <2>4 DEF Position, Size, Width
  <2> HIDE DEF w, h, x, y
  <2>6. CASE y # w - 1
    <3>1. x * w + y # h * w - 1
      <4>1. x * w <= (h - 1) * w
        BY <2>3
      <4> QED BY <2>3, <2>6, <4>1
    <3> QED BY <2>3, <2>4, <2>5, <2>6, <3>1
  <2>7. CASE y = w - 1 /\ x = h - 1
    <3>1. x * w + y = h * w - 1
      BY <2>3, <2>7
    <3> QED BY <2>3, <2>4, <2>5, <2>7, <3>1
  <2>8. CASE y = w - 1 /\ x # h - 1
    <3>1. (x + 1) * w = x * w + y + 1
      BY <2>3, <2>8
    <3>2. x * w + y # h * w - 1
      <4>1. x + 1 \in Int /\ x + 1 < h /\ w > 0
        BY <2>3, <2>8
      <4>2. (x + 1) * w < h * w
        BY <2>3, <4>1
      <4> QED BY <2>3, <3>1, <4>2
    <3> QED BY <2>3, <2>4, <2>5, <2>8, <3>1, <3>2
  <2> QED BY <2>6, <2>7, <2>8
<1> QED BY <1>1, WalkInductive, PTL DEF Spec, EveryPairInTurn
=============================================================================
