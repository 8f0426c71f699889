------------------------------- MODULE Ports -------------------------------
(***************************************************************************)
(* The port odometer that sonar, sonar6 and kuiniu send along and that the *)
(* server replays to name the lost port pairs (stat/stat.go and the copies *)
(* in the config packages).  Ports are unsigned words: the increment wraps *)
(* at Word, before the comparison with the end of the range.               *)
(***************************************************************************)
EXTENDS Integers

CONSTANT Word     \* number of values of a uint16: 65536

ASSUME WordAssumption == Word \in Nat \ {0}

Ports == 0 .. Word - 1

(***************************************************************************)
(* A PortRange that ParsePortRange accepts.                                *)
(***************************************************************************)
PortRange == {r \in [min : Ports, max : Ports] : 1 <= r.min /\ r.min <= r.max}

Incremented(p) == (p + 1) % Word

\* Variant: the server port is compared before it is incremented.
NextServerPortLate(s, sr) == IF s > sr.max THEN sr.min ELSE Incremented(s)

NextServerPort(s, sr) ==
  IF Incremented(s) > sr.max THEN sr.min ELSE Incremented(s)

(***************************************************************************)
(* The client port moves on when the server port has left its range.       *)
(***************************************************************************)
NextClientPort(c, s, cr, sr) ==
  LET moved == IF Incremented(s) > sr.max THEN Incremented(c) ELSE c
  IN  IF moved > cr.max THEN cr.min ELSE moved

\* Variant: the client port moves with every probe.
GetNextPortsBoth(c, s, cr, sr) ==
  <<IF Incremented(c) > cr.max THEN cr.min ELSE Incremented(c),
    NextServerPort(s, sr)>>

GetNextPorts(c, s, cr, sr) ==
  <<NextClientPort(c, s, cr, sr), NextServerPort(s, sr)>>

(***************************************************************************)
(* Both ports in one uint32, stored and loaded atomically.                 *)
(***************************************************************************)
PackPorts(c, s) == c * Word + s
UnpackPorts(v) == <<v \div Word, v % Word>>
=============================================================================
