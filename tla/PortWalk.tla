------------------------------ MODULE PortWalk ------------------------------
(***************************************************************************)
(* The ports of one peer of the sonar client: the send loop loads the      *)
(* packed pair, advances it and stores it back for every probe.            *)
(***************************************************************************)
EXTENDS Ports

CONSTANTS
  ClientRanges, ServerRanges   \* the configurations considered

ASSUME RangesAssumption ==
  ClientRanges \subseteq PortRange /\ ServerRanges \subseteq PortRange

VARIABLES
  cr, sr,     \* conf.ClientPortRange, conf.ServerPortRange
  ports       \* peer.ports, packed

vars == <<cr, sr, ports>>

Local == UnpackPorts(ports)[1]
Server == UnpackPorts(ports)[2]

Init ==
  /\ cr \in ClientRanges /\ sr \in ServerRanges
  /\ ports = PackPorts(cr.min, sr.min)

SendNext ==
  LET next == GetNextPorts(Local, Server, cr, sr)
  IN  /\ ports' = PackPorts(next[1], next[2])
      /\ UNCHANGED <<cr, sr>>

Spec == Init /\ [][SendNext]_vars

-----------------------------------------------------------------------------
(***************************************************************************)
(* GetNextPorts stays "within their respective ranges, wrapping around     *)
(* when the maximum is reached" (sonar/config/config.go:160).              *)
(***************************************************************************)
PortsInRange == Local \in cr.min .. cr.max /\ Server \in sr.min .. sr.max

(***************************************************************************)
(* The place of a pair in the odometer's cycle.                            *)
(***************************************************************************)
Width == sr.max - sr.min + 1
Size == (cr.max - cr.min + 1) * Width
Position == (Local - cr.min) * Width + (Server - sr.min)

(***************************************************************************)
(* Probes use every port pair of the two ranges in turn before one comes   *)
(* again, for ranges that end below the last port number: this spreads     *)
(* them over all five-tuples, and lets the server replay them.             *)
(***************************************************************************)
EveryPairInTurn ==
  [][Position' = IF Position = Size - 1 THEN 0 ELSE Position + 1]_vars
=============================================================================
