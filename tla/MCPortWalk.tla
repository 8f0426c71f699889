----------------------------- MODULE MCPortWalk -----------------------------
(* PortWalk for TLC: all ranges of a small word.                           *)
EXTENDS PortWalk

\* The ranges that do not reach the last port number.
BelowLast == {r \in PortRange : r.max < Word - 1}
=============================================================================
