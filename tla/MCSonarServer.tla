--------------------------- MODULE MCSonarServer ---------------------------
(* SonarServer for TLC: two client ports and two server ports.             *)
EXTENDS SonarServer

TwoPorts == [min |-> 1, max |-> 2]
=============================================================================
