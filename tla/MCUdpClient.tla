---------------------------- MODULE MCUdpClient ----------------------------
(* UdpClient for TLC: three client ports for two readers, and a server     *)
(* range that overlaps them.                                               *)
EXTENDS UdpClient

ThreePorts == [min |-> 1, max |-> 3]
OnePort == [min |-> 2, max |-> 2]
Limits == {[count |-> 3, timed |-> FALSE], [count |-> 0, timed |-> TRUE]}
=============================================================================
