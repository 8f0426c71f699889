---------------------------- MODULE MCTraceroute ----------------------------
EXTENDS Traceroute

\* A process id at the end of the 16 bits; address 1 is two hops away.
LastPid == 65530
OtherPid == 77
Distances == [a \in {1} |-> 2]

Conf(proto, src, fixed, targets, queries, maxHops) ==
  [proto |-> proto, srcPort |-> src, fixedDst |-> fixed, port |-> 33434,
   targets |-> targets, maxHops |-> maxHops, queries |-> queries, parallel |-> 2,
   dns |-> ~ fixed]

Quoted ==
  {Conf("icmp", 0, FALSE, <<1>>, 2, 2), Conf("icmp", 0, FALSE, <<1, 1>>, 1, 2),
   Conf("udp", 0, FALSE, <<1>>, 2, 2), Conf("udp", 4000, FALSE, <<1>>, 2, 2),
   Conf("udp", 0, TRUE, <<1>>, 2, 2),
   Conf("icmp", 0, FALSE, <<1>>, 1, 4), Conf("udp", 0, FALSE, <<1>>, 1, 4)}

Tcp == {Conf("tcp", 0, FALSE, <<1>>, 2, 2)}
=============================================================================
