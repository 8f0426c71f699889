------------------------------- MODULE Tracer -------------------------------
(***************************************************************************)
(* traceroute and traceroute6: one goroutine per target, hop and probe,    *)
(* capped by a semaphore.  Every probe in flight listens on a capture of   *)
(* its own, so each sees every packet, and picks the first one its matcher *)
(* accepts.  A target's hops are cut after the first that was reached.     *)
(***************************************************************************)
EXTENDS Naturals, Sequences, SequencesExt

CONSTANTS
  Tools,         \* "traceroute" and "traceroute6"
  Confs,         \* the configurations considered
  Pid,           \* the process id, 16 bits
  Dist,          \* per address: its distance in hops
  ForeignPid     \* the identifier of another process that pings

Uint16 == 0 .. 65535

ASSUME TracerAssumption ==
  /\ Pid \in Uint16 /\ ForeignPid \in Uint16 \ {Pid}
  /\ Dist \in [DOMAIN Dist -> Nat]
  /\ \A c \in Confs :
       /\ c.proto \in {"icmp", "udp", "tcp"} /\ c.fixedDst \in BOOLEAN
       /\ c.port \in Uint16 /\ c.srcPort \in Uint16
       /\ c.targets \in Seq(DOMAIN Dist)
       /\ c.maxHops \in Nat /\ c.queries \in Nat /\ c.parallel \in Nat

VARIABLES
  tool, conf,    \* the program and its Config
  turn,          \* Run's loop: the target it is at
  target,        \* per target: "todo", "tracing", "traced" or "invalid"
  probe,         \* per probe: "none", "queued", "flying", "answered", "done"
  answer,        \* per probe: the packet its Sr1 has found, until it returns
  sem,           \* slots of the semaphore in use
  net,           \* packets on the wire, to be captured by all that listen
  hops,          \* per target: the hops, each with its probes and addresses
  ret            \* what Run has returned, "running" before

traced == <<turn, target, probe, answer, sem, net, hops>>
tvars == <<tool, conf, traced, ret>>

Targets == 1 .. Len(conf.targets)
TTLs == 1 .. conf.maxHops
Probes == Targets \X TTLs \X (0 .. conf.queries - 1)
DstOf(p) == conf.targets[p[1]]
TTL(p) == p[2]

\* The router at a distance; every address is an endpoint, not a router.
Router(ttl) == 100 + ttl

-----------------------------------------------------------------------------
(* the probe's identity on the wire                                        *)

(***************************************************************************)
(* 16 ports per hop, computed in a uint16.                                 *)
(***************************************************************************)
ephemeralSrcPort(ttl, q) == 33000 + (((Pid + ttl * 16 + q) % 65536) % 30000)

srcPort(ttl, q) == IF conf.srcPort # 0 THEN conf.srcPort
                   ELSE ephemeralSrcPort(ttl, q)

dstPort(ttl) == IF conf.fixedDst THEN conf.port
                ELSE (conf.port + ttl) % 65536

(***************************************************************************)
(* The two numbers that tag a probe: identifier and sequence number of an  *)
(* echo request, the ports of a UDP or TCP probe.                          *)
(***************************************************************************)
buildProbe(p) ==
  CASE conf.proto = "icmp" -> <<Pid, ((p[2] * 256) % 65536) + (p[3] % 256)>>
    [] conf.proto = "udp"  -> <<srcPort(p[2], p[3]), dstPort(p[2])>>
    [] conf.proto = "tcp"  -> <<srcPort(p[2], p[3]), conf.port>>

buildProbe6(p) == buildProbe(p)

Tag(p) == IF tool = "traceroute" THEN buildProbe(p) ELSE buildProbe6(p)

(***************************************************************************)
(* What a probe can meet.  A hop short of the destination sends Time       *)
(* Exceeded, or refuses with Destination Unreachable; the destination      *)
(* echoes, has no such port, or opens or resets the connection.  An error  *)
(* quotes the probe: in full, or so little that it cannot be parsed.  of   *)
(* is the probe that caused the packet, which the programs do not see.     *)
(***************************************************************************)
Error(kind, src, p, cut) ==
  [kind |-> kind, src |-> src, dst |-> DstOf(p), tag |-> Tag(p), cut |-> cut,
   of |-> p]

Direct(kind, p) ==
  [kind |-> kind, src |-> DstOf(p), dst |-> 0, tag |-> Tag(p), cut |-> "full",
   of |-> p]

Answers(p) ==
  IF TTL(p) < Dist[DstOf(p)]
  THEN {Error("exceeded", Router(TTL(p)), p, c) : c \in {"full", "short"}}
       \cup {Error("unreach", Router(TTL(p)), p, "full")}
  ELSE CASE conf.proto = "icmp" -> {Direct("echo", p)}
         [] conf.proto = "udp"  -> {Error("unreach", DstOf(p), p, "full")}
         [] conf.proto = "tcp"  -> {Direct("tcp", p)}

\* An echo reply to another process, with one of our sequence numbers.
Foreign(p) == [Direct("echo", p) EXCEPT !.tag[1] = ForeignPid, !.of = <<0, 0, 0>>]

-----------------------------------------------------------------------------
(* the matcher of a probe                                                  *)

(***************************************************************************)
(* The embedded probe: a quote too short for the IP header is refused, one *)
(* without the ports passes on the destination alone.                      *)
(***************************************************************************)
matchEmbedded(p, r) ==
  /\ r.cut # "short"
  /\ r.dst = DstOf(p)
  /\ r.cut = "header" \/ r.tag = Tag(p)

matchEmbedded6(p, r) == matchEmbedded(p, r)

\* Variant: only the sequence number is compared.
SeqMatches(p, r) == r.tag[2] = Tag(p)[2]

echoIdentMatches(p, r) == r.tag = Tag(p)

echoIdentMatches6(p, r) == echoIdentMatches(p, r)

(***************************************************************************)
(* A TCP segment matches by its source address alone.                      *)
(***************************************************************************)
buildMatcher(p, r) ==
  CASE r.kind = "tcp"  -> conf.proto = "tcp" /\ r.src = DstOf(p)
    [] r.kind = "echo" -> /\ conf.proto = "icmp" /\ r.src = DstOf(p)
                          /\ echoIdentMatches(p, r)
    [] OTHER           -> matchEmbedded(p, r)

buildMatcher6(p, r) ==
  CASE r.kind = "tcp"  -> conf.proto = "tcp" /\ r.src = DstOf(p)
    [] r.kind = "echo" -> /\ conf.proto = "icmp" /\ r.src = DstOf(p)
                          /\ echoIdentMatches6(p, r)
    [] OTHER           -> matchEmbedded6(p, r)

Matches(p, r) == IF tool = "traceroute" THEN buildMatcher(p, r)
                 ELSE buildMatcher6(p, r)

(***************************************************************************)
(* What the probe reports of its answer.                                   *)
(***************************************************************************)
extractReply(r) ==
  [from |-> r.src, timedOut |-> FALSE,
   reached |-> \/ r.kind = "echo"
               \/ r.kind = "unreach" /\ conf.proto = "udp"
               \/ r.kind = "tcp"]

extractReply6(r) == extractReply(r)

Reply(r) == IF tool = "traceroute" THEN extractReply(r) ELSE extractReply6(r)

NoReply == [from |-> 0, timedOut |-> TRUE, reached |-> FALSE]

-----------------------------------------------------------------------------
NoAnswer == [kind |-> "none", of |-> <<0, 0, 0>>]
NewHop == [probes |-> <<>>, addrs |-> <<>>]

(***************************************************************************)
(* The checks of Config.Validate on what is modelled.                      *)
(***************************************************************************)
Validate(c) ==
  /\ Len(c.targets) > 0
  /\ c.maxHops \in 1 .. 255 /\ c.queries >= 1 /\ c.parallel >= 1
  /\ c.proto \in {"tcp", "udp"} => c.port # 0
  /\ c.proto = "icmp" => c.srcPort = 0 /\ ~ c.fixedDst

Validate6(c) == Validate(c)

TInit ==
  /\ tool \in Tools
  /\ conf \in {c \in Confs : IF tool = "traceroute" THEN Validate(c)
                             ELSE Validate6(c)}
  /\ turn = 1
  /\ target = [t \in Targets |-> "todo"]
  /\ probe = [p \in Probes |-> "none"]
  /\ answer = [p \in Probes |-> NoAnswer]
  /\ hops = [t \in Targets |-> [h \in TTLs |-> NewHop]]
  /\ \E noise \in SUBSET {Foreign(<<1, 1, 0>>)} : net = noise
  /\ sem = 0 /\ ret = "running"

(***************************************************************************)
(* Run's loop over the targets.  An address that does not parse gets an    *)
(* empty result; when the local endpoint cannot be found Run returns at    *)
(* once, with the targets before it still being traced.                    *)
(***************************************************************************)
InvalidTarget ==
  /\ turn' = turn + 1 /\ target' = [target EXCEPT ![turn] = "invalid"]
  /\ hops' = [hops EXCEPT ![turn] = <<>>]
  /\ UNCHANGED <<probe, ret>>

localEndpoint ==
  tool = "traceroute" /\ ret' = "error" /\ UNCHANGED <<turn, target, probe, hops>>

localEndpoint6 ==
  tool = "traceroute6" /\ ret' = "error" /\ UNCHANGED <<turn, target, probe, hops>>

traceTarget ==
  /\ turn' = turn + 1 /\ target' = [target EXCEPT ![turn] = "tracing"]
  /\ probe' = [p \in Probes |-> IF p[1] = turn THEN "queued" ELSE probe[p]]
  /\ UNCHANGED <<hops, ret>>

StartTarget ==
  /\ turn <= Len(conf.targets)
  /\ (InvalidTarget \/ localEndpoint \/ localEndpoint6 \/ traceTarget)
  /\ UNCHANGED <<tool, conf, answer, sem, net>>

(***************************************************************************)
(* A goroutine of traceTarget gets a slot of the semaphore and sends its   *)
(* probe.  What the probe meets is decided now; a packet that nobody       *)
(* captures is lost.                                                       *)
(***************************************************************************)
SendProbe(p) ==
  /\ probe[p] = "queued" /\ sem < conf.parallel
  /\ sem' = sem + 1
  /\ probe' = [probe EXCEPT ![p] = "flying"]
  /\ net' \in {net \cup {a} : a \in Answers(p)}
  /\ UNCHANGED <<tool, conf, turn, target, answer, hops, ret>>

(***************************************************************************)
(* A packet passes the interface: every probe that listens and accepts it  *)
(* has its answer.                                                         *)
(***************************************************************************)
Capture(r) ==
  LET takers == {p \in Probes : probe[p] = "flying" /\ Matches(p, r)}
  IN  /\ takers # {}
      /\ net' = net \ {r}
      /\ probe' = [p \in Probes |-> IF p \in takers THEN "answered" ELSE probe[p]]
      /\ answer' = [p \in Probes |-> IF p \in takers THEN r ELSE answer[p]]
      /\ UNCHANGED <<tool, conf, turn, target, sem, hops, ret>>

addAddr(addrs, a) == IF a \in Range(addrs) THEN addrs ELSE Append(addrs, a)

appendProbe(h, result) ==
  [probes |-> Append(h.probes, result),
   addrs  |-> IF result.from = 0 THEN h.addrs ELSE addAddr(h.addrs, result.from)]

\* Variant: a probe that timed out keeps its slot.
TimeoutKeepsSlot(p) == IF probe[p] = "flying" THEN sem ELSE sem - 1

Release(p) == sem - 1

(***************************************************************************)
(* Sr1 returns, with the answer or with a timeout: the result goes to the  *)
(* hop under the lock, and the slot is given back.                         *)
(***************************************************************************)
ProbeDone(p) ==
  /\ probe[p] \in {"flying", "answered"}
  /\ LET result == IF probe[p] = "flying" THEN NoReply ELSE Reply(answer[p])
     IN  hops' = [hops EXCEPT ![p[1]][TTL(p)] = appendProbe(@, result)]
  /\ probe' = [probe EXCEPT ![p] = "done"]
  /\ sem' = Release(p)
  /\ answer' = [answer EXCEPT ![p] = NoAnswer]
  /\ UNCHANGED <<tool, conf, turn, target, net, ret>>

ReachedHops(hs) ==
  {h \in 1 .. Len(hs) : \E i \in DOMAIN hs[h].probes : hs[h].probes[i].reached}

\* Variant: the hops are cut at the last hop that was reached.
CutAtLast(hs) ==
  LET rs == ReachedHops(hs)
  IN  IF rs = {} THEN hs
      ELSE SubSeq(hs, 1, CHOOSE h \in rs : \A g \in rs : g <= h)

(***************************************************************************)
(* The hops up to the first that was reached.                              *)
(***************************************************************************)
finalize(hs) ==
  LET rs == ReachedHops(hs)
  IN  IF rs = {} THEN hs
      ELSE SubSeq(hs, 1, CHOOSE h \in rs : \A g \in rs : h <= g)

(***************************************************************************)
(* All probes of a target have reported.                                   *)
(***************************************************************************)
TargetDone(t) ==
  /\ target[t] = "tracing"
  /\ \A p \in Probes : p[1] = t => probe[p] = "done"
  /\ target' = [target EXCEPT ![t] = "traced"]
  /\ hops' = [hops EXCEPT ![t] = finalize(@)]
  /\ UNCHANGED <<tool, conf, turn, probe, answer, sem, net, ret>>

TracingDone == /\ turn > Len(conf.targets)
               /\ \A t \in Targets : target[t] \in {"traced", "invalid"}

TStep ==
  \/ StartTarget
  \/ \E p \in Probes : SendProbe(p) \/ ProbeDone(p)
  \/ \E r \in net : Capture(r)
  \/ \E t \in Targets : TargetDone(t)

-----------------------------------------------------------------------------
(***************************************************************************)
(* "replies are matched back to their probe" (tracer.go:86): a packet that *)
(* a probe takes for its answer was caused by a probe to the same address  *)
(* at the same hop, although every probe in flight sees all the packets    *)
(* and late ones of probes that have timed out.                            *)
(***************************************************************************)
AnswersMatchHop ==
  \A p \in Probes : answer[p] # NoAnswer =>
    /\ answer[p].of \in Probes
    /\ TTL(answer[p].of) = TTL(p)
    /\ DstOf(answer[p].of) = DstOf(p)

(***************************************************************************)
(* The path shown for a target ends at its first hop that was reached: an  *)
(* echo trace never ends short of the destination, keeps every router      *)
(* before it, and each hop it keeps holds the results of all its probes.   *)
(***************************************************************************)
PathIsWhole ==
  \A t \in Targets : target[t] = "traced" =>
    /\ \A h \in 1 .. Len(hops[t]) : Len(hops[t][h].probes) = conf.queries
    /\ LET rs == ReachedHops(hops[t])
       IN  /\ rs \subseteq {Len(hops[t])}
           /\ rs # {} /\ conf.proto = "icmp"
                => Len(hops[t]) >= Dist[conf.targets[t]]
           /\ rs = {} => Len(hops[t]) = conf.maxHops
=============================================================================
