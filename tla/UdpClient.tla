----------------------------- MODULE UdpClient -----------------------------
(***************************************************************************)
(* The UDP probers: sonar and sonar6, kuiniu (with its server, as in       *)
(* role=both) and evr.  A writer probes its peers round by round, readers  *)
(* on raw sockets with a filter each take the answers, and both must end   *)
(* when the run is over.  The windows of the statistics are the subject of *)
(* Stat: here a peer has one entry per probe.                              *)
(***************************************************************************)
EXTENDS Ports, FiniteSets, FiniteSetsExt

CONSTANTS
  Tools,                      \* the programs considered
  N,                          \* number of peers
  ClientRange, ServerRange,   \* the port ranges, which may overlap
  InnerPort,                  \* evr: the port its answers come to
  MaxReaders,                 \* at most so many sub-ranges: 8
  MaxErrors,                  \* consecutive errors that end a reader: 10, 20
  Grace,                      \* ticks of conf.Delay + 10 s
  Confs,                      \* the limits considered: Count and SendDuration
  MaxProbes,                  \* bound: probes per peer
  MaxFaults                   \* bound: encoders, sockets and packets that fail

ASSUME UdpClientAssumption ==
  /\ Tools \subseteq {"sonar", "sonar6", "kuiniu", "evr"}
  /\ \A c \in Confs : c.count \in Int /\ c.timed \in BOOLEAN
  /\ N \in Nat \ {0} /\ MaxReaders \in Nat \ {0} /\ MaxErrors \in Nat \ {0}
  /\ ClientRange \in PortRange /\ ServerRange \in PortRange
  /\ InnerPort \in Nat /\ Grace \in Nat \ {0} /\ MaxProbes \in Nat
  /\ MaxFaults \in Nat

VARIABLES
  tool, conf,   \* the program and its limits
  wpc, todo,    \* the writer: next step, peers left in this round
  at,           \* the peer whose probe is being written
  seq, ports,   \* per peer: probes made, the ports of the last one
  count,        \* probes tried, over all peers
  wait,         \* ticks left of reachedLimit
  stats,        \* per peer and probe: what the peer's Stat knows
  reader, errs, \* per reader: "none", "reading" or "ended"; consecutive errors
  open,         \* are the readers' sockets open
  ctx, ret,     \* is the context cancelled, what has Run returned
  cold,         \* is bit flip detection still suppressed
  net,          \* packets, each with the readers that have yet to read it
  echoed,       \* kuiniu's server: probes it has recorded and sent back
  serving,      \* kuiniu's server: GPUs whose reader is in its loop
  taken,        \* history: packets that were counted
  puts,         \* history: probes handed to Stat.Put
  unsent,       \* history: probes that were not written
  faults        \* how much has failed

writer == <<wpc, todo, at, seq, ports, count, wait>>
readers == <<reader, errs, open>>
server == <<echoed, serving>>
history == <<taken, puts, unsent>>

Fault == faults < MaxFaults /\ faults' = faults + 1
vars == <<tool, conf, writer, stats, readers, ctx, ret, cold, net, server,
          history, faults>>

Peers == 1 .. N
Seqs == 1 .. MaxProbes
Sonar == tool \in {"sonar", "sonar6"}

\* The addresses of GPU p on this machine and of its peer.
Local(p) == <<"local", p>>
Remote(p) == <<"remote", p>>

-----------------------------------------------------------------------------
(* the readers and their filters                                           *)

(***************************************************************************)
(* The client ports are split over at most MaxReaders readers: the size of *)
(* a sub-range is rounded up, and the last one is cut at the end.          *)
(***************************************************************************)
PortCount == ClientRange.max - ClientRange.min + 1

PortsPerReader ==
  LET g == Min({PortCount, MaxReaders}) IN (PortCount + g - 1) \div g

\* Variant: a sub-range runs into the next one.
SubRangeOverlaps(i) == i .. Min({i + PortsPerReader, ClientRange.max})

SubRange(i) == i .. Min({i + PortsPerReader - 1, ClientRange.max})

serveRead ==
  LET from(r) == ClientRange.min + (r[2] - 1) * PortsPerReader
      rs == {r \in {1} \X (1 .. PortCount) : from(r) <= ClientRange.max}
  IN  [r \in rs |-> SubRange(from(r))]

serveRead6 == serveRead

\* kuiniu gives every GPU such readers.
KuiniuReaders ==
  [r \in {<<p, s[2]>> : p \in Peers, s \in DOMAIN serveRead} |->
     serveRead[<<1, r[2]>>]]

Readers ==
  CASE tool = "sonar"  -> DOMAIN serveRead
    [] tool = "sonar6" -> DOMAIN serveRead6
    [] tool = "kuiniu" -> DOMAIN KuiniuReaders
    [] tool = "evr"    -> {<<1, 1>>}

(***************************************************************************)
(* The filters: the port, and for IPv4 the TOS.  The sockets deliver UDP   *)
(* alone, so the protocol test of the programs never fails.                *)
(***************************************************************************)
portRangeBPF(range, a) == a.tos /\ a.port \in range

portRangeBPF6(range, a) == a.port \in range

innerPortBPF(a) == a.tos /\ a.port = InnerPort

Accepts(r, a) ==
  CASE tool = "sonar"  -> portRangeBPF(serveRead[r], a)
    [] tool = "sonar6" -> portRangeBPF6(serveRead6[r], a)
    [] tool = "kuiniu" -> a.at = r[1] /\ portRangeBPF(KuiniuReaders[r], a)
    [] tool = "evr"    -> innerPortBPF(a)

Server == <<0, 0>>

\* kuiniu's server listens on the server ports of every GPU.
ServerAccepts(a) ==
  /\ tool = "kuiniu"
  /\ portRangeBPF(ServerRange.min .. ServerRange.max, a)

(***************************************************************************)
(* A packet as it reaches the sockets: everyone who accepts it has a copy. *)
(***************************************************************************)
Arriving(a) ==
  [a |-> a, left |-> {r \in Readers : Accepts(r, a)}
                       \cup IF ServerAccepts(a) THEN {Server} ELSE {}]

-----------------------------------------------------------------------------
(* packets                                                                 *)

(***************************************************************************)
(* The answer to probe n of peer p is the probe itself: the peer sends the *)
(* payload back, to the client port it came from.  load is the salt as it  *)
(* comes back: intact, or with a bit flipped.                              *)
(***************************************************************************)
Encode(p, n, load) ==
  [kind |-> "answer", from |-> p, at |-> p, port |-> ports[p][1], tos |-> TRUE,
   magic |-> TRUE, n |-> n, load |-> load, src |-> Local(p), dst |-> Remote(p)]

Encode6(p, n, load) == Encode(p, n, load)

KuiniuEncode(p, n, load) == Encode(p, n, load)

(***************************************************************************)
(* evr's probe carries the address of the EVR it is meant for; the inner   *)
(* frame comes back from this machine's own address, to the inner port.    *)
(***************************************************************************)
EncodeVxlanInner(p, n, load) ==
  [Encode(p, n, load) EXCEPT !.from = 0, !.port = InnerPort, !.src = Remote(p)]

Answer(p, n, load) ==
  CASE tool = "sonar"  -> Encode(p, n, load)
    [] tool = "sonar6" -> Encode6(p, n, load)
    [] tool = "kuiniu" -> KuiniuEncode(p, n, load)
    [] tool = "evr"    -> EncodeVxlanInner(p, n, load)

(***************************************************************************)
(* Packets of others.  A stranger's carry the magic number and are from no *)
(* peer; a peer sends probes of its own, to a server port.  A twin is the  *)
(* answer to another instance of this program, with the same peers, ports  *)
(* and numbers: raw sockets show it to both.                               *)
(***************************************************************************)
Stranger ==
  [kind |-> "noise", from |-> 0, at |-> 1, port |-> ClientRange.min,
   tos |-> TRUE, magic |-> TRUE, n |-> 1, load |-> "ok", src |-> Local(0),
   dst |-> Remote(0)]

PeerProbe(p, port) ==
  [Stranger EXCEPT !.kind = "probe", !.from = p, !.at = p, !.port = port,
                   !.src = Remote(p), !.dst = Local(p)]

Twin ==
  IF tool = "evr"
  THEN [Stranger EXCEPT !.kind = "twin", !.port = InnerPort, !.src = Remote(1)]
  ELSE [Stranger EXCEPT !.kind = "twin", !.from = 1, !.src = Local(1),
                        !.dst = Remote(1)]

(***************************************************************************)
(* The port ranges may meet, as sonar's do by default, so that a peer's    *)
(* probes come to client ports; and the TOS may be another one.            *)
(***************************************************************************)
Noise ==
  CASE Sonar ->
         {Stranger, [Stranger EXCEPT !.from = 1, !.magic = FALSE], Twin,
          [Twin EXCEPT !.tos = FALSE], PeerProbe(1, ServerRange.min)}
    [] tool = "kuiniu" -> {PeerProbe(1, ServerRange.min), Twin}
    [] tool = "evr"    -> {[Stranger EXCEPT !.port = InnerPort], Twin}

-----------------------------------------------------------------------------
(* what a reader makes of a packet: the peer, and the verdict              *)

IsValid(a) == a.magic

(***************************************************************************)
(* A salt that differs is a bit flip, which is logged and not counted: the *)
(* probe will count as lost.  In the first seconds it counts as intact.    *)
(***************************************************************************)
detectBitflip(a) == a.load = "flip" /\ ~ cold

None == <<0, "none">>

(***************************************************************************)
(* sonar looks at the magic number and at the address it comes from: not   *)
(* whether the packet is an answer.                                        *)
(***************************************************************************)
handlePacket(a) ==
  IF ~ IsValid(a) \/ a.from \notin Peers \/ detectBitflip(a) THEN None
  ELSE <<a.from, "ok">>

(***************************************************************************)
(* sonar6 looks up the address without its zone.                           *)
(***************************************************************************)
handlePacket6(a) == handlePacket(a)

\* Variant: the peer is found by the sender the payload names.
KuiniuBySource(a) ==
  LET ps == {p \in Peers : a.src \in {Local(p), Remote(p)}}
  IN  IF ~ IsValid(a) \/ ps = {} \/ detectBitflip(a) THEN None
      ELSE <<Min(ps), "ok">>

(***************************************************************************)
(* kuiniu finds the peer by the destination the payload names, so probes   *)
(* of the other machine that come to a client port are left alone.         *)
(***************************************************************************)
KuiniuHandlePacket(a) ==
  LET ps == {p \in Peers : Remote(p) = a.dst}
  IN  IF ~ IsValid(a) \/ ps = {} \/ detectBitflip(a) THEN None
      ELSE <<Min(ps), "ok">>

(***************************************************************************)
(* evr finds it by the EVR address in the payload, and counts a bit flip.  *)
(***************************************************************************)
EvrHandlePacket(a) ==
  LET ps == {p \in Peers : Remote(p) = a.src}
  IN  IF ~ IsValid(a) \/ ps = {} THEN None
      ELSE <<Min(ps), IF a.load = "flip" THEN "flip" ELSE "ok">>

Outcome(a) ==
  CASE tool = "sonar"  -> handlePacket(a)
    [] tool = "sonar6" -> handlePacket6(a)
    [] tool = "kuiniu" -> KuiniuHandlePacket(a)
    [] tool = "evr"    -> EvrHandlePacket(a)

-----------------------------------------------------------------------------
Init ==
  /\ tool \in Tools /\ conf \in Confs
  /\ wpc = "open" /\ todo = {} /\ at = 1
  /\ seq = [p \in Peers |-> 0]
  /\ ports = [p \in Peers |-> <<ClientRange.min, ServerRange.min>>]
  /\ count = 0 /\ wait = 0
  /\ stats = [p \in Peers |-> [n \in Seqs |-> "none"]]
  /\ reader = [r \in Readers |-> "none"] /\ errs = [r \in Readers |-> 0]
  /\ open = FALSE /\ ctx = FALSE /\ ret = "running" /\ cold = TRUE
  /\ net = {} /\ echoed = {} /\ serving = IF tool = "kuiniu" THEN Peers ELSE {}
  /\ taken = {} /\ puts = {} /\ unsent = {} /\ faults = 0

(***************************************************************************)
(* Run opens the readers' sockets and starts a reader on each.  One that   *)
(* fails ends Run: sonar leaves the readers before it running, kuiniu has  *)
(* not started any and closes the sockets.                                 *)
(***************************************************************************)
StartReaders(opened) ==
  reader' = [r \in Readers |-> IF r \in opened THEN "reading" ELSE "none"]

OpenReaders ==
  /\ wpc = "open"
  /\ \/ /\ StartReaders(Readers) /\ open' = TRUE /\ wpc' = "dial"
        /\ net' \in {{Arriving(a)} : a \in Noise}
        /\ UNCHANGED ret
     \/ /\ \E k \in {r[2] : r \in Readers} :
             StartReaders(IF tool = "kuiniu" THEN {}
                          ELSE {r \in Readers : r[2] < k})
        /\ open' = (tool # "kuiniu") /\ wpc' = "done" /\ ret' = "failed"
        /\ UNCHANGED net
  /\ UNCHANGED <<tool, conf, todo, at, seq, ports, count, wait, stats, errs, ctx,
                 cold, server, history, faults>>

(***************************************************************************)
(* serveWrite returns before it has deferred the call below.               *)
(***************************************************************************)
LeaveOpen(r) == ret' = r /\ wpc' = "done" /\ UNCHANGED <<open, net>>

(***************************************************************************)
(* serveWrite returns: its deferred calls close the readers' sockets, and  *)
(* what they have not read is gone.                                        *)
(***************************************************************************)
Leave(r) ==
  /\ ret' = r /\ wpc' = "done" /\ open' = FALSE
  /\ net' = {m \in {[m EXCEPT !.left = @ \cap {Server}] : m \in net} : m.left # {}}

(***************************************************************************)
(* serveWrite opens the socket it writes to, or fails: that leaves the     *)
(* readers alone, except when evr has the socket and cannot make it raw.   *)
(* kuiniu's senders were opened before the readers.                        *)
(***************************************************************************)
Dial ==
  /\ wpc = "dial"
  /\ \/ wpc' = "top" /\ UNCHANGED <<ret, open, net>>
     \/ tool # "kuiniu" /\ LeaveOpen("failed")
     \/ tool = "evr" /\ Leave("failed")
  /\ UNCHANGED <<tool, conf, todo, at, seq, ports, count, wait, stats, reader,
                 errs, ctx, cold, server, history, faults>>

Cancelled ==
  /\ wpc = "top" /\ ctx
  /\ Leave("cancelled")
  /\ UNCHANGED <<tool, conf, todo, at, seq, ports, count, wait, stats, reader,
                 errs, ctx, cold, server, history, faults>>

(***************************************************************************)
(* The rate limiter lets the next round begin.                             *)
(***************************************************************************)
Take ==
  /\ wpc = "top" /\ ~ ctx /\ \A p \in Peers : seq[p] < MaxProbes
  /\ wpc' = "send" /\ todo' = Peers
  /\ UNCHANGED <<tool, conf, at, seq, ports, count, wait, stats, readers, ctx,
                 ret, cold, net, server, history, faults>>

(***************************************************************************)
(* evr sends to one port: only its source port moves.                      *)
(***************************************************************************)
GetNextPort(p, r) ==
  LET q == Incremented(p) IN IF q > r.max \/ q < r.min THEN r.min ELSE q

NextPeer(left) == IF left = {} THEN "top" ELSE "send"

\* Variant: the limit is noticed one probe late.
LimitLate == conf.count > 0 /\ count > conf.count

LimitReached == conf.count > 0 /\ count + 1 > conf.count

\* Variant: the limit ends the run at once.
NoGrace == Leave("limit") /\ UNCHANGED wait

(***************************************************************************)
(* sonar goes on reading for the delay and ten seconds more, unless it is  *)
(* cancelled; kuiniu ends at once.                                         *)
(***************************************************************************)
reachedLimit ==
  wpc' = "limit" /\ wait' = Grace /\ UNCHANGED <<ret, open, net>>

AtLimit == IF Sonar THEN reachedLimit ELSE Leave("limit") /\ UNCHANGED wait

(***************************************************************************)
(* The next probe of a peer: a number and ports of its own, also when it   *)
(* cannot be encoded or the limit stops it.  sonar's peers are a map and   *)
(* come in any order.                                                      *)
(***************************************************************************)
NextProbe(p) ==
  /\ p \in todo
  /\ Sonar \/ p = Min(todo)
  /\ todo' = todo \ {p} /\ at' = p
  /\ seq' = [seq EXCEPT ![p] = @ + 1]
  /\ ports' = [ports EXCEPT ![p] =
                 IF tool = "evr" THEN <<GetNextPort(@[1], ClientRange), @[2]>>
                 ELSE GetNextPorts(@[1], @[2], ClientRange, ServerRange)]

EncodeFails(p) ==
  /\ wpc = "send" /\ tool # "kuiniu" /\ Fault
  /\ NextProbe(p)
  /\ wpc' = NextPeer(todo')
  /\ UNCHANGED <<tool, conf, count, wait, stats, readers, ctx, ret, cold, net,
                 server, history>>

StopAtLimit(p) ==
  /\ wpc = "send" /\ tool # "evr"
  /\ LimitReached \/ conf.timed
  /\ NextProbe(p)
  /\ count' = count + 1
  /\ AtLimit
  /\ UNCHANGED <<tool, conf, stats, reader, errs, ctx, cold, server,
                 history, faults>>

(***************************************************************************)
(* Put keeps an entry that an answer was filed under before it.            *)
(***************************************************************************)
PutProbe(p) ==
  /\ wpc = "send" /\ (tool # "evr" => ~ LimitReached)
  /\ NextProbe(p)
  /\ count' = count + 1
  /\ stats' = [stats EXCEPT ![p][seq'[p]] = IF @ = "none" THEN "sent" ELSE @]
  /\ puts' = puts \cup {<<p, seq'[p]>>}
  /\ wpc' = "write"
  /\ UNCHANGED <<tool, conf, wait, readers, ctx, ret, cold, net, server, taken,
                 unsent, faults>>

\* Variant: a probe that is not written stays in the statistics.
NotDeleted == stats

Deleted == [stats EXCEPT ![at][seq[at]] = "none"]

(***************************************************************************)
(* The probe is written: its answer comes back, or it is lost.  One that   *)
(* cannot be written is deleted again, except that sonar keeps a probe     *)
(* whose deadline could not be set (client.go:247).                        *)
(***************************************************************************)
WriteProbe ==
  /\ wpc = "write"
  /\ wpc' = NextPeer(todo)
  /\ \/ /\ net' = net \cup {Arriving(Answer(at, seq[at], "ok"))}
        /\ UNCHANGED <<stats, unsent, faults>>
     \/ /\ Fault  \* the probe or its answer is corrupted or lost
        /\ net' \in {net, net \cup {Arriving(Answer(at, seq[at], "flip"))}}
        /\ UNCHANGED <<stats, unsent>>
     \/ /\ Fault
        /\ stats' = Deleted
        /\ unsent' = unsent \cup {<<at, seq[at]>>}
        /\ UNCHANGED net
     \/ /\ Fault /\ Sonar  \* SetDeadline
        /\ UNCHANGED <<stats, net, unsent>>
  /\ UNCHANGED <<tool, conf, todo, at, seq, ports, count, wait, readers, ctx,
                 ret, cold, server, taken, puts>>

LimitOver ==
  /\ wpc = "limit" /\ (ctx \/ wait = 0)
  /\ Leave("limit")
  /\ UNCHANGED <<tool, conf, todo, at, seq, ports, count, wait, stats, reader,
                 errs, ctx, cold, server, history, faults>>

-----------------------------------------------------------------------------
(* the readers                                                             *)

Listening(r) == r \in Readers /\ reader[r] = "reading" /\ open

ReadBy(m, r) ==
  LET left == m.left \ {r}
  IN  net' = (net \ {m}) \cup IF left = {} THEN {} ELSE {[m EXCEPT !.left = left]}

(***************************************************************************)
(* What is known of a packet that was counted; a flip is early while flips *)
(* are suppressed.                                                         *)
(***************************************************************************)
Counts(a) ==
  [peer |-> a.at, n |-> a.n, kind |-> a.kind, tos |-> a.tos,
   load |-> IF a.load = "flip" /\ cold THEN "early" ELSE a.load]

(***************************************************************************)
(* A packet is read and handled; kuiniu's loop looks at the context next.  *)
(***************************************************************************)
readLoop(r, m) ==
  LET o == Outcome(m.a)
  IN  /\ Listening(r) /\ r \in m.left
      /\ ReadBy(m, r)
      /\ errs' = [errs EXCEPT ![r] = 0]
      /\ reader' = [reader EXCEPT ![r] = IF tool = "kuiniu" /\ ctx THEN "ended"
                                         ELSE @]
      /\ stats' = IF o = None THEN stats
                  ELSE [stats EXCEPT ![o[1]][m.a.n] = o[2]]
      /\ taken' = IF o = None THEN taken ELSE taken \cup {Counts(m.a)}
      /\ UNCHANGED <<tool, conf, writer, open, ctx, ret, cold, server, puts,
                     unsent, faults>>

(***************************************************************************)
(* A read fails, always once the socket is closed.  sonar and evr give up  *)
(* after so many errors in a row; kuiniu goes on until it is cancelled.    *)
(***************************************************************************)
ReadFails(r) ==
  /\ reader[r] = "reading"
  /\ IF tool = "kuiniu"
     THEN ctx /\ reader' = [reader EXCEPT ![r] = "ended"] /\ UNCHANGED errs
     ELSE /\ errs' = [errs EXCEPT ![r] = @ + 1]
          /\ reader' = [reader EXCEPT ![r] =
                          IF errs[r] + 1 >= MaxErrors THEN "ended" ELSE @]
  /\ IF open THEN tool # "kuiniu" /\ Fault ELSE UNCHANGED faults
  /\ UNCHANGED <<tool, conf, writer, stats, open, ctx, ret, cold, net, server,
                 history>>

\* Variant: the server answers whatever it reads.
AnyProbe(a) == IsValid(a)

ServerTakes(a) == IsValid(a) /\ \A p \in Peers : a.src # Local(p)

(***************************************************************************)
(* kuiniu's server leaves the echoes of this machine's own probes alone,   *)
(* records the others under the GPU they come from and sends them back.    *)
(* Its readers look at the context between two packets: one that is in its *)
(* read when it is cancelled may take one more.                            *)
(***************************************************************************)
ServeProbe(m) ==
  /\ Server \in m.left /\ m.a.at \in serving
  /\ ReadBy(m, Server)
  /\ echoed' = IF ServerTakes(m.a)
               THEN echoed \cup {[kind |-> m.a.kind, src |-> m.a.src, n |-> m.a.n]}
               ELSE echoed
  /\ serving' = IF ctx THEN serving \ {m.a.at} ELSE serving
  /\ UNCHANGED <<tool, conf, writer, stats, readers, ctx, ret, cold, history, faults>>

-----------------------------------------------------------------------------
(***************************************************************************)
(* SIGINT or SIGTERM; the main program of evr also cancels when Run fails, *)
(* the others then wait for a signal.                                      *)
(***************************************************************************)
Cancel ==
  /\ ~ ctx /\ ctx' = TRUE
  /\ UNCHANGED <<tool, conf, writer, stats, readers, ret, cold, net, server,
                 history, faults>>

Warm ==
  /\ cold /\ wpc \in {"top", "limit"} /\ cold' = FALSE
  /\ UNCHANGED <<tool, conf, writer, stats, readers, ctx, ret, net, server,
                 history, faults>>

Pending == {m \in net : \E r \in m.left : Listening(r)}

(***************************************************************************)
(* Time passes; answers take less than the grace period.                   *)
(***************************************************************************)
Tick ==
  /\ wpc = "limit" /\ wait > 0 /\ Pending = {}
  /\ wait' = wait - 1
  /\ UNCHANGED <<tool, conf, wpc, todo, at, seq, ports, count, stats, readers,
                 ctx, ret, cold, net, server, history, faults>>

Write ==
  \/ OpenReaders \/ Dial \/ Cancelled \/ Take
  \/ \E p \in Peers : EncodeFails(p) \/ StopAtLimit(p) \/ PutProbe(p)
  \/ WriteProbe \/ LimitOver

Read(r) == ReadFails(r) \/ \E m \in net : readLoop(r, m)

\* Run has returned; the process waits for a signal or has ended.
Ended == ret # "running" /\ UNCHANGED vars

Next == \/ Write
        \/ \E r \in Readers : Read(r)
        \/ \E m \in net : ServeProbe(m)
        \/ Cancel \/ Warm \/ Tick
        \/ Ended

(***************************************************************************)
(* The writer and every reader go on; a read on a closed socket fails.     *)
(* Nobody has to send a signal, or to let an open socket fail.             *)
(***************************************************************************)
Fairness ==
  /\ WF_vars(Write) /\ WF_vars(Tick)
  /\ WF_vars(\E r \in Readers : (~ open /\ ReadFails(r))
                                \/ \E m \in net : readLoop(r, m))

Spec == Init /\ [][Next]_vars /\ Fairness

-----------------------------------------------------------------------------
TypeOK ==
  /\ tool \in Tools /\ conf \in Confs
  /\ wpc \in {"open", "dial", "top", "send", "write", "limit", "done"}
  /\ todo \subseteq Peers /\ at \in Peers /\ serving \subseteq Peers
  /\ seq \in [Peers -> 0 .. MaxProbes]
  /\ \A p \in Peers : /\ ports[p][1] \in ClientRange.min .. ClientRange.max
                      /\ ports[p][2] \in ServerRange.min .. ServerRange.max
  /\ count \in Nat /\ wait \in 0 .. Grace
  /\ stats \in [Peers -> [Seqs -> {"none", "sent", "ok", "flip"}]]
  /\ reader \in [Readers -> {"none", "reading", "ended"}]
  /\ errs \in [Readers -> 0 .. MaxErrors]
  /\ {open, ctx, cold} \subseteq BOOLEAN
  /\ ret \in {"running", "failed", "cancelled", "limit"}

RangesMeet ==
  \E x \in ServerRange.min .. ServerRange.max : x \in ClientRange.min .. ClientRange.max

(***************************************************************************)
(* A probe counts as answered only by a packet from its own peer and with  *)
(* its own number, and with the verdict that packet deserves: neither      *)
(* another peer's answer nor a stranger's packet counts (handlePacket).    *)
(* The packet is an answer to this program or, since neither the sender's  *)
(* process nor the direction is checked, to a twin of it; a probe of the   *)
(* peer's own counts only in sonar, and only if the port ranges meet: not  *)
(* in kuiniu, which shares its ports with it on purpose.  A packet with    *)
(* another TOS counts only in sonar6, which does not filter on it.         *)
(***************************************************************************)
OnlyOwnAnswers ==
  \A p \in Peers, n \in Seqs :
    stats[p][n] \in {"ok", "flip"} =>
      \E a \in taken : /\ a.peer = p /\ a.n = n
                       /\ \/ a.kind \in {"answer", "twin"}
                          \/ a.kind = "probe" /\ Sonar /\ RangesMeet
                       /\ a.tos \/ tool = "sonar6"
                       /\ stats[p][n] = "flip" => a.load \in {"flip", "early"}
                       /\ stats[p][n] = "ok" => a.load \in {"ok", "early"}

(***************************************************************************)
(* However the ports are split, an answer passes the filter of exactly one *)
(* reader: it is neither dropped nor counted twice (serveRead).            *)
(***************************************************************************)
OneReaderPerAnswer ==
  \A m \in net : m.a.kind = "answer" =>
    Cardinality({r \in Readers : Accepts(r, m.a)}) = 1

(***************************************************************************)
(* "the latter must not be re-echoed (loop) or recorded as inbound         *)
(* traffic" (kuiniu/server/server.go:146): the server takes nothing but    *)
(* the other machine's probes, although the port ranges overlap.           *)
(***************************************************************************)
NoEchoLoop == \A s \in echoed : s.kind = "probe"

(***************************************************************************)
(* A probe that was never written is not left waiting for its answer, so   *)
(* it cannot turn into a loss, whatever is read later; only a deadline     *)
(* that cannot be set leaves one behind (Stat.Delete).                     *)
(***************************************************************************)
UnsentNotCounted ==
  \A x \in unsent : stats[x[1]][x[2]] # "sent"

(***************************************************************************)
(* "Max packets to send" (README.md:89): a run of sonar hands Count probes *)
(* to the statistics and no more, over all its peers, and stops at the     *)
(* limit only when it has.                                                 *)
(***************************************************************************)
CountIsExact ==
  Sonar /\ conf.count > 0 =>
    /\ Cardinality(puts) <= conf.count
    /\ ret = "limit" /\ ~ conf.timed => Cardinality(puts) = conf.count

(***************************************************************************)
(* "giving stats time to collect final results" (sonar/client/client.go:   *)
(* 259): when sonar returns at its limit every answer that came has been   *)
(* read, unless the wait was cut short by a signal.                        *)
(***************************************************************************)
LimitDrains ==
  [][Sonar /\ ret # ret' /\ ret' = "limit" /\ ~ ctx => Pending = {}]_vars

(***************************************************************************)
(* Once the send loop has ended no reader is left behind, although one may *)
(* be blocked in a read: sonar's and evr's end with the run, kuiniu's with *)
(* the signal (closeReadConns, readLoop).                                  *)
(***************************************************************************)
ReadersEnd ==
  (ret \in {"limit", "cancelled"} /\ (tool = "kuiniu" => ctx))
    ~> (\A r \in Readers : reader[r] # "reading")
=============================================================================
