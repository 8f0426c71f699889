------------------------------- MODULE Prober -------------------------------
(***************************************************************************)
(* The probers that share one shape: ping and ping6 (ICMP echo over one    *)
(* raw socket) and lidar (TCP SYN).  A sender walks over the targets round *)
(* by round until it is cancelled or a limit is reached, a receiver reads  *)
(* the socket and must find the target and the probe of every answer, and  *)
(* Run ends with whoever ends first (ping, ping6) or with the sender       *)
(* (lidar).  The windows of the statistics are the subject of Stat: here a *)
(* target has one entry per sequence number.                               *)
(***************************************************************************)
EXTENDS Naturals, Sequences

CONSTANTS
  Tools,               \* the programs considered
  N,                   \* number of targets
  Pid,                 \* os.Getpid() & 0xFFFF
  Word,                \* values of an ICMP identifier or sequence number
  AckWord, LongWord,   \* values of lidar's number on the wire, in the program
  SeqStarts,           \* where rand.Int63() may start a target's numbers
  Confs,               \* the limits considered: Count and a SendDuration
  Delay, ReadTimeout,  \* conf.Delay and the timeout of a read that has one
  ServerPort, SrcPort, PortCount, PortWord,    \* lidar's ports, a uint16
  MaxRounds,           \* bound: rounds the sender makes
  NoiseSeq             \* bound: sequence number of the foreign packets

ASSUME ProberAssumption ==
  /\ Tools \subseteq {"ping", "ping6", "lidar"}
  /\ N \in Nat \ {0} /\ Pid \in Nat /\ Word \in Nat /\ N < Word /\ Word % 4 = 0
  /\ AckWord \in Nat \ {0} /\ LongWord \in Nat /\ AckWord <= LongWord
  /\ SeqStarts \subseteq Nat
  /\ Delay \in Nat /\ ReadTimeout \in Nat
  /\ MaxRounds \in Nat
  /\ ServerPort \in Nat /\ SrcPort \in Nat /\ PortCount \in Nat \ {0}
  /\ PortWord \in Nat \ {0}
  /\ NoiseSeq \in 0 .. Word - 1

VARIABLES
  tool, conf,  \* the program and its limits
  spc, at,     \* the sender: next step, target it is at
  rpc,         \* the receiver: next step
  seq,         \* target.seq of ping; seq[0] is Scanner.seq of lidar, which
               \* counts the probes tried (and bounds them here for ping too)
  port,        \* lidar: Scanner.currentPort
  count,       \* probes sent, over all targets
  stats,       \* per target and sequence number: what its Stat knows
  ctx, stop,   \* is the context cancelled, is stopCh closed
  conn,        \* the socket: "none", "open" or "closed"
  timers,      \* ticks left of the receiver's read and of the sender's sleep
  done, ret,   \* the channel Run waits on, and what Run has returned
  net,         \* packets the socket will deliver
  arrived,     \* history: answers to our probes that were read
  strays,      \* history: packets counted that answer no probe of ours
  fault        \* history: the socket could not be opened or failed

sender == <<spc, at, seq, port, count>>
vars == <<tool, conf, sender, rpc, stats, ctx, stop, conn, timers, done, ret,
          net, arrived, strays, fault>>

Targets == 1 .. N
Words == 0 .. Word - 1
Echo == tool \in {"ping", "ping6"}

(***************************************************************************)
(* How many numbers an answer can carry back, and every number an entry of *)
(* the statistics can have: lidar's own numbers are wider than the ones    *)
(* that come back.                                                         *)
(***************************************************************************)
Wire == IF Echo THEN Word ELSE AckWord
Keys == Words \cup (0 .. AckWord - 1) \cup (0 .. N * MaxRounds)

-----------------------------------------------------------------------------
(* packets                                                                 *)

(***************************************************************************)
(* NewPinger gives each target an ICMP identifier of its own.              *)
(***************************************************************************)
IcmpID(t) == (Pid + t - 1) % Word

\* The salt pattern of a sequence number, and one no pattern equals.
Salt(n) == n % 4
BadSalt == 4

(***************************************************************************)
(* What comes back for probe n of target t unless it is lost: an echo      *)
(* with the payload as sent or with a bit flipped, a SYN-ACK or an RST.    *)
(* kind and n say what the answer really is; the programs do not see them. *)
(***************************************************************************)
EchoAnswer(t, n, kind) ==
  [type |-> "reply", src |-> t, id |-> IcmpID(t), seq |-> n % Word,
   salt |-> IF kind = "ok" THEN Salt(n) ELSE BadSalt, full |-> TRUE,
   n |-> n, kind |-> kind]

EchoAnswer6(t, n, kind) == EchoAnswer(t, n, kind)

SynAnswer(t, n, p, kind) ==
  [type |-> kind, src |-> t, sport |-> ServerPort, dport |-> p,
   ack |-> (n + 1) % AckWord, n |-> n, kind |-> kind]

(***************************************************************************)
(* Packets the socket also delivers.  To ping and ping6: an ICMP error, a  *)
(* reply with an identifier nobody here has, one with our identifier from  *)
(* the wrong host, and the reply to another process that pings the same    *)
(* host with the same identifier, of our size or not.  To lidar: segments  *)
(* for ports that are not the prober's, and segments of any host (0 is no  *)
(* target) for ports that are.                                             *)
(***************************************************************************)
Reply(t, id, salt, full) ==
  [type |-> "reply", src |-> t, id |-> id, seq |-> NoiseSeq, salt |-> salt,
   full |-> full, kind |-> "noise"]

EchoNoise ==
  {[type |-> "error", src |-> 1, kind |-> "noise"],
   Reply(1, (Pid + N) % Word, BadSalt, TRUE)}
  \cup {Reply(t, IcmpID(1), Salt(NoiseSeq), TRUE) : t \in Targets \ {1}}
  \cup {Reply(1, IcmpID(1), BadSalt, full) : full \in BOOLEAN}

Segment(type, sport, dport) ==
  [type |-> type, src |-> 0, sport |-> sport, dport |-> dport,
   ack |-> NoiseSeq % AckWord, kind |-> "noise"]

SynNoise ==
  {Segment("ok", p[1], p[2]) :
     p \in {<<ServerPort + 1, SrcPort>>, <<ServerPort, SrcPort - 1>>,
            <<ServerPort, SrcPort + PortCount>>}}
  \cup {Segment(type, ServerPort, SrcPort) : type \in {"ok", "rst", "other"}}

Noise == IF Echo THEN EchoNoise ELSE SynNoise

-----------------------------------------------------------------------------
(* what the receiver makes of a packet: the target and the number it is    *)
(* filed under, and the verdict                                            *)

None == [found |-> FALSE]
Filed(t, k, v) == [found |-> TRUE, target |-> t, key |-> k, verdict |-> v]

findTargetByICMPID(id) == {t \in Targets : IcmpID(t) = id}

\* A payload of another size than ours is not compared.
Bitflip(p) == p.full /\ p.salt # Salt(p.seq)

\* Variant: the source address is not compared.
AnySource(p) ==
  IF findTargetByICMPID(p.id) = {} THEN None
  ELSE Filed(CHOOSE t \in findTargetByICMPID(p.id) : TRUE, p.seq,
             IF Bitflip(p) THEN "flip" ELSE "ok")

(***************************************************************************)
(* The identifier names the target, which must be the one that answers;    *)
(* a payload of our size is compared with the salt of the sequence number  *)
(* received.                                                               *)
(***************************************************************************)
handleEchoReply(p) ==
  LET ts == {t \in findTargetByICMPID(p.id) : t = p.src}
  IN  IF ts = {} THEN None
      ELSE Filed(CHOOSE t \in ts : TRUE, p.seq,
                 IF Bitflip(p) THEN "flip" ELSE "ok")

processPacket(p) == IF p.type = "reply" THEN handleEchoReply(p) ELSE None

(***************************************************************************)
(* ping6 takes the source from the socket address.                         *)
(***************************************************************************)
handleEchoReply6(p) == handleEchoReply(p)

processPacket6(p) == IF p.type = "reply" THEN handleEchoReply6(p) ELSE None

\* Variant: the last port of the range is rejected.
FilterShort(p) ==
  /\ p.sport = ServerPort
  /\ p.dport >= SrcPort
  /\ ~ (p.dport >= (SrcPort + PortCount - 1) % PortWord)

(***************************************************************************)
(* The BPF program of the capture socket.  The end of the range is a sum   *)
(* of two uint16.                                                          *)
(***************************************************************************)
buildBPFProbeFilter(p) ==
  /\ p.sport = ServerPort
  /\ p.dport >= SrcPort
  /\ ~ (p.dport >= (SrcPort + PortCount) % PortWord)

(***************************************************************************)
(* lidar files a SYN-ACK or an RST by its acknowledgement number alone,    *)
(* whatever host it comes from: the targets take turns, so the number      *)
(* gives the target.  The number is a uint32 widened to a uint64, from     *)
(* which seqStart, 0, and 1 are subtracted.  Other segments are ignored.   *)
(***************************************************************************)
processParsedPacket(p) ==
  LET s == (p.ack + AckWord - 1) % AckWord
  IN  IF \/ ~ buildBPFProbeFilter(p)
         \/ p.sport # ServerPort
         \/ p.dport < SrcPort \/ p.dport >= SrcPort + PortCount
         \/ p.type \notin {"ok", "rst"}
      THEN None
      ELSE Filed((((s + LongWord - 1) % LongWord) % N) + 1, s, p.type)

Outcome(p) ==
  CASE tool = "ping"  -> processPacket(p)
    [] tool = "ping6" -> processPacket6(p)
    [] tool = "lidar" -> processParsedPacket(p)

-----------------------------------------------------------------------------
Init ==
  /\ tool \in Tools /\ conf \in Confs
  /\ spc = "open" /\ at = 1 /\ rpc = "none"
  /\ \E s \in SeqStarts : seq = [t \in 0 .. N |-> IF t = 0 THEN 0 ELSE s]
  /\ port = SrcPort /\ count = 0
  /\ stats = [t \in Targets |-> [k \in Keys |-> "none"]]
  /\ ctx = FALSE /\ stop = FALSE /\ conn = "none"
  /\ timers = [read |-> 0, sleep |-> 0]
  /\ done = <<>> /\ ret = "running"
  /\ \E p \in Noise : net = {p}
  /\ arrived = {} /\ strays = {} /\ fault = FALSE

(***************************************************************************)
(* Run opens the socket and starts the goroutines, or gives up.  A failure *)
(* in ping after the socket was made leaves it open.                       *)
(***************************************************************************)
Opened ==
  /\ spc' = "top" /\ rpc' = "check" /\ conn' = "open"
  /\ UNCHANGED <<ret, fault>>

OpenFails(left) ==
  /\ spc' = "done" /\ conn' \in left /\ ret' = "error" /\ fault' = TRUE
  /\ UNCHANGED rpc

OpenConn  == tool = "ping"  /\ (Opened \/ OpenFails({"none", "open"}))
OpenConn6 == tool = "ping6" /\ (Opened \/ OpenFails({"none"}))
OpenScan  == tool = "lidar" /\ (Opened \/ OpenFails({"none"}))

Open ==
  /\ spc = "open"
  /\ (OpenConn \/ OpenConn6 \/ OpenScan)
  /\ UNCHANGED <<tool, conf, at, seq, port, count, stats, ctx, stop, timers,
                 done, net, arrived, strays>>

-----------------------------------------------------------------------------
(* the sender                                                              *)

CountReached == conf.count > 0 /\ count >= conf.count

LimitReached == ctx \/ CountReached \/ conf.timed

\* Variant: the context is not looked at.
NoCancel ==
  /\ CountReached \/ conf.timed
  /\ stop' = TRUE /\ spc' = "sleep" /\ timers' = [timers EXCEPT !.sleep = Delay]

\* Variant: the receiver is stopped after the delay.
SleepThenStop ==
  /\ LimitReached
  /\ spc' = "sleep" /\ timers' = [timers EXCEPT !.sleep = Delay]
  /\ UNCHANGED stop

(***************************************************************************)
(* The context, the count or the duration ends the loop: the receiver is   *)
(* stopped first, then the sender sleeps for the delay.                    *)
(***************************************************************************)
Finish ==
  /\ LimitReached
  /\ stop' = TRUE /\ spc' = "sleep" /\ timers' = [timers EXCEPT !.sleep = Delay]

SendStop ==
  /\ spc = "top" /\ Finish
  /\ UNCHANGED <<tool, conf, at, seq, port, count, rpc, stats, ctx, conn, done,
                 ret, net, arrived, strays, fault>>

(***************************************************************************)
(* Otherwise the rate limiter is asked for the next round; a cancelled     *)
(* context makes lidar's Wait fail, and the loop starts over.              *)
(***************************************************************************)
SendTake ==
  /\ \/ /\ spc = "top" /\ ~ ctx /\ ~ CountReached
        /\ seq[0] < N * MaxRounds
        /\ spc' = "take"
     \/ /\ spc = "take"
        /\ spc' \in IF tool = "lidar" /\ ctx THEN {"top"} ELSE {"send"}
  /\ UNCHANGED <<tool, conf, at, seq, port, count, rpc, stats, ctx, stop, conn,
                 timers, done, ret, net, arrived, strays, fault>>

NextPort ==
  LET p == (port + 1) % PortWord
  IN  IF p >= (SrcPort + PortCount) % PortWord THEN SrcPort ELSE p

\* Variant: the walk over the targets does not start over.
NextTargetRunsOn ==
  /\ at' = at + 1
  /\ spc' = IF at = N THEN "top" ELSE "send"
  /\ port' = IF tool = "lidar" /\ at = N THEN NextPort ELSE port

(***************************************************************************)
(* On to the next target; after the last one lidar moves its source port.  *)
(***************************************************************************)
NextTarget ==
  /\ at' = (at % N) + 1
  /\ spc' = IF at = N THEN "top" ELSE "send"
  /\ port' = IF tool = "lidar" /\ at = N THEN NextPort ELSE port

(***************************************************************************)
(* The packet cannot be built or written: the number is used up all the    *)
(* same.                                                                   *)
(***************************************************************************)
Unsent ==
  /\ NextTarget
  /\ UNCHANGED net

(***************************************************************************)
(* The packet goes out; the answer is on its way.  One that is never read  *)
(* is as good as lost.                                                     *)
(***************************************************************************)
Sent(answers) ==
  /\ conn = "open"
  /\ spc' = "put"
  /\ net' \in {net \cup {a} : a \in answers}
  /\ UNCHANGED <<at, port>>

serveSend ==
  LET n == seq[at] + 1
  IN  /\ tool = "ping"
      /\ seq' = [seq EXCEPT ![at] = n, ![0] = @ + 1]
      /\ Unsent \/ Sent({EchoAnswer(at, n, k) : k \in {"ok", "flip"}})

serveSend6 ==
  LET n == seq[at] + 1
  IN  /\ tool = "ping6"
      /\ seq' = [seq EXCEPT ![at] = n, ![0] = @ + 1]
      /\ Unsent \/ Sent({EchoAnswer6(at, n, k) : k \in {"ok", "flip"}})

Scan ==
  LET n == seq[0] + 1
  IN  /\ tool = "lidar"
      /\ seq' = [seq EXCEPT ![0] = n]
      /\ Unsent \/ Sent({SynAnswer(at, n, port, k) : k \in {"ok", "rst"}})

SendProbe ==
  /\ spc = "send"
  /\ (serveSend \/ serveSend6 \/ Scan)
  /\ UNCHANGED <<tool, conf, count, rpc, stats, ctx, stop, conn, timers, done,
                 ret, arrived, strays, fault>>

(***************************************************************************)
(* The number the probe is recorded under: ping masks it to the width it   *)
(* has on the wire.                                                        *)
(***************************************************************************)
Key == IF Echo THEN seq[at] % Word ELSE seq[0]

(***************************************************************************)
(* Stat.Put, after the probe went out: an answer may have been faster.     *)
(***************************************************************************)
PutProbe ==
  /\ spc = "put"
  /\ stats' = [stats EXCEPT ![at][Key] = IF @ = "none" THEN "sent" ELSE @]
  /\ count' = count + 1
  /\ NextTarget
  /\ UNCHANGED <<tool, conf, seq, rpc, ctx, stop, conn, timers, done, ret, net,
                 arrived, strays, fault>>

(***************************************************************************)
(* After the delay: lidar's Run returns, the sender of ping closes the     *)
(* socket and then reports to Run.                                         *)
(***************************************************************************)
SendReturn ==
  /\ \/ /\ spc = "sleep" /\ timers.sleep = 0
        /\ stop' = TRUE /\ conn' = "closed"
        /\ spc' = IF Echo THEN "closed" ELSE "done"
        /\ ret' = IF Echo THEN ret ELSE "nil"
        /\ UNCHANGED done
     \/ /\ spc = "closed"
        /\ spc' = "done" /\ done' = Append(done, "nil")
        /\ UNCHANGED <<stop, conn, ret>>
  /\ UNCHANGED <<tool, conf, at, seq, port, count, rpc, stats, ctx, timers,
                 net, arrived, strays, fault>>

-----------------------------------------------------------------------------
(* the receiver                                                            *)

(***************************************************************************)
(* The reads of ping6 and lidar time out.  ping sets the socket's receive  *)
(* timeout too, but reads through the runtime's poller without a deadline: *)
(* its read waits until there is a packet, a failure or a closed socket.   *)
(***************************************************************************)
TimesOut == tool # "ping"

(***************************************************************************)
(* The top of the loop: the receiver of ping that sees stopCh closed       *)
(* closes the socket and returns.                                          *)
(***************************************************************************)
RecvCheck ==
  /\ rpc = "check"
  /\ IF stop
     THEN /\ rpc' = IF Echo THEN "ended" ELSE "done"
          /\ conn' = IF Echo THEN "closed" ELSE conn
          /\ UNCHANGED timers
     ELSE /\ rpc' = "read"
          /\ timers' = IF TimesOut THEN [timers EXCEPT !.read = ReadTimeout]
                       ELSE timers
          /\ UNCHANGED conn
  /\ UNCHANGED <<tool, conf, sender, stats, ctx, stop, done, ret, net, arrived,
                 strays, fault>>

(***************************************************************************)
(* Stat.Received or ReceivedRST: the mark of an RST stays on its entry.    *)
(***************************************************************************)
Mark(old, verdict) == IF old = "rst" THEN old ELSE verdict

(***************************************************************************)
(* A packet is read and handled.                                           *)
(***************************************************************************)
RecvPacket(p) ==
  LET o == Outcome(p)
  IN  /\ rpc = "read" /\ conn = "open"
      /\ rpc' = "check" /\ net' = net \ {p}
      /\ stats' = IF o.found
                  THEN [stats EXCEPT ![o.target][o.key] = Mark(@, o.verdict)]
                  ELSE stats
      /\ IF p.kind = "noise"
         THEN /\ strays' = IF o.found THEN strays \cup {p} ELSE strays
              /\ UNCHANGED arrived
         ELSE /\ arrived' = arrived \cup {[target |-> p.src, n |-> p.n,
                                           kind |-> p.kind]}
              /\ UNCHANGED strays
      /\ UNCHANGED <<tool, conf, sender, ctx, stop, conn, timers, done, ret,
                     fault>>

(***************************************************************************)
(* A read that fails.  A timeout starts the loop over, and for lidar any   *)
(* error does; another error, such as a socket closed under the read, ends *)
(* the receiver of ping and ping6.                                         *)
(***************************************************************************)
serveRecv ==
  /\ tool = "ping" /\ rpc' = "failed" /\ conn' = "closed"

serveRecv6 ==
  /\ tool = "ping6" /\ rpc' = "failed" /\ conn' = "closed"

serveRecvScan ==
  /\ tool = "lidar" /\ rpc' = "check" /\ UNCHANGED conn

RecvError ==
  /\ rpc = "read"
  /\ \/ /\ TimesOut /\ timers.read = 0
        /\ rpc' = "check" /\ UNCHANGED <<conn, fault>>
     \/ /\ (serveRecv \/ serveRecv6 \/ serveRecvScan)
        /\ fault' = (fault \/ conn = "open")
  /\ UNCHANGED <<tool, conf, sender, stats, ctx, stop, timers, done, ret, net,
                 arrived, strays>>

RecvReturn ==
  /\ rpc \in {"ended", "failed"}
  /\ rpc' = "done"
  /\ done' = Append(done, IF rpc = "ended" THEN "nil" ELSE "error")
  /\ UNCHANGED <<tool, conf, sender, stats, ctx, stop, conn, timers, ret, net,
                 arrived, strays, fault>>

-----------------------------------------------------------------------------
(* Run and the world                                                       *)

(***************************************************************************)
(* "return <-done": the first goroutine to end decides what Run returns.   *)
(***************************************************************************)
RunReturns ==
  /\ done # <<>>
  /\ ret' = Head(done) /\ conn' = "closed"
  /\ UNCHANGED <<tool, conf, sender, rpc, stats, ctx, stop, timers, done, net,
                 arrived, strays, fault>>

(***************************************************************************)
(* SIGINT or SIGTERM.                                                      *)
(***************************************************************************)
Cancel ==
  /\ ~ ctx /\ ctx' = TRUE
  /\ UNCHANGED <<tool, conf, sender, rpc, stats, stop, conn, timers, done, ret,
                 net, arrived, strays, fault>>

(***************************************************************************)
(* Time passes: the programs take their steps promptly, only reads, sleeps *)
(* and the rate limiter wait.                                              *)
(***************************************************************************)
ReadEnds == rpc = "read" /\ IF TimesOut THEN timers.read = 0
                              ELSE conn = "closed"

Due == \/ ReadEnds
       \/ spc = "sleep" /\ timers.sleep = 0
       \/ rpc \in {"check", "ended", "failed"}
       \/ spc = "closed"

Tick ==
  /\ ~ Due
  /\ timers' = [read  |-> IF rpc = "read" /\ TimesOut THEN timers.read - 1
                          ELSE timers.read,
                sleep |-> IF spc = "sleep" THEN timers.sleep - 1
                          ELSE timers.sleep]
  /\ UNCHANGED <<tool, conf, sender, rpc, stats, ctx, stop, conn, done, ret,
                 net, arrived, strays, fault>>

Running == ret = "running"

Step ==
  \/ Open \/ SendStop \/ SendTake \/ SendProbe \/ PutProbe \/ SendReturn
  \/ RecvCheck \/ (\E p \in net : RecvPacket(p)) \/ RecvError \/ RecvReturn
  \/ RunReturns \/ Cancel \/ Tick

\* The process has ended.
Exited == ~ Running /\ UNCHANGED vars

Next == (Running /\ Step) \/ Exited

(***************************************************************************)
(* Every goroutine that can take a step takes it: the Go scheduler is      *)
(* fair, the rate limiter hands out tokens and time passes.  Nobody has to *)
(* send a signal.                                                          *)
(***************************************************************************)
Fairness ==
  /\ WF_vars(Running /\ (Open \/ SendStop \/ SendTake \/ SendProbe \/ PutProbe
                         \/ SendReturn))
  /\ WF_vars(Running /\ (RecvCheck \/ RecvReturn \/ (ReadEnds /\ RecvError)))
  /\ WF_vars(Running /\ RunReturns)
  /\ WF_vars(Running /\ Tick)

Spec == Init /\ [][Next]_vars /\ Fairness

-----------------------------------------------------------------------------
Verdicts == {"none", "sent", "ok", "flip", "rst"}

TypeOK ==
  /\ tool \in Tools /\ conf \in Confs
  /\ spc \in {"open", "top", "take", "send", "put", "sleep", "closed", "done"}
  /\ at \in Targets
  /\ rpc \in {"none", "check", "read", "ended", "failed", "done"}
  /\ seq \in [0 .. N -> Nat] /\ port \in Nat /\ count \in Nat
  /\ stats \in [Targets -> [Keys -> Verdicts]]
  /\ ctx \in BOOLEAN /\ stop \in BOOLEAN /\ fault \in BOOLEAN
  /\ conn \in {"none", "open", "closed"}
  /\ timers \in [read : 0 .. ReadTimeout, sleep : 0 .. Delay]
  /\ done \in Seq({"nil", "error"}) /\ ret \in {"running", "nil", "error"}

(***************************************************************************)
(* A packet that is no answer but has all the marks the program looks for: *)
(* ping and ping6 compare host, identifier and number; lidar compares two  *)
(* ports and takes the host's place in the turns from the number.  It      *)
(* carries a verdict like an answer.                                       *)
(***************************************************************************)
Resembles(p, t, k) ==
  IF Echo
  THEN p.type = "reply" /\ p.src = t /\ p.id = IcmpID(t) /\ p.seq = k
  ELSE /\ p.type \in {"ok", "rst"} /\ p.sport = ServerPort
       /\ p.dport \in SrcPort .. SrcPort + PortCount - 1
       /\ k < AckWord /\ p.ack = (k + 1) % AckWord
       /\ k > 0 => t = ((k - 1) % N) + 1

Carries(p) == IF Echo THEN IF Bitflip(p) THEN "flip" ELSE "ok" ELSE p.type

(***************************************************************************)
(* What counts was read: an answer counts under the number it carries back *)
(* and, unless that number has wrapped around lidar's 32 bits, for the     *)
(* target that gave it, with its verdict, however late it comes; otherwise *)
(* there was a packet that has every mark of that probe's answer           *)
(* (handleEchoReply, processParsedPacket).                                 *)
(***************************************************************************)
OnlyRealAnswers ==
  \A t \in Targets, k \in Keys :
    stats[t][k] \notin {"none", "sent"} =>
      \/ \E a \in arrived : /\ a.n % Wire = k /\ a.kind = stats[t][k]
                            /\ Echo \/ a.n < AckWord => a.target = t
      \/ \E p \in strays : Resembles(p, t, k) /\ Carries(p) = stats[t][k]

(***************************************************************************)
(* The end of lidar's port range fits its uint16, and the probes so far    *)
(* have not used up the numbers an answer can carry.                       *)
(***************************************************************************)
RangeBelowEnd == SrcPort + PortCount < PortWord
Unwrapped == seq[0] < Wire

(***************************************************************************)
(* No answer that is read is lost: not by the filter of the capture, not   *)
(* by the lookup of its target, not because it overtook Stat.Put.  Only a  *)
(* packet with every mark of the same answer can hide its verdict.  This   *)
(* needs a port range that ends below the last port and numbers that have  *)
(* not come round again.                                                   *)
(***************************************************************************)
NoAnswerLost ==
  RangeBelowEnd /\ Unwrapped =>
    \A a \in arrived :
      \/ stats[a.target][a.n % Wire] = a.kind
      \/ \E p \in strays : Resembles(p, a.target, a.n % Wire)

(***************************************************************************)
(* A run that is cancelled or reaches a limit returns an error, although   *)
(* the socket never failed, only in ping and only because its sender       *)
(* closed the socket, after the whole delay, under a read that had met no  *)
(* packet.  ping6 never does: its receiver has left the read before the    *)
(* socket is closed, as long as the read timeout is shorter than the delay *)
(* (Run, connOnce).                                                        *)
(***************************************************************************)
StopIsClean ==
  ret = "error" /\ ~ fault =>
    /\ tool = "ping" /\ stop
    /\ spc \in {"closed", "done"} /\ timers.sleep = 0

(***************************************************************************)
(* After a signal Run returns, whatever the limits and wherever the two    *)
(* loops are ("received signal, shutting down...", cmd/mping/main.go:149). *)
(***************************************************************************)
CancelEndsRun == ctx ~> ~ Running
=============================================================================
