---------------------------- MODULE TracerProofs ----------------------------
(***************************************************************************)
(* Theorems about a traceroute, for every process id, every configuration  *)
(* that passes Validate and every network: replies go to their hop.        *)
(***************************************************************************)
EXTENDS Traceroute, FiniteSetTheorems, SequenceTheorems, WellFoundedInduction,
        TLAPS

(***************************************************************************)
(* The probes of different hops carry different numbers: in the sequence   *)
(* number of an echo request, in the destination port of a UDP probe, or   *)
(* in its source port as long as a hop has no more than its 16 ports.      *)
(* TCP probes are told apart by no number, and neither are UDP probes with *)
(* both ports fixed.                                                       *)
(***************************************************************************)
Numbered ==
  \/ conf.proto = "icmp"
  \/ conf.proto = "udp" /\ ~ conf.fixedDst
  \/ conf.proto = "udp" /\ conf.srcPort = 0 /\ conf.queries <= 16

-----------------------------------------------------------------------------
(* the numbers on the wire                                                 *)

(***************************************************************************)
(* The values of a uint16.                                                 *)
(***************************************************************************)
LEMMA Uint16Bounds == \A x \in Uint16 : x \in Nat /\ x < 65536
BY SMT DEF Uint16

(***************************************************************************)
(* The values of a TTL.                                                    *)
(***************************************************************************)
LEMMA HopBounds == \A x \in 1 .. 255 : x \in Nat /\ x < 256
BY SMT

(***************************************************************************)
(* A sum of two 16 bit numbers wraps once.                                 *)
(***************************************************************************)
LEMMA Wrap16 ==
  ASSUME NEW x \in Nat, x < 131072
  PROVE  x % 65536 = IF x < 65536 THEN x ELSE x - 65536
BY SMT

(***************************************************************************)
(* The 30000 ephemeral ports fit into 16 bits twice, and some.             *)
(***************************************************************************)
LEMMA Wrap30000 ==
  ASSUME NEW x \in Nat, x < 90000
  PROVE  x % 30000 = IF x < 30000 THEN x
                     ELSE IF x < 60000 THEN x - 30000 ELSE x - 60000
BY SMT

(***************************************************************************)
(* The sequence number of an echo request holds the TTL in its high byte.  *)
(***************************************************************************)
EchoSeq(ttl, q) == ((ttl * 256) % 65536) + (q % 256)

(***************************************************************************)
(* So it tells the TTL.                                                    *)
(***************************************************************************)
LEMMA EchoNumbers ==
  ASSUME NEW s \in Nat, s < 256, NEW t \in Nat, t < 256,
         NEW i \in Nat, NEW j \in Nat, EchoSeq(s, i) = EchoSeq(t, j)
  PROVE  s = t
<1>1. (s * 256) % 65536 = s * 256 /\ (t * 256) % 65536 = t * 256
  BY SMT
<1>2. i % 256 \in 0 .. 255 /\ j % 256 \in 0 .. 255
  BY SMT
<1> QED BY <1>1, <1>2, SMT DEF EchoSeq

-----------------------------------------------------------------------------
(* the configuration and the probes                                        *)

ConfInv == conf \in Confs /\ Validate(conf)

(***************************************************************************)
(* What Validate and the types of a configuration give.                    *)
(***************************************************************************)
LEMMA ConfFacts ==
  ASSUME ConfInv
  PROVE  /\ conf.maxHops \in Nat /\ conf.maxHops < 256
         /\ conf.queries \in Nat
         /\ conf.port \in Nat /\ conf.port < 65536
         /\ conf.proto \in {"icmp", "udp", "tcp"}
         /\ Len(conf.targets) \in Nat
<1>1. conf \in Confs /\ Validate(conf)
  BY DEF ConfInv
<1>2. /\ conf.queries \in Nat /\ conf.maxHops \in Nat
      /\ conf.proto \in {"icmp", "udp", "tcp"}
  BY <1>1, TracerAssumption, Zenon
<1>3. conf.maxHops < 256
  <2>1. conf.maxHops \in 1 .. 255
    BY <1>1, SMT DEF Validate
  <2> QED BY <2>1, HopBounds, SMT
<1>4. conf.port \in Uint16
  BY <1>1, TracerAssumption, Zenon
<1>5. conf.port \in Nat /\ conf.port < 65536
  BY <1>4, Uint16Bounds
<1>6. conf.targets \in Seq(DOMAIN Dist)
  BY <1>1, TracerAssumption, Zenon
<1>7. Len(conf.targets) \in Nat
  BY <1>6, LenProperties
<1> QED BY <1>2, <1>3, <1>5, <1>7, SMT

(***************************************************************************)
(* The TTL of a probe and its number within the hop.                       *)
(***************************************************************************)
LEMMA ProbeFacts ==
  ASSUME ConfInv, NEW p \in Probes
  PROVE  /\ p[1] \in Targets /\ p[2] \in TTLs
         /\ p[2] \in Nat /\ p[2] < 256
         /\ p[3] \in Nat /\ p[3] < conf.queries
<1>1. conf.maxHops \in Nat /\ conf.maxHops < 256 /\ conf.queries \in Nat
  BY ConfFacts
<1>2. p[1] \in Targets /\ p[2] \in TTLs /\ p[3] \in 0 .. conf.queries - 1
  BY DEF Probes
<1>3. p[2] \in 1 .. conf.maxHops
  BY <1>2 DEF TTLs
<1> QED BY <1>1, <1>2, <1>3, SMT

(***************************************************************************)
(* The destination ports of 256 hops differ, also where they wrap.         *)
(***************************************************************************)
LEMMA DstPortNumbers ==
  ASSUME ConfInv, ~ conf.fixedDst, NEW s \in Nat, s < 256,
         NEW t \in Nat, t < 256, dstPort(s) = dstPort(t)
  PROVE  s = t
<1>0. PICK b \in Nat : b = conf.port /\ b < 65536
  BY ConfFacts
<1>1. PICK x \in Nat : x = b + s
  BY SMT
<1>2. PICK y \in Nat : y = b + t
  BY SMT
<1>3. x < 131072 /\ y < 131072
  BY <1>0, <1>1, <1>2, SMT
<1>4. (x % 65536 = x) \/ (x % 65536 = x - 65536)
  BY <1>3, Wrap16, SMT
<1>5. (y % 65536 = y) \/ (y % 65536 = y - 65536)
  BY <1>3, Wrap16, SMT
<1>6. x % 65536 = y % 65536
  BY <1>0, <1>1, <1>2, SMT DEF dstPort
<1> QED BY <1>1, <1>2, <1>4, <1>5, <1>6, SMT

(***************************************************************************)
(* The ephemeral source ports of 256 hops of up to 16 probes differ        *)
(* between hops: the ports repeat after 30000, or after 5536 where the 16  *)
(* bits wrap, and a trace has fewer than 4112 numbers.                     *)
(***************************************************************************)
LEMMA SrcPortNumbers ==
  ASSUME NEW s \in Nat, s < 256, NEW t \in Nat, t < 256,
         NEW i \in Nat, i < 16, NEW j \in Nat, j < 16,
         ephemeralSrcPort(s, i) = ephemeralSrcPort(t, j)
  PROVE  s = t
<1>0. PICK b \in Nat : b = Pid /\ b < 65536
  BY Uint16Bounds, TracerAssumption
<1>1. PICK x \in Nat : x = b + s * 16 + i
  BY SMT
<1>2. PICK y \in Nat : y = b + t * 16 + j
  BY SMT
<1>3. x < 131072 /\ y < 131072
  BY <1>0, <1>1, <1>2, SMT
<1>4. PICK v \in Nat : /\ v = x % 65536 /\ v < 65536
                       /\ (v = x) \/ (v = x - 65536)
  BY <1>3, Wrap16, SMT
<1>5. PICK w \in Nat : /\ w = y % 65536 /\ w < 65536
                       /\ (w = y) \/ (w = y - 65536)
  BY <1>3, Wrap16, SMT
<1>6. v % 30000 = w % 30000
  BY <1>0, <1>1, <1>2, <1>4, <1>5, SMT DEF ephemeralSrcPort
<1>7. \/ v = w \/ (v - w = 30000) \/ (v - w = 60000)
      \/ (w - v = 30000) \/ (w - v = 60000)
  BY <1>4, <1>5, <1>6, Wrap30000, SMT
<1> QED BY <1>0, <1>1, <1>2, <1>4, <1>5, <1>7, SMT

(***************************************************************************)
(* The numbers on a probe tell its hop (buildProbe).                       *)
(***************************************************************************)
LEMMA TagTellsHop ==
  ASSUME ConfInv, Numbered, NEW p \in Probes, NEW q \in Probes, Tag(p) = Tag(q)
  PROVE  TTL(p) = TTL(q)
<1>1. /\ p[2] \in Nat /\ p[2] < 256 /\ p[3] \in Nat /\ p[3] < conf.queries
      /\ q[2] \in Nat /\ q[2] < 256 /\ q[3] \in Nat /\ q[3] < conf.queries
  BY ProbeFacts
<1>2. CASE conf.proto = "icmp"
  <2>1. Tag(p)[2] = EchoSeq(p[2], p[3]) /\ Tag(q)[2] = EchoSeq(q[2], q[3])
    BY <1>2, SMT DEF Tag, buildProbe, buildProbe6, EchoSeq
  <2>2. EchoSeq(p[2], p[3]) = EchoSeq(q[2], q[3])
    BY <2>1
  <2> QED BY <1>1, <2>2, EchoNumbers, SMT DEF TTL
<1>3. CASE conf.proto = "udp" /\ ~ conf.fixedDst
  <2>1. Tag(p)[2] = dstPort(p[2]) /\ Tag(q)[2] = dstPort(q[2])
    BY <1>3, SMT DEF Tag, buildProbe, buildProbe6
  <2>2. dstPort(p[2]) = dstPort(q[2])
    BY <2>1
  <2> QED BY <1>1, <1>3, <2>2, DstPortNumbers, SMT DEF TTL
<1>4. CASE conf.proto = "udp" /\ conf.srcPort = 0 /\ conf.queries <= 16
  <2>1. Tag(p)[1] = srcPort(p[2], p[3]) /\ Tag(q)[1] = srcPort(q[2], q[3])
    BY <1>4, SMT DEF Tag, buildProbe, buildProbe6
  <2>2. /\ srcPort(p[2], p[3]) = ephemeralSrcPort(p[2], p[3])
        /\ srcPort(q[2], q[3]) = ephemeralSrcPort(q[2], q[3])
    BY <1>4, SMT DEF srcPort
  <2>3. ephemeralSrcPort(p[2], p[3]) = ephemeralSrcPort(q[2], q[3])
    BY <2>1, <2>2
  <2>4. conf.queries \in Nat
    BY ConfFacts
  <2>5. p[3] < 16 /\ q[3] < 16
    BY <1>1, <1>4, <2>4, SMT
  <2> QED BY <1>1, <2>3, <2>5, SrcPortNumbers, SMT DEF TTL
<1> QED BY <1>2, <1>3, <1>4 DEF Numbered

-----------------------------------------------------------------------------
(* packets and who takes them                                              *)

Addrs == Nat \cup DOMAIN Dist

(***************************************************************************)
(* What can be on the wire: the echo of another process, or the answer to  *)
(* a probe of ours, with the tag of that probe.                            *)
(***************************************************************************)
ForeignEcho(r) == r.kind = "echo" /\ r.tag[1] = ForeignPid

OwnAnswer(r) ==
  /\ r.of \in Probes /\ r.tag = Tag(r.of) /\ r.src \in Addrs
  /\ \/ /\ r.kind \in {"exceeded", "unreach"}
        /\ r.dst = DstOf(r.of) /\ r.cut \in {"full", "short"}
     \/ /\ r.kind = "echo" /\ conf.proto = "icmp"
        /\ r.src = DstOf(r.of) /\ TTL(r.of) >= Dist[DstOf(r.of)]
     \/ r.kind = "tcp" /\ conf.proto = "tcp"

NetInv == \A r \in net : ForeignEcho(r) \/ OwnAnswer(r)

(***************************************************************************)
(* What a probe has taken for its answer.                                  *)
(***************************************************************************)
TakenOK(p, r) ==
  /\ r # NoAnswer /\ r.src \in Addrs
  /\ Numbered => /\ r.of \in Probes
                 /\ TTL(r.of) = TTL(p) /\ DstOf(r.of) = DstOf(p)
  /\ conf.proto = "icmp" /\ r.kind \in {"echo", "tcp"}
       => TTL(p) >= Dist[DstOf(p)]

(***************************************************************************)
(* The address of a probe's target is one whose distance is known.         *)
(***************************************************************************)
LEMMA DstKnown ==
  ASSUME ConfInv, NEW p, p[1] \in Targets
  PROVE  DstOf(p) \in DOMAIN Dist /\ Dist[DstOf(p)] \in Nat
<1>1. conf.targets \in Seq(DOMAIN Dist)
  BY TracerAssumption, Zenon DEF ConfInv
<1>2. conf.targets[p[1]] \in DOMAIN Dist
  BY <1>1, ElementOfSeq DEF Targets
<1>3. Dist \in [DOMAIN Dist -> Nat]
  BY TracerAssumption, Zenon
<1> QED BY <1>2, <1>3 DEF DstOf

(***************************************************************************)
(* What a probe can meet is such an answer.                                *)
(***************************************************************************)
LEMMA AnswersAreOwn ==
  ASSUME ConfInv, NEW p \in Probes, NEW r \in Answers(p)
  PROVE  OwnAnswer(r)
<1>1. p[1] \in Targets /\ p[2] \in Nat
  BY ProbeFacts
<1>2. DstOf(p) \in DOMAIN Dist /\ Dist[DstOf(p)] \in Nat
  BY <1>1, DstKnown
<1>3. TTL(p) \in Nat /\ Router(TTL(p)) \in Addrs /\ DstOf(p) \in Addrs
  BY <1>1, <1>2 DEF TTL, Router, Addrs
<1>4. CASE TTL(p) < Dist[DstOf(p)]
  <2>1. \/ \E c \in {"full", "short"} : r = Error("exceeded", Router(TTL(p)), p, c)
        \/ r = Error("unreach", Router(TTL(p)), p, "full")
    BY <1>4, Zenon DEF Answers
  <2> QED BY <1>3, <2>1 DEF Error, OwnAnswer
<1>5. CASE ~ (TTL(p) < Dist[DstOf(p)])
  <2>0. TTL(p) >= Dist[DstOf(p)]
    BY <1>2, <1>3, <1>5
  <2>1. conf.proto \in {"icmp", "udp", "tcp"}
    BY ConfFacts
  <2>2. CASE conf.proto = "icmp"
    <3>1. r = Direct("echo", p)
      BY <1>5, <2>2 DEF Answers
    <3> QED BY <1>3, <2>0, <2>2, <3>1 DEF Direct, OwnAnswer
  <2>3. CASE conf.proto = "udp"
    <3>1. r = Error("unreach", DstOf(p), p, "full")
      BY <1>5, <2>3 DEF Answers
    <3> QED BY <1>3, <3>1 DEF Error, OwnAnswer
  <2>4. CASE conf.proto = "tcp"
    <3>1. r = Direct("tcp", p)
      BY <1>5, <2>4 DEF Answers
    <3> QED BY <1>3, <2>4, <3>1 DEF Direct, OwnAnswer
  <2> QED BY <2>1, <2>2, <2>3, <2>4
<1> QED BY <1>4, <1>5

(***************************************************************************)
(* A matcher that accepts a packet has found the answer to a probe of its  *)
(* own hop and destination, and never the echo of another process.         *)
(***************************************************************************)
LEMMA MatchIsOwn ==
  ASSUME ConfInv, NEW p \in Probes, NEW r, ForeignEcho(r) \/ OwnAnswer(r),
         Matches(p, r)
  PROVE  TakenOK(p, r)
<1>1. buildMatcher(p, r)
  BY DEF Matches, buildMatcher, buildMatcher6, matchEmbedded6, echoIdentMatches6
<1>2. ~ ForeignEcho(r)
  <2> SUFFICES ASSUME ForeignEcho(r) PROVE FALSE
    OBVIOUS
  <2>1. conf.proto = "icmp" /\ r.tag = Tag(p)
    BY <1>1 DEF ForeignEcho, buildMatcher, echoIdentMatches
  <2>2. Tag(p)[1] = Pid
    BY <2>1, SMT DEF Tag, buildProbe, buildProbe6
  <2>3. ForeignPid # Pid
    BY TracerAssumption, Zenon
  <2> QED BY <2>1, <2>2, <2>3 DEF ForeignEcho
<1>3. OwnAnswer(r)
  BY <1>2
<1>4. r # NoAnswer /\ r.src \in Addrs
  <2>1. r.kind # "none"
    BY <1>3 DEF OwnAnswer
  <2> QED BY <1>3, <2>1 DEF OwnAnswer, NoAnswer
<1>5. CASE r.kind \in {"exceeded", "unreach"}
  <2>1. r.dst = DstOf(r.of) /\ r.cut \in {"full", "short"} /\ r.of \in Probes
        /\ r.tag = Tag(r.of)
    BY <1>3, <1>5 DEF OwnAnswer
  <2>2. matchEmbedded(p, r)
    BY <1>1, <1>5 DEF buildMatcher
  <2>3. DstOf(r.of) = DstOf(p) /\ Tag(r.of) = Tag(p)
    BY <2>1, <2>2 DEF matchEmbedded
  <2>4. Numbered => TTL(r.of) = TTL(p)
    BY <2>1, <2>3, TagTellsHop
  <2> QED BY <1>4, <1>5, <2>1, <2>3, <2>4 DEF TakenOK
<1>6. CASE r.kind = "echo"
  <2>1. /\ conf.proto = "icmp" /\ r.of \in Probes /\ r.tag = Tag(r.of)
        /\ r.src = DstOf(r.of) /\ TTL(r.of) >= Dist[DstOf(r.of)]
    BY <1>3, <1>6 DEF OwnAnswer
  <2>2. r.src = DstOf(p) /\ r.tag = Tag(p)
    BY <1>1, <1>6 DEF buildMatcher, echoIdentMatches
  <2>3. Numbered
    BY <2>1 DEF Numbered
  <2>4. TTL(r.of) = TTL(p)
    BY <2>1, <2>2, <2>3, TagTellsHop
  <2> QED BY <1>4, <2>1, <2>2, <2>4 DEF TakenOK
<1>7. CASE r.kind = "tcp"
  <2>1. conf.proto = "tcp"
    BY <1>3, <1>7 DEF OwnAnswer
  <2> QED BY <1>4, <2>1 DEF TakenOK, Numbered
<1> QED BY <1>3, <1>5, <1>6, <1>7 DEF OwnAnswer

-----------------------------------------------------------------------------
(* every answer belongs to its hop                                         *)

AnswerInv ==
  /\ DOMAIN answer = Probes
  /\ \A p \in Probes : answer[p] = NoAnswer \/ TakenOK(p, answer[p])

MatchInv == ConfInv /\ NetInv /\ AnswerInv

(***************************************************************************)
(* The program and its Config do not change while it runs.                 *)
(***************************************************************************)
LEMMA ConfStable ==
  ASSUME UNCHANGED <<tool, conf>>
  PROVE  /\ Probes' = Probes /\ Targets' = Targets /\ TTLs' = TTLs
         /\ ConfInv' <=> ConfInv
         /\ \A r : OwnAnswer(r)' <=> OwnAnswer(r)
         /\ \A p, r : TakenOK(p, r)' <=> TakenOK(p, r)
<1>1. Probes' = Probes /\ Targets' = Targets /\ TTLs' = TTLs
  BY DEF Probes, Targets, TTLs
<1>2. ConfInv' <=> ConfInv
  BY Zenon DEF ConfInv
<1>3. ASSUME NEW r PROVE OwnAnswer(r)' <=> OwnAnswer(r)
  <2>1. Tag(r.of)' = Tag(r.of)
    BY SMT DEF Tag, buildProbe, buildProbe6, srcPort, ephemeralSrcPort, dstPort
  <2>2. DstOf(r.of)' = DstOf(r.of)
    BY DEF DstOf
  <2> QED BY <1>1, <2>1, <2>2 DEF OwnAnswer
<1>4. ASSUME NEW p, NEW r PROVE TakenOK(p, r)' <=> TakenOK(p, r)
  <2>1. DstOf(r.of)' = DstOf(r.of) /\ DstOf(p)' = DstOf(p)
    BY DEF DstOf
  <2>2. Numbered' <=> Numbered
    BY DEF Numbered
  <2> QED BY <1>1, <2>1, <2>2 DEF TakenOK
<1> QED BY <1>1, <1>2, <1>3, <1>4

(***************************************************************************)
(* What a step does to the packets and the answers.                        *)
(***************************************************************************)
LEMMA NetAndAnswerSteps ==
  ASSUME [Next]_vars
  PROVE  /\ UNCHANGED <<tool, conf>>
         /\ \/ UNCHANGED <<net, answer>>
            \/ net' = {} /\ UNCHANGED answer
            \/ \E p \in Probes : SendProbe(p)
            \/ \E r \in net : Capture(r)
            \/ \E p \in Probes : ProbeDone(p)
<1>1. CASE UNCHANGED vars
  BY <1>1 DEF vars, tvars, traced
<1>2. CASE phase = "trace" /\ TStep /\ UNCHANGED evars
  BY <1>2 DEF TStep, StartTarget, SendProbe, ProbeDone, Capture, TargetDone
<1>3. CASE WaitTargets
  BY <1>3 DEF WaitTargets
<1>4. CASE ResolveNames
  BY <1>4 DEF ResolveNames, tvars, traced
<1>5. CASE AskProviders
  BY <1>5 DEF AskProviders, tvars, traced
<1> QED BY <1>1, <1>2, <1>3, <1>4, <1>5 DEF Next, Step

(***************************************************************************)
(* The invariant holds when Run starts.                                    *)
(***************************************************************************)
LEMMA MatchInit == Init => MatchInv
<1> SUFFICES ASSUME Init PROVE MatchInv
  OBVIOUS
<1> USE DEF Init
<1>1. ConfInv
  BY Zenon DEF TInit, ConfInv, Validate6
<1>2. NetInv
  <2> SUFFICES ASSUME NEW r \in net PROVE ForeignEcho(r)
    BY DEF NetInv
  <2>1. r = Foreign(<<1, 1, 0>>)
    BY DEF TInit
  <2>2. 1 \in DOMAIN Tag(<<1, 1, 0>>)
    <3>1. conf.proto \in {"icmp", "udp", "tcp"}
      BY <1>1, ConfFacts
    <3> QED BY <3>1, SMT DEF Tag, buildProbe, buildProbe6
  <2> QED BY <2>1, <2>2 DEF Foreign, Direct, ForeignEcho
<1>3. AnswerInv
  BY DEF TInit, AnswerInv
<1> QED BY <1>1, <1>2, <1>3 DEF MatchInv

(***************************************************************************)
(* Sending, capturing and reporting keep it.                               *)
(***************************************************************************)
LEMMA MatchStep == MatchInv /\ [Next]_vars => MatchInv'
<1> SUFFICES ASSUME MatchInv, [Next]_vars PROVE MatchInv'
  OBVIOUS
<1> USE DEF MatchInv
<1>0. UNCHANGED <<tool, conf>>
  BY NetAndAnswerSteps
<1>1. /\ Probes' = Probes /\ ConfInv'
      /\ \A r : OwnAnswer(r)' <=> OwnAnswer(r)
      /\ \A p, r : TakenOK(p, r)' <=> TakenOK(p, r)
  BY <1>0, ConfStable
<1>2. ASSUME net' \subseteq net PROVE NetInv'
  BY <1>1, <1>2 DEF NetInv, ForeignEcho
<1>3. ASSUME UNCHANGED answer PROVE AnswerInv'
  BY <1>1, <1>3 DEF AnswerInv
<1>4. CASE UNCHANGED <<net, answer>>
  BY <1>1, <1>2, <1>3, <1>4
<1>5. CASE net' = {} /\ UNCHANGED answer
  BY <1>1, <1>2, <1>3, <1>5
<1>6. ASSUME NEW p \in Probes, SendProbe(p) PROVE MatchInv'
  <2>1. PICK a \in Answers(p) : net' = net \cup {a}
    BY <1>6 DEF SendProbe
  <2>2. OwnAnswer(a)
    BY AnswersAreOwn
  <2>3. NetInv'
    BY <1>1, <2>1, <2>2 DEF NetInv, ForeignEcho
  <2>4. UNCHANGED answer
    BY <1>6 DEF SendProbe
  <2> QED BY <1>1, <1>3, <2>3, <2>4
<1>7. ASSUME NEW r \in net, Capture(r) PROVE MatchInv'
  <2>1. net' \subseteq net
    BY <1>7 DEF Capture
  <2>2. ForeignEcho(r) \/ OwnAnswer(r)
    BY DEF NetInv
  <2>3. /\ DOMAIN answer' = Probes
        /\ \A p \in Probes : \/ answer'[p] = answer[p]
                             \/ answer'[p] = r /\ Matches(p, r)
    BY <1>7 DEF Capture
  <2>4. \A p \in Probes : answer'[p] = NoAnswer \/ TakenOK(p, answer'[p])
    BY <2>2, <2>3, MatchIsOwn DEF AnswerInv
  <2>5. AnswerInv'
    BY <1>1, <2>3, <2>4 DEF AnswerInv
  <2> QED BY <1>1, <1>2, <2>1, <2>5
<1>8. ASSUME NEW p \in Probes, ProbeDone(p) PROVE MatchInv'
  <2>1. answer' = [answer EXCEPT ![p] = NoAnswer] /\ UNCHANGED net
    BY <1>8 DEF ProbeDone
  <2>2. AnswerInv'
    BY <1>1, <2>1 DEF AnswerInv
  <2> QED BY <1>1, <1>2, <2>1, <2>2
<1> QED BY <1>4, <1>5, <1>6, <1>7, <1>8, NetAndAnswerSteps

(***************************************************************************)
(* A reply is taken only by probes of the hop and of the destination that  *)
(* caused it, whatever the order in which the packets of all the targets   *)
(* arrive and however late, as long as the probes are numbered.            *)
(***************************************************************************)
THEOREM RepliesGoToTheirHop == Spec => [](Numbered => AnswersMatchHop)
<1>1. MatchInv => (Numbered => AnswersMatchHop)
  BY DEF MatchInv, AnswerInv, TakenOK, AnswersMatchHop
<1> QED BY <1>1, MatchInit, MatchStep, PTL DEF Spec

-----------------------------------------------------------------------------
(* every path is whole                                                     *)

Result == [from : Addrs, timedOut : BOOLEAN, reached : BOOLEAN]
HopType == [probes : Seq(Result), addrs : Seq(Addrs)]

ProbeStates == {"none", "queued", "flying", "answered", "done"}

ProbeInv ==
  /\ probe \in [Probes -> ProbeStates]
  /\ \A p \in Probes : probe[p] = "answered" => answer[p] # NoAnswer

(***************************************************************************)
(* Probes are made when Run comes to their target, and a target is traced  *)
(* when its probes are done.                                               *)
(***************************************************************************)
TargetInv ==
  /\ DOMAIN target = Targets /\ turn \in Nat
  /\ \A t \in Targets :
       /\ turn <= t => target[t] = "todo"
       /\ target[t] \in {"todo", "tracing", "traced", "invalid"}
       /\ target[t] \in {"todo", "invalid"} =>
            \A p \in Probes : p[1] = t => probe[p] = "none"
       /\ target[t] = "traced" => \A p \in Probes : p[1] = t => probe[p] = "done"

(***************************************************************************)
(* While a target is traced every hop holds one result for each of its     *)
(* probes that has reported, and in an echo trace a hop short of the       *)
(* destination holds none that reached it.                                 *)
(***************************************************************************)
DoneAt(t, h) == {q \in 0 .. conf.queries - 1 : probe[<<t, h, q>>] = "done"}

Filling(t) ==
  /\ hops[t] \in [TTLs -> HopType]
  /\ \A h \in TTLs :
       /\ Len(hops[t][h].probes) = Cardinality(DoneAt(t, h))
       /\ \A i \in DOMAIN hops[t][h].probes :
            conf.proto = "icmp" /\ hops[t][h].probes[i].reached
              => h >= Dist[conf.targets[t]]

HopsInv ==
  /\ DOMAIN hops = Targets
  /\ \A t \in Targets : target[t] \in {"todo", "tracing"} => Filling(t)

(***************************************************************************)
(* What PathIsWhole says of one target.                                    *)
(***************************************************************************)
Whole(hs, c, t) ==
  /\ \A h \in 1 .. Len(hs) : Len(hs[h].probes) = c.queries
  /\ LET rs == ReachedHops(hs)
     IN  /\ rs \subseteq {Len(hs)}
         /\ rs # {} /\ c.proto = "icmp" => Len(hs) >= Dist[c.targets[t]]
         /\ rs = {} => Len(hs) = c.maxHops

PathInv ==
  /\ MatchInv /\ ProbeInv /\ TargetInv /\ HopsInv
  /\ \A t \in Targets : target[t] = "traced" => Whole(hops[t], conf, t)

(***************************************************************************)
(* Hops that were reached, if there are any, have a first one.             *)
(***************************************************************************)
LEMMA FirstHop ==
  ASSUME NEW T, T \subseteq Nat, T # {}
  PROVE  \E i \in T : \A j \in T : i <= j
<1>1. IsWellFoundedOn(OpToRel(<, Nat), Nat)
  BY NatLessThanWellFounded
<1>2. PICK i \in T : \A j \in T : ~ (<<j, i>> \in OpToRel(<, Nat))
  BY <1>1, WFMin
<1>3. \A j \in T : ~ (j < i)
  BY <1>2 DEF OpToRel
<1> QED BY <1>3

(***************************************************************************)
(* finalize keeps the hops up to the first that was reached, and nothing   *)
(* else, so that is the only one that was reached.                         *)
(***************************************************************************)
LEMMA FinalizeIsWhole ==
  ASSUME NEW n \in Nat, NEW hs \in [1 .. n -> HopType], NEW c, NEW t,
         n = c.maxHops,
         \A h \in 1 .. n : Len(hs[h].probes) = c.queries,
         \A h \in ReachedHops(hs) : c.proto = "icmp" => h >= Dist[c.targets[t]]
  PROVE  Whole(finalize(hs), c, t)
<1>1. hs \in Seq(HopType) /\ Len(hs) = n
  <2>1. hs \in Seq(HopType)
    BY SeqDef
  <2> QED BY <2>1, LenProperties
<1>2. ReachedHops(hs) \subseteq 1 .. n
  BY <1>1 DEF ReachedHops
<1>3. CASE ReachedHops(hs) = {}
  <2>1. finalize(hs) = hs
    BY <1>3 DEF finalize
  <2> QED BY <1>1, <1>3, <2>1 DEF Whole
<1>4. CASE ReachedHops(hs) # {}
  <2> DEFINE rs == ReachedHops(hs)
             m == CHOOSE h \in rs : \A g \in rs : h <= g
             cut == SubSeq(hs, 1, m)
  <2>1. \E h \in rs : \A g \in rs : h <= g
    BY <1>2, <1>4, FirstHop
  <2>2. m \in rs /\ \A g \in rs : m <= g
    BY <2>1
  <2>3. finalize(hs) = cut
    BY <1>4 DEF finalize
  <2>4. m \in 1 .. n
    BY <1>2, <2>2
  <2> HIDE DEF m
  <2>5. \A i \in 1 .. m : hs[i] \in HopType
    BY <2>4
  <2>6. Len(cut) = m /\ \A i \in 1 .. m : cut[i] = hs[i]
    <3>1. /\ Len(cut) = IF 1 <= m THEN m - 1 + 1 ELSE 0
          /\ \A i \in 1 .. m - 1 + 1 : cut[i] = hs[1 + i - 1]
      BY <2>4, <2>5, SubSeqProperties
    <3> QED BY <2>4, <3>1
  <2>7. ReachedHops(cut) = {m}
    <3>1. \A h \in 1 .. m : h \in ReachedHops(cut) <=> h \in rs
      BY <1>1, <2>4, <2>6 DEF ReachedHops
    <3>2. ReachedHops(cut) \subseteq 1 .. m
      BY <2>6 DEF ReachedHops
    <3>3. \A h \in 1 .. m : h \in rs => h = m
      BY <2>2, <2>4
    <3> QED BY <2>2, <2>4, <3>1, <3>2, <3>3
  <2>8. \A h \in 1 .. Len(cut) : Len(cut[h].probes) = c.queries
    BY <2>4, <2>6
  <2>9. c.proto = "icmp" => m >= Dist[c.targets[t]]
    BY <2>2
  <2> HIDE DEF cut
  <2> QED BY <2>3, <2>6, <2>7, <2>8, <2>9 DEF Whole
<1> QED BY <1>3, <1>4

(***************************************************************************)
(* A step that touches neither hops nor the probes that have reported      *)
(* leaves the hops of a target as full as they are.                        *)
(***************************************************************************)
LEMMA FillingKept ==
  ASSUME UNCHANGED <<conf, hops>>, NEW t \in Targets, Filling(t),
         \A h \in TTLs, q \in 0 .. conf.queries - 1 :
           probe[<<t, h, q>>]' = "done" <=> probe[<<t, h, q>>] = "done"
  PROVE  Filling(t)'
<1>1. TTLs' = TTLs
  BY DEF TTLs
<1>2. \A h \in TTLs : DoneAt(t, h)' = DoneAt(t, h)
  BY DEF DoneAt
<1> QED BY <1>1, <1>2 DEF Filling

(***************************************************************************)
(* The parts of the invariant that a step leaves alone still hold.         *)
(***************************************************************************)
LEMMA PathFrame ==
  ASSUME UNCHANGED <<tool, conf>>
  PROVE  /\ ProbeInv /\ UNCHANGED <<probe, answer>> => ProbeInv'
         /\ TargetInv /\ UNCHANGED <<probe, target, turn>> => TargetInv'
         /\ HopsInv /\ UNCHANGED <<probe, target, hops>> => HopsInv'
<1>1. Probes' = Probes /\ Targets' = Targets /\ TTLs' = TTLs
  BY ConfStable
<1>2. ProbeInv /\ UNCHANGED <<probe, answer>> => ProbeInv'
  BY <1>1 DEF ProbeInv
<1>3. TargetInv /\ UNCHANGED <<probe, target, turn>> => TargetInv'
  BY <1>1 DEF TargetInv
<1>4. HopsInv /\ UNCHANGED <<probe, target, hops>> => HopsInv'
  <2> SUFFICES ASSUME HopsInv, UNCHANGED <<probe, target, hops>> PROVE HopsInv'
    OBVIOUS
  <2>1. \A t \in Targets : Filling(t) => Filling(t)'
    BY FillingKept
  <2> QED BY <1>1, <2>1 DEF HopsInv
<1> QED BY <1>2, <1>3, <1>4

(***************************************************************************)
(* Nothing is done yet when Run starts.                                    *)
(***************************************************************************)
LEMMA PathInit == Init => PathInv
<1> SUFFICES ASSUME Init PROVE PathInv
  OBVIOUS
<1>1. MatchInv /\ ConfInv
  BY MatchInit DEF MatchInv
<1> USE DEF Init, TInit
<1>2. ProbeInv
  BY DEF ProbeInv, ProbeStates
<1>3. TargetInv
  BY DEF TargetInv
<1>4. HopsInv
  <2>1. NewHop \in HopType /\ Len(NewHop.probes) = 0 /\ DOMAIN NewHop.probes = {}
    BY EmptySeq DEF NewHop, HopType
  <2>2. \A t \in Targets, h \in TTLs : DoneAt(t, h) = {}
    BY DEF DoneAt, Probes
  <2>3. \A t \in Targets : Filling(t)
    BY <2>1, <2>2, FS_EmptySet DEF Filling
  <2> QED BY <2>3 DEF HopsInv
<1> QED BY <1>1, <1>2, <1>3, <1>4 DEF PathInv

(***************************************************************************)
(* A result as ProbeDone makes it, from an answer or from a timeout.       *)
(***************************************************************************)
ResultOf(p) == IF probe[p] = "flying" THEN NoReply ELSE Reply(answer[p])

(***************************************************************************)
(* In an echo trace a probe short of its destination does not reach it.    *)
(***************************************************************************)
LEMMA ResultIsTrue ==
  ASSUME PathInv, NEW p \in Probes, probe[p] \in {"flying", "answered"}
  PROVE  /\ ResultOf(p) \in Result
         /\ conf.proto = "icmp" /\ ResultOf(p).reached => TTL(p) >= Dist[DstOf(p)]
<1>1. CASE probe[p] = "flying"
  BY <1>1 DEF ResultOf, NoReply, Result, Addrs
<1>2. CASE probe[p] = "answered"
  <2>1. TakenOK(p, answer[p])
    BY <1>2 DEF PathInv, ProbeInv, MatchInv, AnswerInv
  <2>2. ResultOf(p) = extractReply(answer[p])
    BY <1>2 DEF ResultOf, Reply, extractReply6
  <2>3. ResultOf(p) \in Result
    BY <2>1, <2>2 DEF extractReply, Result, TakenOK
  <2>4. conf.proto = "icmp" /\ ResultOf(p).reached
          => answer[p].kind \in {"echo", "tcp"}
    BY <2>2 DEF extractReply
  <2> QED BY <2>1, <2>3, <2>4 DEF TakenOK
<1> QED BY <1>1, <1>2

(***************************************************************************)
(* Reporting a probe adds one result to its hop.                           *)
(***************************************************************************)
LEMMA AppendResult ==
  ASSUME NEW hop \in HopType, NEW res \in Result
  PROVE  /\ appendProbe(hop, res) \in HopType
         /\ Len(appendProbe(hop, res).probes) = Len(hop.probes) + 1
         /\ \A i \in DOMAIN appendProbe(hop, res).probes :
              \/ i \in DOMAIN hop.probes
                 /\ appendProbe(hop, res).probes[i] = hop.probes[i]
              \/ appendProbe(hop, res).probes[i] = res
<1>1. hop.probes \in Seq(Result) /\ hop.addrs \in Seq(Addrs) /\ res.from \in Addrs
  BY DEF HopType, Result
<1>2. addAddr(hop.addrs, res.from) \in Seq(Addrs)
  BY <1>1, AppendProperties DEF addAddr
<1> DEFINE ps == Append(hop.probes, res)
<1>3. appendProbe(hop, res) \in HopType /\ appendProbe(hop, res).probes = ps
  <2>1. ps \in Seq(Result)
    BY <1>1, AppendProperties
  <2> QED BY <1>1, <1>2, <2>1 DEF appendProbe, HopType
<1>4. /\ Len(ps) = Len(hop.probes) + 1
      /\ \A i \in 1 .. Len(hop.probes) : ps[i] = hop.probes[i]
      /\ ps[Len(hop.probes) + 1] = res
      /\ ps \in Seq(Result)
  BY <1>1, AppendProperties
<1>5. /\ DOMAIN ps = 1 .. Len(hop.probes) + 1 /\ Len(hop.probes) \in Nat
      /\ DOMAIN hop.probes = 1 .. Len(hop.probes)
  BY <1>1, <1>4, LenProperties
<1> HIDE DEF ps
<1>6. \A i \in DOMAIN ps : \/ i \in DOMAIN hop.probes /\ ps[i] = hop.probes[i]
                           \/ ps[i] = res
  BY <1>4, <1>5
<1> QED BY <1>3, <1>4, <1>6

(***************************************************************************)
(* ProbeDone keeps the invariant.                                          *)
(***************************************************************************)
LEMMA ProbeDoneStep ==
  ASSUME PathInv, NEW p \in Probes, ProbeDone(p)
  PROVE  ProbeInv' /\ TargetInv' /\ HopsInv' /\ UNCHANGED <<conf, target>>
         /\ \A t \in Targets : target[t] = "traced" => hops'[t] = hops[t]
<1> DEFINE t == p[1]
           h == p[2]
           q == p[3]
<1>0. UNCHANGED <<tool, conf, turn, target>>
  BY DEF ProbeDone
<1>1. Probes' = Probes /\ Targets' = Targets /\ TTLs' = TTLs
  BY <1>0, ConfStable
<1>2. /\ probe[p] \in {"flying", "answered"}
      /\ probe' = [probe EXCEPT ![p] = "done"]
      /\ answer' = [answer EXCEPT ![p] = NoAnswer]
      /\ hops' = [hops EXCEPT ![t][h] = appendProbe(@, ResultOf(p))]
  BY DEF ProbeDone, ResultOf, TTL
<1>3. t \in Targets /\ h \in TTLs /\ q \in 0 .. conf.queries - 1 /\ p = <<t, h, q>>
  BY DEF Probes
<1>4. probe \in [Probes -> ProbeStates] /\ DOMAIN answer = Probes
      /\ DOMAIN hops = Targets
  BY DEF PathInv, ProbeInv, MatchInv, AnswerInv, HopsInv
<1>5. ProbeInv'
  BY <1>1, <1>2, <1>4 DEF PathInv, ProbeInv, ProbeStates
<1>6. target[t] = "tracing" /\ Filling(t)
  BY <1>2, <1>3 DEF PathInv, TargetInv, HopsInv
<1>7. TargetInv'
  BY <1>0, <1>1, <1>2, <1>3, <1>4, <1>6 DEF PathInv, TargetInv
<1>8. \A u \in Targets : u # t => hops'[u] = hops[u]
  BY <1>2, <1>4
<1>9. \A u \in Targets : u # t /\ Filling(u) => Filling(u)'
  <2> SUFFICES ASSUME NEW u \in Targets, u # t, Filling(u) PROVE Filling(u)'
    OBVIOUS
  <2>1. \A g \in TTLs : DoneAt(u, g)' = DoneAt(u, g)
    <3>1. \A g \in TTLs, r \in 0 .. conf.queries - 1 :
            probe'[<<u, g, r>>] = probe[<<u, g, r>>]
      BY <1>2, <1>3, <1>4 DEF Probes
    <3> QED BY <1>0, <3>1 DEF DoneAt
  <2> QED BY <1>0, <1>1, <1>8, <2>1 DEF Filling
<1>10. Filling(t)'
  <2>1. /\ hops'[t] = [hops[t] EXCEPT ![h] = appendProbe(@, ResultOf(p))]
        /\ hops[t] \in [TTLs -> HopType]
    BY <1>2, <1>3, <1>4, <1>6 DEF Filling
  <2>2. hops[t][h] \in HopType /\ ResultOf(p) \in Result
    BY <1>2, <1>3, <2>1, ResultIsTrue
  <2>3. /\ appendProbe(hops[t][h], ResultOf(p)) \in HopType
        /\ Len(appendProbe(hops[t][h], ResultOf(p)).probes)
             = Len(hops[t][h].probes) + 1
        /\ \A i \in DOMAIN appendProbe(hops[t][h], ResultOf(p)).probes :
             \/ i \in DOMAIN hops[t][h].probes
                /\ appendProbe(hops[t][h], ResultOf(p)).probes[i]
                     = hops[t][h].probes[i]
             \/ appendProbe(hops[t][h], ResultOf(p)).probes[i] = ResultOf(p)
    BY <2>2, AppendResult
  <2>4. hops'[t] \in [TTLs -> HopType]
    BY <1>3, <2>1, <2>3
  <2>5. hops'[t][h] = appendProbe(hops[t][h], ResultOf(p))
        /\ \A g \in TTLs : g # h => hops'[t][g] = hops[t][g]
    BY <1>3, <2>1
  <2>6. DoneAt(t, h)' = DoneAt(t, h) \cup {q} /\ q \notin DoneAt(t, h)
    <3>1. probe'[<<t, h, q>>] = "done" /\ probe[<<t, h, q>>] # "done"
      BY <1>2, <1>3, <1>4
    <3>2. \A r \in 0 .. conf.queries - 1 :
            r # q => probe'[<<t, h, r>>] = probe[<<t, h, r>>]
      BY <1>2, <1>3, <1>4 DEF Probes
    <3> QED BY <1>0, <1>3, <3>1, <3>2 DEF DoneAt
  <2>7. \A g \in TTLs : g # h => DoneAt(t, g)' = DoneAt(t, g)
    <3>1. \A g \in TTLs, r \in 0 .. conf.queries - 1 :
            g # h => probe'[<<t, g, r>>] = probe[<<t, g, r>>]
      BY <1>2, <1>3, <1>4 DEF Probes
    <3> QED BY <1>0, <3>1 DEF DoneAt
  <2>8. Cardinality(DoneAt(t, h)') = Cardinality(DoneAt(t, h)) + 1
    <3>1. IsFiniteSet(DoneAt(t, h))
      <4>1. conf.queries \in Nat
        BY ConfFacts DEF PathInv, MatchInv
      <4>2. IsFiniteSet(0 .. conf.queries - 1)
        BY <4>1, FS_Interval
      <4> QED BY <4>2, FS_Subset DEF DoneAt
    <3> QED BY <2>6, <3>1, FS_AddElement
  <2>9. \A g \in TTLs : Len(hops'[t][g].probes) = Cardinality(DoneAt(t, g)')
    BY <1>6, <2>3, <2>5, <2>7, <2>8 DEF Filling
  <2>10. conf.proto = "icmp" /\ ResultOf(p).reached => h >= Dist[conf.targets[t]]
    BY <1>2, ResultIsTrue DEF TTL, DstOf
  <2>11. \A g \in TTLs : \A i \in DOMAIN hops'[t][g].probes :
           conf.proto = "icmp" /\ hops'[t][g].probes[i].reached
             => g >= Dist[conf.targets[t]]
    <3> SUFFICES ASSUME NEW g \in TTLs, NEW i \in DOMAIN hops'[t][g].probes,
                        conf.proto = "icmp", hops'[t][g].probes[i].reached
                 PROVE  g >= Dist[conf.targets[t]]
      OBVIOUS
    <3>1. CASE g # h
      BY <1>6, <2>5, <3>1 DEF Filling
    <3>2. CASE g = h
      <4>1. CASE hops'[t][h].probes[i] = ResultOf(p)
        BY <2>10, <3>2, <4>1
      <4>2. CASE /\ i \in DOMAIN hops[t][h].probes
                 /\ hops'[t][h].probes[i] = hops[t][h].probes[i]
        BY <1>3, <1>6, <3>2, <4>2 DEF Filling
      <4>3. i \in DOMAIN appendProbe(hops[t][h], ResultOf(p)).probes
        BY <2>5, <3>2
      <4> QED BY <2>3, <2>5, <4>1, <4>2, <4>3
    <3> QED BY <3>1, <3>2
  <2> QED BY <1>0, <1>1, <2>4, <2>9, <2>11 DEF Filling
<1>11. HopsInv'
  <2>1. DOMAIN hops' = Targets
    BY <1>2, <1>4
  <2>2. \A u \in Targets : target'[u] \in {"todo", "tracing"} => Filling(u)'
    BY <1>0, <1>9, <1>10 DEF PathInv, HopsInv
  <2> QED BY <1>1, <2>1, <2>2 DEF HopsInv
<1> QED BY <1>0, <1>5, <1>6, <1>7, <1>8, <1>11

(***************************************************************************)
(* A target is finished: its hops are full, and finalize cuts them.        *)
(***************************************************************************)
LEMMA TargetDoneStep ==
  ASSUME PathInv, NEW t \in Targets, TargetDone(t)
  PROVE  /\ ProbeInv' /\ TargetInv' /\ HopsInv' /\ UNCHANGED conf
         /\ \A u \in Targets : target'[u] = "traced" => Whole(hops'[u], conf, u)
<1>0. UNCHANGED <<tool, conf, turn, probe, answer>>
  BY DEF TargetDone
<1>1. Probes' = Probes /\ Targets' = Targets /\ TTLs' = TTLs
  BY <1>0, ConfStable
<1>2. /\ target[t] = "tracing" /\ target' = [target EXCEPT ![t] = "traced"]
      /\ \A p \in Probes : p[1] = t => probe[p] = "done"
      /\ hops' = [hops EXCEPT ![t] = finalize(@)]
  BY DEF TargetDone
<1>3. ProbeInv'
  BY <1>0, PathFrame DEF PathInv
<1>4. TargetInv'
  BY <1>0, <1>1, <1>2 DEF PathInv, TargetInv
<1>5. DOMAIN hops = Targets /\ DOMAIN target = Targets /\ Filling(t)
  BY <1>2 DEF PathInv, HopsInv, TargetInv
<1>6. \A u \in Targets : u # t => hops'[u] = hops[u] /\ target'[u] = target[u]
  BY <1>2, <1>5
<1>7. HopsInv'
  <2>1. \A u \in Targets : u # t /\ Filling(u) => Filling(u)'
    <3>1. \A u \in Targets, g \in TTLs : DoneAt(u, g)' = DoneAt(u, g)
      BY <1>0 DEF DoneAt
    <3> QED BY <1>0, <1>1, <1>6, <3>1 DEF Filling
  <2>2. target'[t] = "traced" /\ DOMAIN hops' = Targets
    BY <1>2, <1>5
  <2> QED BY <1>1, <1>6, <2>1, <2>2 DEF PathInv, HopsInv
<1>8. Whole(finalize(hops[t]), conf, t)
  <2>1. conf.maxHops \in Nat /\ conf.queries \in Nat
    BY ConfFacts DEF PathInv, MatchInv
  <2>2. hops[t] \in [1 .. conf.maxHops -> HopType]
    BY <1>5 DEF Filling, TTLs
  <2>3. \A h \in 1 .. conf.maxHops : Len(hops[t][h].probes) = conf.queries
    <3> SUFFICES ASSUME NEW h \in 1 .. conf.maxHops
                 PROVE  Len(hops[t][h].probes) = conf.queries
      OBVIOUS
    <3>1. h \in TTLs
      BY DEF TTLs
    <3>2. DoneAt(t, h) = 0 .. conf.queries - 1
      BY <1>2, <3>1 DEF DoneAt, Probes
    <3>3. Cardinality(0 .. conf.queries - 1) = conf.queries
      BY <2>1, FS_Interval
    <3> QED BY <1>5, <3>1, <3>2, <3>3 DEF Filling
  <2>4. \A h \in ReachedHops(hops[t]) :
          conf.proto = "icmp" => h >= Dist[conf.targets[t]]
    <3>1. hops[t] \in Seq(HopType) /\ Len(hops[t]) = conf.maxHops
      <4>1. hops[t] \in Seq(HopType)
        BY <2>1, <2>2, SeqDef
      <4> QED BY <2>1, <2>2, <4>1, LenProperties
    <3>2. \A h \in ReachedHops(hops[t]) : h \in TTLs
      BY <3>1 DEF ReachedHops, TTLs
    <3> QED BY <1>5, <3>2 DEF Filling, ReachedHops
  <2> QED BY <2>1, <2>2, <2>3, <2>4, FinalizeIsWhole
<1>9. \A u \in Targets : target'[u] = "traced" => Whole(hops'[u], conf, u)
  <2> SUFFICES ASSUME NEW u \in Targets, target'[u] = "traced"
               PROVE  Whole(hops'[u], conf, u)
    OBVIOUS
  <2>1. CASE u = t
    BY <1>2, <1>5, <1>8, <2>1
  <2>2. CASE u # t
    BY <1>6, <2>2 DEF PathInv
  <2> QED BY <2>1, <2>2
<1> QED BY <1>0, <1>3, <1>4, <1>7, <1>9

(***************************************************************************)
(* Run comes to a target.                                                  *)
(***************************************************************************)
LEMMA StartTargetStep ==
  ASSUME PathInv, StartTarget
  PROVE  /\ ProbeInv' /\ TargetInv' /\ HopsInv' /\ UNCHANGED conf
         /\ \A u \in Targets : target'[u] = "traced" =>
              target[u] = "traced" /\ hops'[u] = hops[u]
<1>0. UNCHANGED <<tool, conf, answer>> /\ turn <= Len(conf.targets)
  BY DEF StartTarget
<1>1. Probes' = Probes /\ Targets' = Targets /\ TTLs' = TTLs
  BY <1>0, ConfStable
<1>2. /\ DOMAIN hops = Targets /\ DOMAIN target = Targets /\ turn \in Nat
      /\ probe \in [Probes -> ProbeStates]
  BY DEF PathInv, HopsInv, TargetInv, ProbeInv
<1>3. Len(conf.targets) \in Nat
  BY ConfFacts DEF PathInv, MatchInv
<1>t. \A u \in Targets : u \in Nat
  BY <1>3 DEF Targets
<1>4. CASE UNCHANGED <<turn, target, probe, hops>>
  BY <1>0, <1>4, PathFrame DEF PathInv
<1>5. CASE InvalidTarget
  <2>1. /\ turn' = turn + 1 /\ target' = [target EXCEPT ![turn] = "invalid"]
        /\ hops' = [hops EXCEPT ![turn] = <<>>] /\ UNCHANGED probe
    BY <1>5 DEF InvalidTarget
  <2>2. ProbeInv'
    BY <1>0, <2>1, PathFrame DEF PathInv
  <2>3. TargetInv'
    BY <1>0, <1>1, <1>2, <1>t, <2>1 DEF PathInv, TargetInv
  <2>4. \A u \in Targets : u # turn => hops'[u] = hops[u] /\ target'[u] = target[u]
    BY <1>2, <2>1
  <2>5. \A u \in Targets : u = turn => target'[u] = "invalid"
    BY <1>2, <2>1
  <2>6. HopsInv'
    <3>1. \A u \in Targets, g \in TTLs : DoneAt(u, g)' = DoneAt(u, g)
      BY <1>0, <2>1 DEF DoneAt
    <3>2. \A u \in Targets : u # turn /\ Filling(u) => Filling(u)'
      BY <1>0, <1>1, <2>4, <3>1 DEF Filling
    <3>3. DOMAIN hops' = Targets
      BY <1>2, <2>1
    <3> QED BY <1>1, <2>4, <2>5, <3>2, <3>3 DEF PathInv, HopsInv
  <2> QED BY <1>0, <2>2, <2>3, <2>4, <2>5, <2>6
<1>6. CASE traceTarget
  <2>1. /\ turn' = turn + 1 /\ target' = [target EXCEPT ![turn] = "tracing"]
        /\ probe' = [p \in Probes |-> IF p[1] = turn THEN "queued" ELSE probe[p]]
        /\ UNCHANGED hops
    BY <1>6 DEF traceTarget
  <2>2. ProbeInv'
    BY <1>0, <1>1, <1>2, <2>1 DEF PathInv, ProbeInv, ProbeStates
  <2>3. TargetInv'
    BY <1>0, <1>1, <1>2, <1>t, <2>1 DEF PathInv, TargetInv
  <2>4. turn \in Targets => target[turn] = "todo"
    BY <1>2, <1>t DEF PathInv, TargetInv
  <2>5. \A u \in Targets : Filling(u) => Filling(u)'
    <3> SUFFICES ASSUME NEW u \in Targets, Filling(u) PROVE Filling(u)'
      OBVIOUS
    <3>1. \A h \in TTLs, q \in 0 .. conf.queries - 1 :
            probe[<<u, h, q>>]' = "done" <=> probe[<<u, h, q>>] = "done"
      <4> TAKE h \in TTLs, q \in 0 .. conf.queries - 1
      <4>1. <<u, h, q>> \in Probes /\ <<u, h, q>>[1] = u
        BY DEF Probes
      <4>2. u = turn => probe[<<u, h, q>>] = "none"
        BY <2>4, <4>1 DEF PathInv, TargetInv
      <4> QED BY <2>1, <4>1, <4>2
    <3> QED BY <1>0, <2>1, <3>1, FillingKept
  <2>6. HopsInv'
    BY <1>1, <1>2, <2>1, <2>4, <2>5 DEF PathInv, HopsInv
  <2> QED BY <1>0, <1>2, <2>1, <2>2, <2>3, <2>6
<1> QED BY <1>4, <1>5, <1>6 DEF StartTarget, localEndpoint, localEndpoint6

(***************************************************************************)
(* Sending a probe or taking its answer reports nothing yet.               *)
(***************************************************************************)
LEMMA InFlightStep ==
  ASSUME PathInv, UNCHANGED <<tool, conf, turn, target, hops>>,
         probe' \in [Probes -> ProbeStates],
         \A p \in Probes :
           \/ probe'[p] = probe[p]
           \/ probe[p] \in {"queued", "flying"} /\ probe'[p] \in {"flying", "answered"}
  PROVE  TargetInv' /\ HopsInv'
<1>1. Probes' = Probes /\ Targets' = Targets /\ TTLs' = TTLs
  BY ConfStable
<1>2. TargetInv'
  BY <1>1 DEF PathInv, TargetInv
<1>3. \A t \in Targets : Filling(t) => Filling(t)'
  <2> SUFFICES ASSUME NEW t \in Targets, Filling(t) PROVE Filling(t)'
    OBVIOUS
  <2>1. \A h \in TTLs, q \in 0 .. conf.queries - 1 :
          probe[<<t, h, q>>]' = "done" <=> probe[<<t, h, q>>] = "done"
    <3> TAKE h \in TTLs, q \in 0 .. conf.queries - 1
    <3>1. <<t, h, q>> \in Probes
      BY DEF Probes
    <3> QED BY <3>1
  <2> QED BY <2>1, FillingKept
<1>4. HopsInv'
  BY <1>1, <1>3 DEF PathInv, HopsInv
<1> QED BY <1>2, <1>4

LEMMA SendProbeStep ==
  ASSUME PathInv, NEW p \in Probes, SendProbe(p)
  PROVE  ProbeInv' /\ TargetInv' /\ HopsInv'
<1>0. UNCHANGED <<tool, conf, turn, target, hops, answer>>
  BY DEF SendProbe
<1>1. Probes' = Probes
  BY <1>0, ConfStable
<1>2. probe[p] = "queued" /\ probe' = [probe EXCEPT ![p] = "flying"]
  BY DEF SendProbe
<1>3. probe' \in [Probes -> ProbeStates]
  BY <1>2 DEF PathInv, ProbeInv, ProbeStates
<1>4. ProbeInv'
  BY <1>0, <1>1, <1>2, <1>3 DEF PathInv, ProbeInv
<1>5. \A x \in Probes :
        \/ probe'[x] = probe[x]
        \/ probe[x] \in {"queued", "flying"} /\ probe'[x] \in {"flying", "answered"}
  BY <1>2 DEF PathInv, ProbeInv
<1> QED BY <1>0, <1>3, <1>4, <1>5, InFlightStep

LEMMA CaptureStep ==
  ASSUME PathInv, NEW r \in net, Capture(r)
  PROVE  ProbeInv' /\ TargetInv' /\ HopsInv'
<1>0. UNCHANGED <<tool, conf, turn, target, hops>>
  BY DEF Capture
<1>1. Probes' = Probes
  BY <1>0, ConfStable
<1> DEFINE takers == {p \in Probes : probe[p] = "flying" /\ Matches(p, r)}
<1>2. /\ probe' = [p \in Probes |-> IF p \in takers THEN "answered" ELSE probe[p]]
      /\ answer' = [p \in Probes |-> IF p \in takers THEN r ELSE answer[p]]
  BY DEF Capture
<1>3. probe' \in [Probes -> ProbeStates]
  BY <1>2 DEF PathInv, ProbeInv, ProbeStates
<1>4. \A p \in takers : r # NoAnswer
  BY MatchIsOwn DEF PathInv, MatchInv, NetInv, TakenOK
<1>5. ProbeInv'
  BY <1>1, <1>2, <1>3, <1>4 DEF PathInv, ProbeInv
<1>6. \A x \in Probes :
        \/ probe'[x] = probe[x]
        \/ probe[x] \in {"queued", "flying"} /\ probe'[x] \in {"flying", "answered"}
  BY <1>2
<1> QED BY <1>0, <1>3, <1>5, <1>6, InFlightStep

(***************************************************************************)
(* Every step keeps the invariant: a path that is finished stays as it is. *)
(***************************************************************************)
LEMMA PathStep == PathInv /\ [Next]_vars => PathInv'
<1> SUFFICES ASSUME PathInv, [Next]_vars PROVE PathInv'
  OBVIOUS
<1>0. UNCHANGED <<tool, conf>> /\ MatchInv'
  BY NetAndAnswerSteps, MatchStep DEF PathInv
<1>1. Targets' = Targets
  BY <1>0, ConfStable
<1> DEFINE Parts == /\ ProbeInv' /\ TargetInv' /\ HopsInv'
                    /\ \A t \in Targets :
                         target'[t] = "traced" => Whole(hops'[t], conf, t)
<1>2. Parts => PathInv'
  BY <1>0, <1>1 DEF PathInv
<1>3. ASSUME UNCHANGED <<turn, target, probe, answer, hops>> PROVE Parts
  BY <1>0, <1>3, PathFrame DEF PathInv
<1>4. CASE UNCHANGED vars
  BY <1>2, <1>3, <1>4 DEF vars, tvars, traced
<1>5. CASE phase = "trace" /\ TStep /\ UNCHANGED evars
  <2>1. ASSUME StartTarget PROVE Parts
    BY <2>1, StartTargetStep DEF PathInv
  <2>2. ASSUME NEW p \in Probes, SendProbe(p) PROVE Parts
    <3>1. UNCHANGED <<target, hops>>
      BY <2>2 DEF SendProbe
    <3> QED BY <2>2, <3>1, SendProbeStep DEF PathInv
  <2>3. ASSUME NEW p \in Probes, ProbeDone(p) PROVE Parts
    BY <2>3, ProbeDoneStep DEF PathInv
  <2>4. ASSUME NEW r \in net, Capture(r) PROVE Parts
    <3>1. UNCHANGED <<target, hops>>
      BY <2>4 DEF Capture
    <3> QED BY <2>4, <3>1, CaptureStep DEF PathInv
  <2>5. ASSUME NEW t \in Targets, TargetDone(t) PROVE Parts
    BY <2>5, TargetDoneStep
  <2> HIDE DEF Parts
  <2>6. Parts
    BY <1>5, <2>1, <2>2, <2>3, <2>4, <2>5 DEF TStep
  <2> QED BY <1>2, <2>6
<1>6. CASE WaitTargets
  BY <1>2, <1>3, <1>6 DEF WaitTargets
<1>7. CASE ResolveNames
  BY <1>2, <1>3, <1>7 DEF ResolveNames, tvars, traced
<1>8. CASE AskProviders
  BY <1>2, <1>3, <1>8 DEF AskProviders, tvars, traced
<1> QED BY <1>2, <1>4, <1>5, <1>6, <1>7, <1>8 DEF Next, Step

(***************************************************************************)
(* The path shown for a target ends at its first hop that was reached, an  *)
(* echo trace never ends short of the destination, and every hop holds the *)
(* results of all its probes, for every configuration and every order in   *)
(* which the goroutines run and the packets come.                          *)
(***************************************************************************)
THEOREM PathsAreWhole == Spec => []PathIsWhole
<1>1. PathInv => PathIsWhole
  BY DEF PathInv, Whole, PathIsWhole
<1> QED BY <1>1, PathInit, PathStep, PTL DEF Spec
=============================================================================
