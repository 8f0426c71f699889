----------------------------- MODULE UdpProofs -----------------------------
(***************************************************************************)
(* sonar, sonar6, kuiniu and evr for every number of peers and every pair  *)
(* of port ranges that ends below the last port number.                    *)
(***************************************************************************)
EXTENDS UdpClient, FiniteSetTheorems, TLAPS

(***************************************************************************)
(* No range ends at the last port number, where the increment of a uint16  *)
(* would wrap before it is compared.                                       *)
(***************************************************************************)
BelowLastPort == ClientRange.max < Word - 1 /\ ServerRange.max < Word - 1

LEMMA Sizes ==
  /\ Word \in Nat /\ Word > 0 /\ N \in Nat /\ N > 0 /\ 1 \in Peers
  /\ MaxReaders \in Nat /\ MaxReaders > 0 /\ MaxErrors \in Nat /\ MaxErrors > 0
  /\ Grace \in Nat /\ Grace > 0 /\ MaxProbes \in Nat /\ MaxFaults \in Nat
  /\ InnerPort \in Nat
BY UdpClientAssumption, WordAssumption DEF Peers

LEMMA RangeFacts ==
  /\ ClientRange.min \in Nat /\ ClientRange.max \in Nat
  /\ ServerRange.min \in Nat /\ ServerRange.max \in Nat
  /\ ClientRange.min <= ClientRange.max /\ ServerRange.min <= ServerRange.max
  /\ ClientRange.max < Word /\ ServerRange.max < Word
BY UdpClientAssumption, Sizes DEF PortRange, Ports

-----------------------------------------------------------------------------
(* the ports of a peer                                                     *)

InRanges(pp) ==
  /\ pp[1] \in ClientRange.min .. ClientRange.max
  /\ pp[2] \in ServerRange.min .. ServerRange.max

LEMMA NextPortsInRange ==
  ASSUME BelowLastPort, NEW pp, InRanges(pp)
  PROVE  InRanges(GetNextPorts(pp[1], pp[2], ClientRange, ServerRange))
<1>1. Incremented(pp[1]) = pp[1] + 1 /\ Incremented(pp[2]) = pp[2] + 1
  BY RangeFacts, Sizes DEF InRanges, BelowLastPort, Incremented
<1> QED BY <1>1, RangeFacts
        DEF InRanges, GetNextPorts, NextClientPort, NextServerPort

LEMMA NextPortInRange ==
  ASSUME BelowLastPort, NEW pp, InRanges(pp)
  PROVE  InRanges(<<GetNextPort(pp[1], ClientRange), pp[2]>>)
<1>1. Incremented(pp[1]) = pp[1] + 1
  BY RangeFacts, Sizes DEF InRanges, BelowLastPort, Incremented
<1> QED BY <1>1, RangeFacts DEF InRanges, GetNextPort

-----------------------------------------------------------------------------
(* the readers                                                             *)

LEMMA MinOfTwo ==
  ASSUME NEW a \in Int, NEW b \in Int
  PROVE  Min({a, b}) = IF a <= b THEN a ELSE b
<1> DEFINE m == IF a <= b THEN a ELSE b
<1>1. m \in {a, b} /\ \A y \in {a, b} : m <= y
  OBVIOUS
<1>2. \A x \in {a, b} : (\A y \in {a, b} : x <= y) => x = m
  OBVIOUS
<1> HIDE DEF m
<1>3. (CHOOSE x \in {a, b} : \A y \in {a, b} : x <= y) = m
  BY <1>1, <1>2
<1> QED BY <1>3 DEF Min, m

LEMMA MinOfOne ==
  ASSUME NEW a \in Int PROVE Min({a}) = a
BY DEF Min

LEMMA Division ==
  ASSUME NEW d \in Nat, d > 0, NEW a \in Nat
  PROVE  /\ a \div d \in Nat
         /\ \E q \in Nat, r \in 0 .. d - 1 : q * d + r = a /\ a \div d = q
<1>1. PICK q \in Int, r \in 0 .. d - 1 : q * d + r = a /\ a \div d = q
  BY Z3
<1>2. q <= -1 => q * d <= -d
  OBVIOUS
<1>3. q \in Nat
  BY <1>1, <1>2
<1> QED BY <1>1, <1>3

LEMMA PortsPerReaderPositive == PortsPerReader \in Nat /\ PortsPerReader > 0
<1>1. PortCount \in Nat /\ PortCount > 0
  BY RangeFacts DEF PortCount
<1> DEFINE g == Min({PortCount, MaxReaders})
<1>2. g \in Nat /\ g > 0 /\ g <= PortCount
  BY <1>1, MinOfTwo, Sizes
<1>3. PortsPerReader = (PortCount + g - 1) \div g
  BY DEF PortsPerReader
<1> HIDE DEF g
<1>4. PICK a \in Nat : a = PortCount + g - 1 /\ a >= g
  <2>1. PortCount + g - 1 \in Nat /\ PortCount + g - 1 >= g
    BY <1>1, <1>2
  <2> QED BY <2>1
<1>5. PICK q \in Nat, r \in 0 .. g - 1 : q * g + r = a /\ a \div g = q
  BY <1>2, Division
<1>6. q # 0
  BY <1>2, <1>4, <1>5
<1> QED BY <1>3, <1>4, <1>5, <1>6

(***************************************************************************)
(* Where the sub-range of the k-th reader begins.                          *)
(***************************************************************************)
From(k) == ClientRange.min + (k - 1) * PortsPerReader

LEMMA ServeRead ==
  /\ DOMAIN serveRead = {r \in {1} \X (1 .. PortCount) : From(r[2]) <= ClientRange.max}
  /\ \A r \in DOMAIN serveRead : serveRead[r] = SubRange(From(r[2]))
BY DEF serveRead, From

(***************************************************************************)
(* A client port lies in the sub-range of exactly one reader: the sizes    *)
(* are rounded up, so the sub-ranges cover the range, and none runs into   *)
(* the next.                                                               *)
(***************************************************************************)
LEMMA SubRangesPartition ==
  ASSUME NEW x \in ClientRange.min .. ClientRange.max
  PROVE  \E r \in DOMAIN serveRead :
           \A u \in DOMAIN serveRead : x \in serveRead[u] <=> u = r
<1> DEFINE d == PortsPerReader
<1>1. d \in Nat /\ d > 0
  BY PortsPerReaderPositive
<1>2. /\ x \in Nat /\ ClientRange.min \in Nat /\ ClientRange.max \in Nat
      /\ ClientRange.min <= x /\ x <= ClientRange.max
  BY RangeFacts
<1> HIDE DEF d
<1>3. PICK q \in Nat, y \in 0 .. d - 1 : q * d + y = x - ClientRange.min
  <2>1. x - ClientRange.min \in Nat
    BY <1>2
  <2> QED BY <1>1, <2>1, Division
<1> DEFINE r == <<1, q + 1>>
<1>4. q <= q * d
  <2>1. q * d = q + q * (d - 1) /\ q * (d - 1) >= 0
    BY <1>1
  <2> QED BY <1>1, <2>1
<1>5. PICK f \in Nat : f = q * d
  BY <1>1
<1>6. From(q + 1) = ClientRange.min + f /\ x = ClientRange.min + f + y
      /\ y \in Nat /\ y < d
  BY <1>1, <1>2, <1>3, <1>5 DEF From, d
<1>7. r \in DOMAIN serveRead
  <2>1. q + 1 \in 1 .. PortCount
    BY <1>2, <1>4, <1>5, <1>6 DEF PortCount
  <2>2. From(q + 1) <= ClientRange.max
    BY <1>2, <1>6
  <2> QED BY <2>1, <2>2, ServeRead
<1>8. ASSUME NEW u \in DOMAIN serveRead
      PROVE  x \in serveRead[u] <=> u = r
  <2>1. PICK k \in 1 .. PortCount : u = <<1, k>>
    BY ServeRead
  <2>2. k \in Nat /\ k >= 1
    BY RangeFacts DEF PortCount
  <2>3. PICK h \in Nat : h = (k - 1) * d
    BY <1>1, <2>2
  <2>4. From(k) = ClientRange.min + h
    BY <2>3 DEF From, d
  <2>5. serveRead[u] = From(k) .. Min({From(k) + d - 1, ClientRange.max})
    BY <2>1, ServeRead DEF SubRange, d
  <2>6. x \in serveRead[u] <=> h <= f + y /\ f + y < h + d
    <3>1. Min({From(k) + d - 1, ClientRange.max}) =
            IF From(k) + d - 1 <= ClientRange.max THEN From(k) + d - 1
            ELSE ClientRange.max
      BY <1>1, <1>2, <2>4, MinOfTwo
    <3> QED BY <1>1, <1>2, <1>6, <2>4, <2>5, <3>1
  <2>7. CASE k = q + 1
    <3>1. h = f
      BY <1>5, <2>3, <2>7
    <3>2. x \in serveRead[u]
      BY <1>1, <1>6, <2>6, <3>1
    <3> QED BY <2>1, <2>7, <3>2
  <2>8. CASE k <= q
    <3>1. PICK j \in Nat : q = (k - 1) + 1 + j
      <4>1. q - k \in Nat /\ q = (k - 1) + 1 + (q - k)
        BY <2>2, <2>8
      <4> QED BY <4>1
    <3>2. q * d = (k - 1) * d + d + j * d /\ j * d >= 0
      BY <1>1, <2>2, <3>1
    <3>3. f >= h + d
      BY <1>1, <1>5, <2>3, <3>2
    <3> QED BY <1>1, <1>6, <2>1, <2>2, <2>6, <2>8, <3>3
  <2>9. CASE k > q + 1
    <3>1. PICK j \in Nat : k - 1 = q + 1 + j
      <4>1. k - 2 - q \in Nat /\ k - 1 = q + 1 + (k - 2 - q)
        BY <2>2, <2>9
      <4> QED BY <4>1
    <3>2. (k - 1) * d = q * d + d + j * d /\ j * d >= 0
      BY <1>1, <2>2, <3>1
    <3>3. h >= f + d
      BY <1>1, <1>5, <2>3, <3>2
    <3> QED BY <1>1, <1>6, <2>1, <2>2, <2>6, <2>9, <3>3
  <2> QED BY <2>2, <2>7, <2>8, <2>9
<1> QED BY <1>7, <1>8

-----------------------------------------------------------------------------
(* packets                                                                 *)

LEMMA ToolCases ==
  ASSUME TypeOK
  PROVE  tool \in {"sonar", "sonar6", "kuiniu", "evr"}
BY UdpClientAssumption DEF TypeOK

(***************************************************************************)
(* The answer to a probe that was made, as the program at hand sends it.   *)
(***************************************************************************)
IsAnswer(a) ==
  /\ a.kind = "answer" /\ a.at \in Peers /\ a.n \in 1 .. seq[a.at]
  /\ a.magic /\ a.tos /\ a.load \in {"ok", "flip"}
  /\ a.dst = Remote(a.at)
  /\ tool = "evr" => a.from = 0 /\ a.src = Remote(a.at) /\ a.port = InnerPort
  /\ tool # "evr" => /\ a.from = a.at /\ a.src = Local(a.at)
                     /\ a.port \in ClientRange.min .. ClientRange.max

LEMMA AnswerIsAnswer ==
  ASSUME TypeOK, NEW p \in Peers, seq[p] >= 1, NEW load \in {"ok", "flip"}
  PROVE  /\ IsAnswer(Answer(p, seq[p], load))
         /\ Answer(p, seq[p], load).at = p
         /\ Answer(p, seq[p], load).n = seq[p]
<1>1. seq[p] \in 1 .. seq[p]
  BY Sizes DEF TypeOK
<1>2. ports[p][1] \in ClientRange.min .. ClientRange.max
  BY DEF TypeOK
<1>3. CASE tool = "evr"
  <2>1. Answer(p, seq[p], load) = EncodeVxlanInner(p, seq[p], load)
    BY <1>3 DEF Answer
  <2> QED BY <1>1, <1>3, <2>1 DEF IsAnswer, EncodeVxlanInner, Encode
<1>4. CASE tool # "evr"
  <2>1. Answer(p, seq[p], load) = Encode(p, seq[p], load)
    BY <1>4, ToolCases DEF Answer, Encode6, KuiniuEncode
  <2> QED BY <1>1, <1>2, <1>4, <2>1 DEF IsAnswer, Encode
<1> QED BY <1>3, <1>4

(***************************************************************************)
(* What others send is no answer; what of it counts is the answer to a     *)
(* twin, and in sonar a probe of the peer's own.                           *)
(***************************************************************************)
LEMMA NoiseFacts ==
  ASSUME TypeOK, NEW a \in Noise
  PROVE  /\ a.kind # "answer" /\ a.at = 1 /\ a.load = "ok"
         /\ Outcome(a) # None =>
              /\ Outcome(a) = <<a.at, "ok">>
              /\ \/ a.kind = "twin"
                 \/ a.kind = "probe" /\ Sonar /\ a.port = ServerRange.min
         /\ tool = "kuiniu" /\ ServerTakes(a) => a.kind = "probe"
<1>0. 0 \notin Peers /\ 1 \in Peers /\ Local(0) # Remote(0)
      /\ \A p, q : Local(p) # Remote(q)
  BY Sizes DEF Peers, Local, Remote
<1>1. Min({p \in Peers : Remote(p) = Remote(1)}) = 1
  <2>1. {p \in Peers : Remote(p) = Remote(1)} = {1}
    BY <1>0 DEF Remote
  <2> QED BY <2>1, MinOfOne
<1>2. CASE tool = "kuiniu"
  <2>1. CASE a = PeerProbe(1, ServerRange.min)
    <3>1. a.kind = "probe" /\ a.dst = Local(1) /\ a.at = 1 /\ a.load = "ok"
      BY <2>1 DEF PeerProbe, Stranger
    <3>2. {p \in Peers : Remote(p) = a.dst} = {}
      BY <1>0, <3>1
    <3> QED BY <1>2, <3>1, <3>2 DEF Outcome, KuiniuHandlePacket
  <2>2. CASE a = Twin
    <3>1. /\ a.kind = "twin" /\ a.src = Local(1) /\ a.dst = Remote(1) /\ a.at = 1
          /\ a.load = "ok"
      BY <1>2, <2>2 DEF Twin, Stranger
    <3>2. ~ ServerTakes(a)
      BY <1>0, <3>1 DEF ServerTakes
    <3>3. Outcome(a) # None => Outcome(a) = <<1, "ok">>
      BY <1>1, <1>2, <3>1 DEF Outcome, KuiniuHandlePacket
    <3> QED BY <3>1, <3>2, <3>3
  <2> QED BY <1>2, <2>1, <2>2 DEF Noise, Sonar
<1>3. CASE tool = "evr"
  <2>1. CASE a = [Stranger EXCEPT !.port = InnerPort]
    <3>1. a.kind = "noise" /\ a.src = Local(0) /\ a.at = 1 /\ a.load = "ok"
      BY <2>1 DEF Stranger
    <3>2. {p \in Peers : Remote(p) = a.src} = {}
      BY <1>0, <3>1
    <3> QED BY <1>3, <3>1, <3>2 DEF Outcome, EvrHandlePacket
  <2>2. CASE a = Twin
    <3>1. a.kind = "twin" /\ a.src = Remote(1) /\ a.at = 1 /\ a.load = "ok"
      BY <1>3, <2>2 DEF Twin, Stranger
    <3>2. Outcome(a) # None => Outcome(a) = <<1, "ok">>
      BY <1>1, <1>3, <3>1 DEF Outcome, EvrHandlePacket
    <3> QED BY <1>3, <3>1, <3>2
  <2> QED BY <1>3, <2>1, <2>2 DEF Noise, Sonar
<1>4. CASE Sonar
  <2>1. /\ a.at = 1 /\ a.load = "ok"
        /\ \/ a.kind = "noise" /\ (a.from = 0 \/ a.magic = FALSE)
           \/ a.kind = "twin" /\ a.from = 1
           \/ a.kind = "probe" /\ a.from = 1 /\ a.port = ServerRange.min
    <3>1. CASE a = Stranger
      BY <3>1 DEF Stranger
    <3>2. CASE a = [Stranger EXCEPT !.from = 1, !.magic = FALSE]
      BY <3>2 DEF Stranger
    <3>3. CASE a = Twin
      BY <1>4, <3>3 DEF Stranger, Twin, Sonar
    <3>4. CASE a = [Twin EXCEPT !.tos = FALSE]
      BY <1>4, <3>4 DEF Stranger, Twin, Sonar
    <3>5. CASE a = PeerProbe(1, ServerRange.min)
      BY <3>5 DEF PeerProbe, Stranger
    <3>6. a \in {Stranger, [Stranger EXCEPT !.from = 1, !.magic = FALSE], Twin,
                 [Twin EXCEPT !.tos = FALSE], PeerProbe(1, ServerRange.min)}
      BY <1>4 DEF Noise, Sonar
    <3> QED BY <3>1, <3>2, <3>3, <3>4, <3>5, <3>6
  <2>2. Outcome(a) = handlePacket(a)
    BY <1>4 DEF Outcome, handlePacket6, Sonar
  <2>3. handlePacket(a) # None => a.from \in Peers /\ a.magic /\ handlePacket(a) = <<a.from, "ok">>
    BY DEF handlePacket, IsValid
  <2> QED BY <1>0, <1>4, <2>1, <2>2, <2>3 DEF Sonar
<1> QED BY <1>2, <1>3, <1>4, ToolCases DEF Sonar

(***************************************************************************)
(* A filter passes the program's TOS alone, except in sonar6, and sonar's  *)
(* pass nothing but client ports.                                          *)
(***************************************************************************)
LEMMA AcceptedFacts ==
  ASSUME TypeOK, NEW a, NEW r \in Readers, Accepts(r, a)
  PROVE  /\ a.tos \/ tool = "sonar6"
         /\ Sonar => a.port \in ClientRange.min .. ClientRange.max
<1>1. a.tos \/ tool = "sonar6"
  BY ToolCases DEF Accepts, portRangeBPF, innerPortBPF
<1>2. ASSUME Sonar PROVE a.port \in ClientRange.min .. ClientRange.max
  <2>1. r \in DOMAIN serveRead /\ a.port \in serveRead[r]
    BY <1>2 DEF Sonar, Readers, Accepts, serveRead6, portRangeBPF, portRangeBPF6
  <2>2. PICK k \in 1 .. PortCount : r = <<1, k>> /\ From(k) <= ClientRange.max
    BY <2>1, ServeRead
  <2>3. k \in Nat /\ k >= 1
    BY RangeFacts DEF PortCount
  <2>4. PICK h \in Nat : h = (k - 1) * PortsPerReader
    BY <2>3, PortsPerReaderPositive
  <2>5. From(k) = ClientRange.min + h
    BY <2>4 DEF From
  <2>6. serveRead[r] = From(k) .. Min({From(k) + PortsPerReader - 1, ClientRange.max})
    BY <2>1, <2>2, ServeRead DEF SubRange
  <2>7. Min({From(k) + PortsPerReader - 1, ClientRange.max}) =
          IF From(k) + PortsPerReader - 1 <= ClientRange.max
          THEN From(k) + PortsPerReader - 1 ELSE ClientRange.max
    BY <2>5, RangeFacts, PortsPerReaderPositive, MinOfTwo
  <2> QED BY <2>1, <2>5, <2>6, <2>7, RangeFacts, PortsPerReaderPositive
<1> QED BY <1>1, <1>2

(***************************************************************************)
(* What a reader makes of an answer: nothing, or the peer that sent it and *)
(* what it carried.                                                        *)
(***************************************************************************)
LEMMA AnswerOutcome ==
  ASSUME TypeOK, NEW a, IsAnswer(a), Outcome(a) # None
  PROVE  /\ Outcome(a)[1] = a.at
         /\ Outcome(a)[2] \in {"ok", "flip"}
         /\ Outcome(a)[2] = "flip" => a.load = "flip"
         /\ Outcome(a)[2] = "ok" => a.load # "flip" \/ cold
<1>1. a.at \in Peers /\ a.at \in Int
  BY Sizes DEF IsAnswer, Peers
<1>2. ASSUME NEW y, y = Remote(a.at)
      PROVE  Min({p \in Peers : Remote(p) = y}) = a.at
  <2>1. {p \in Peers : Remote(p) = y} = {a.at}
    BY <1>1, <1>2 DEF Remote
  <2> QED BY <1>1, <2>1, MinOfOne
<1>3. CASE tool = "evr"
  BY <1>2, <1>3 DEF Outcome, EvrHandlePacket, IsAnswer
<1>4. CASE tool = "kuiniu"
  BY <1>2, <1>4 DEF Outcome, KuiniuHandlePacket, IsAnswer, detectBitflip
<1>5. CASE tool \in {"sonar", "sonar6"}
  BY <1>5 DEF Outcome, handlePacket6, handlePacket, IsAnswer, detectBitflip
<1> QED BY <1>3, <1>4, <1>5, ToolCases

(***************************************************************************)
(* An answer passes the filter of exactly one reader.                      *)
(***************************************************************************)
LEMMA OneAccepts ==
  ASSUME TypeOK, NEW a, IsAnswer(a)
  PROVE  Cardinality({r \in Readers : Accepts(r, a)}) = 1
<1>1. SUFFICES \E r : {u \in Readers : Accepts(u, a)} = {r}
  BY FS_Singleton
<1>2. CASE tool = "evr"
  <2>1. Readers = {<<1, 1>>}
    BY <1>2 DEF Readers
  <2>2. \A r \in Readers : Accepts(r, a)
    BY <1>2 DEF Accepts, innerPortBPF, IsAnswer
  <2> QED BY <2>1, <2>2
<1>3. CASE tool # "evr"
  <2>1. PICK s \in DOMAIN serveRead :
               \A u \in DOMAIN serveRead : a.port \in serveRead[u] <=> u = s
    BY <1>3, SubRangesPartition DEF IsAnswer
  <2>2. CASE tool \in {"sonar", "sonar6"}
    <3>1. Readers = DOMAIN serveRead
      BY <2>2 DEF Readers, serveRead6
    <3>2. \A u \in Readers : Accepts(u, a) <=> a.port \in serveRead[u]
      BY <2>2 DEF Accepts, portRangeBPF, portRangeBPF6, serveRead6, IsAnswer
    <3> QED BY <2>1, <3>1, <3>2
  <2>3. CASE tool = "kuiniu"
    <3>1. /\ Readers = {<<p, u[2]>> : p \in Peers, u \in DOMAIN serveRead}
          /\ \A v \in Readers : KuiniuReaders[v] = serveRead[<<1, v[2]>>]
      BY <2>3 DEF Readers, KuiniuReaders
    <3>2. \A u \in DOMAIN serveRead : u = <<1, u[2]>>
      BY ServeRead
    <3>3. \A v \in Readers :
            Accepts(v, a) <=> v[1] = a.at /\ a.port \in serveRead[<<1, v[2]>>]
      BY <2>3, <3>1 DEF Accepts, portRangeBPF, IsAnswer
    <3>4. \A v \in Readers : v = <<v[1], v[2]>> /\ <<1, v[2]>> \in DOMAIN serveRead
      <4> TAKE v \in Readers
      <4>1. PICK p \in Peers, u \in DOMAIN serveRead : v = <<p, u[2]>>
        BY <3>1
      <4>2. v[1] = p /\ v[2] = u[2] /\ u = <<1, u[2]>>
        BY <3>2, <4>1
      <4> QED BY <4>1, <4>2
    <3>5. <<a.at, s[2]>> \in Readers
      BY <3>1 DEF IsAnswer
    <3>6. \A v \in Readers : Accepts(v, a) <=> v = <<a.at, s[2]>>
      <4> TAKE v \in Readers
      <4>1. Accepts(v, a) <=> v[1] = a.at /\ <<1, v[2]>> = s
        BY <2>1, <3>3, <3>4
      <4>2. <<1, v[2]>> = s <=> v[2] = s[2]
        BY <3>2
      <4>3. v = <<v[1], v[2]>>
        BY <3>4
      <4> QED BY <4>1, <4>2, <4>3
    <3> QED BY <3>5, <3>6
  <2> QED BY <1>3, <2>2, <2>3, ToolCases
<1> QED BY <1>2, <1>3

LEMMA ServerIsNoReader ==
  ASSUME TypeOK PROVE Server \notin Readers
<1>1. \A u \in DOMAIN serveRead : u[1] = 1
  BY ServeRead
<1>2. CASE tool \in {"sonar", "sonar6"}
  BY <1>1, <1>2 DEF Readers, serveRead6, Server
<1>3. CASE tool = "kuiniu"
  <2>1. Readers = {<<p, u[2]>> : p \in Peers, u \in DOMAIN serveRead}
    BY <1>3 DEF Readers, KuiniuReaders
  <2> QED BY <2>1 DEF Server, Peers
<1>4. CASE tool = "evr"
  BY <1>4 DEF Readers, Server
<1> QED BY <1>2, <1>3, <1>4, ToolCases

-----------------------------------------------------------------------------
(* types                                                                   *)

(***************************************************************************)
(* What keeps the counters in their types: a round begins only while every *)
(* peer may be probed, and a reader gives up at its last error.            *)
(***************************************************************************)
Bounded ==
  /\ ports = [p \in Peers |-> ports[p]]
  /\ \A p \in todo : seq[p] < MaxProbes
  /\ wpc = "write" => seq[at] >= 1
  /\ wpc # "done" => ret = "running"
  /\ wpc = "open" => \A r \in Readers : reader[r] = "none"
  /\ \A r \in Readers : reader[r] # "ended" => errs[r] < MaxErrors

TypeInv == TypeOK /\ Bounded

LEMMA SameReaders == tool' = tool => Readers' = Readers
BY DEF Readers, serveRead, serveRead6, KuiniuReaders

LEMMA NextProbeTypes ==
  ASSUME BelowLastPort, TypeInv, NEW p \in Peers, NextProbe(p)
  PROVE  /\ todo' \subseteq Peers /\ at' \in Peers
         /\ seq' \in [Peers -> 0 .. MaxProbes]
         /\ ports' = [q \in Peers |-> ports'[q]]
         /\ \A q \in Peers : InRanges(ports'[q])
         /\ \A q \in todo' : seq'[q] < MaxProbes
         /\ at' = p /\ seq'[p] = seq[p] + 1 /\ seq[p] + 1 \in Seqs
         /\ \A q \in Peers : seq[q] <= seq'[q]
<1>1. p \in todo /\ todo' = todo \ {p} /\ at' = p
  BY DEF NextProbe
<1>2. seq \in [Peers -> 0 .. MaxProbes] /\ seq[p] < MaxProbes
  BY <1>1 DEF TypeInv, TypeOK, Bounded
<1>3. seq' = [seq EXCEPT ![p] = seq[p] + 1]
  BY DEF NextProbe
<1>4. seq[p] + 1 \in 0 .. MaxProbes /\ seq[p] + 1 \in Seqs
  BY <1>2, Sizes DEF Seqs
<1>5. seq' \in [Peers -> 0 .. MaxProbes] /\ seq'[p] = seq[p] + 1
  BY <1>2, <1>3, <1>4
<1>6. \A q \in Peers : seq[q] <= seq'[q]
  BY <1>2, <1>3, Sizes
<1>7. \A q \in todo' : seq'[q] < MaxProbes
  BY <1>1, <1>2, <1>3 DEF TypeInv, Bounded, TypeOK
<1>8. PICK pp : /\ ports' = [ports EXCEPT ![p] = pp]
                /\ InRanges(pp)
  <2>1. InRanges(ports[p])
    BY DEF TypeInv, TypeOK, InRanges
  <2>2. InRanges(GetNextPorts(ports[p][1], ports[p][2], ClientRange, ServerRange))
    BY <2>1, NextPortsInRange
  <2>3. InRanges(<<GetNextPort(ports[p][1], ClientRange), ports[p][2]>>)
    BY <2>1, NextPortInRange
  <2>4. ports' = [ports EXCEPT ![p] =
                    IF tool = "evr"
                    THEN <<GetNextPort(ports[p][1], ClientRange), ports[p][2]>>
                    ELSE GetNextPorts(ports[p][1], ports[p][2], ClientRange,
                                      ServerRange)]
    BY DEF NextProbe
  <2> QED BY <2>2, <2>3, <2>4
<1>9. ports' = [q \in Peers |-> IF q = p THEN pp ELSE ports[q]]
  <2>1. ports = [q \in Peers |-> ports[q]]
    BY DEF TypeInv, Bounded
  <2> QED BY <1>8, <2>1
<1>10. \A q \in Peers : InRanges(ports'[q])
  <2>1. \A q \in Peers : InRanges(ports[q])
    BY DEF TypeInv, TypeOK, InRanges
  <2> QED BY <1>8, <1>9, <2>1
<1>11. ports' = [q \in Peers |-> ports'[q]]
  BY <1>9
<1>12. todo' \subseteq Peers /\ at' \in Peers
  BY <1>1 DEF TypeInv, TypeOK
<1> QED BY <1>1, <1>4, <1>5, <1>6, <1>7, <1>10, <1>11, <1>12

LEMMA TypeInit == Init => TypeInv
<1> SUFFICES ASSUME Init PROVE TypeInv
  OBVIOUS
<1>1. \A p \in Peers : ports[p] = <<ClientRange.min, ServerRange.min>>
  BY DEF Init
<1>2. TypeOK
  <2>1. \A p \in Peers : /\ ports[p][1] \in ClientRange.min .. ClientRange.max
                         /\ ports[p][2] \in ServerRange.min .. ServerRange.max
    BY <1>1, RangeFacts
  <2>2. seq \in [Peers -> 0 .. MaxProbes] /\ errs \in [Readers -> 0 .. MaxErrors]
        /\ wait \in 0 .. Grace /\ count \in Nat
    BY Sizes DEF Init
  <2>3. /\ stats \in [Peers -> [Seqs -> {"none", "sent", "ok", "flip"}]]
        /\ reader \in [Readers -> {"none", "reading", "ended"}]
    BY DEF Init
  <2>4. at \in Peers /\ todo \subseteq Peers
    BY Sizes DEF Init
  <2> QED BY <2>1, <2>2, <2>3, <2>4 DEF Init, TypeOK
<1>3. Bounded
  BY Sizes DEF Init, Bounded
<1> QED BY <1>2, <1>3 DEF TypeInv

(***************************************************************************)
(* What a step leaves in its type because it does not touch it.            *)
(***************************************************************************)
ReadersTyped ==
  /\ reader \in [Readers -> {"none", "reading", "ended"}]
  /\ errs \in [Readers -> 0 .. MaxErrors]
  /\ \A r \in Readers : reader[r] # "ended" => errs[r] < MaxErrors

WriterTyped ==
  /\ todo \subseteq Peers /\ at \in Peers
  /\ seq \in [Peers -> 0 .. MaxProbes]
  /\ \A p \in Peers : /\ ports[p][1] \in ClientRange.min .. ClientRange.max
                      /\ ports[p][2] \in ServerRange.min .. ServerRange.max
  /\ ports = [p \in Peers |-> ports[p]]
  /\ \A p \in todo : seq[p] < MaxProbes

LEMMA ReadersKept ==
  ASSUME TypeInv, UNCHANGED <<tool, reader, errs>> PROVE ReadersTyped'
<1>1. Readers' = Readers
  BY SameReaders
<1> QED BY <1>1 DEF TypeInv, TypeOK, Bounded, ReadersTyped

LEMMA WriterKept ==
  ASSUME TypeInv, UNCHANGED <<todo, at, seq, ports>> PROVE WriterTyped'
BY DEF TypeInv, TypeOK, Bounded, WriterTyped

LEMMA NextProbeKeeps ==
  ASSUME BelowLastPort, TypeInv, NEW p \in Peers, NextProbe(p)
  PROVE  WriterTyped' /\ at' = p /\ seq'[p] >= 1
<1>1. \A q \in Peers : InRanges(ports'[q])
  BY NextProbeTypes
<1>2. \A q \in Peers : /\ ports'[q][1] \in ClientRange.min .. ClientRange.max
                       /\ ports'[q][2] \in ServerRange.min .. ServerRange.max
  BY <1>1 DEF InRanges
<1>3. seq'[p] >= 1
  BY NextProbeTypes, Sizes DEF Seqs
<1> QED BY <1>2, <1>3, NextProbeTypes DEF WriterTyped

RestTyped ==
  /\ tool \in Tools /\ conf \in Confs
  /\ wpc \in {"open", "dial", "top", "send", "write", "limit", "done"}
  /\ count \in Nat /\ wait \in 0 .. Grace /\ serving \subseteq Peers
  /\ stats \in [Peers -> [Seqs -> {"none", "sent", "ok", "flip"}]]
  /\ {open, ctx, cold} \subseteq BOOLEAN
  /\ ret \in {"running", "failed", "cancelled", "limit"}
  /\ wpc = "write" => seq[at] >= 1
  /\ wpc # "done" => ret = "running"
  /\ wpc = "open" => \A r \in Readers : reader[r] = "none"

LEMMA TypesCompose == ReadersTyped' /\ WriterTyped' /\ RestTyped' => TypeInv'
BY DEF TypeInv, TypeOK, Bounded, ReadersTyped, WriterTyped, RestTyped

LEMMA TypesSplit == TypeInv => ReadersTyped /\ WriterTyped /\ RestTyped
BY DEF TypeInv, TypeOK, Bounded, ReadersTyped, WriterTyped, RestTyped

LEMMA OpenReadersTypes == ASSUME TypeInv, OpenReaders PROVE TypeInv'
<1>1. /\ UNCHANGED <<tool, conf, todo, at, seq, ports, count, wait, stats, errs,
                     ctx, cold, serving>>
      /\ wpc = "open" /\ wpc' \in {"dial", "done"} /\ open' \in BOOLEAN
      /\ ret' \in {ret, "failed"} /\ (wpc' # "done" => ret' = ret)
      /\ \E X : reader' = [r \in Readers |-> IF r \in X THEN "reading" ELSE "none"]
  BY DEF OpenReaders, StartReaders, server
<1>2. Readers' = Readers
  BY <1>1, SameReaders
<1>3. ReadersTyped'
  BY <1>1, <1>2 DEF TypeInv, TypeOK, Bounded, ReadersTyped
<1>4. RestTyped'
  BY <1>1, <1>2, TypesSplit DEF RestTyped
<1> QED BY <1>1, <1>3, <1>4, WriterKept, TypesCompose

LEMMA QuietTypes ==
  ASSUME TypeInv,
         \/ Dial \/ Cancelled \/ LimitOver \/ Cancel \/ Warm \/ Tick
         \/ (\E m \in net : ServeProbe(m)) \/ UNCHANGED vars
  PROVE  TypeInv'
<1>1. UNCHANGED <<tool, conf, todo, at, seq, ports, count, stats, reader, errs>>
  BY DEF Dial, Cancelled, LimitOver, Cancel, Warm, Tick, ServeProbe, vars, writer,
         readers
<1>2. /\ wpc' \in {wpc, "top", "done"}
      /\ wpc' = "open" => wpc = "open"
      /\ wait' \in {wait, wait - 1} /\ (wait' = wait \/ wait > 0)
      /\ {open', ctx', cold'} \subseteq BOOLEAN
      /\ ret' \in {ret, "failed", "cancelled", "limit"}
      /\ wpc' # "done" => ret' = ret /\ wpc # "done"
      /\ wpc' = "write" => wpc = "write"
      /\ serving' \subseteq Peers
  <2>1. CASE Dial
    BY <2>1, TypesSplit DEF Dial, LeaveOpen, Leave, RestTyped, server
  <2>2. CASE Cancelled
    BY <2>2, TypesSplit DEF Cancelled, Leave, RestTyped, server
  <2>3. CASE LimitOver
    BY <2>3, TypesSplit DEF LimitOver, Leave, RestTyped, server
  <2>4. CASE Cancel
    BY <2>4, TypesSplit DEF Cancel, RestTyped, writer, readers, server
  <2>5. CASE Warm
    BY <2>5, TypesSplit DEF Warm, RestTyped, writer, readers, server
  <2>6. CASE Tick
    BY <2>6, TypesSplit DEF Tick, RestTyped, readers, server
  <2>7. CASE \E m \in net : ServeProbe(m)
    BY <2>7, TypesSplit DEF ServeProbe, RestTyped, writer, readers
  <2>8. CASE UNCHANGED vars
    BY <2>8, TypesSplit DEF vars, RestTyped, writer, readers, server
  <2> QED BY <2>1, <2>2, <2>3, <2>4, <2>5, <2>6, <2>7, <2>8
<1>3. wait' \in 0 .. Grace
  BY <1>2, Sizes DEF TypeInv, TypeOK
<1>4. Readers' = Readers
  BY <1>1, SameReaders
<1>5. RestTyped'
  BY <1>1, <1>2, <1>3, <1>4, TypesSplit DEF RestTyped
<1> QED BY <1>1, <1>5, ReadersKept, WriterKept, TypesCompose

LEMMA SendTypes ==
  ASSUME BelowLastPort, TypeInv, NEW p \in Peers,
         EncodeFails(p) \/ StopAtLimit(p) \/ PutProbe(p)
  PROVE  TypeInv'
<1>1. /\ NextProbe(p) /\ wpc = "send"
      /\ UNCHANGED <<tool, conf, reader, errs, ctx, cold, serving>>
  BY DEF EncodeFails, StopAtLimit, PutProbe, readers, server
<1>2. WriterTyped' /\ at' = p /\ seq'[p] >= 1 /\ seq'[p] \in Seqs
  BY <1>1, NextProbeKeeps, NextProbeTypes
<1>3. /\ wpc' \in {"top", "send", "write", "limit", "done"}
      /\ count' \in Nat /\ wait' \in 0 .. Grace /\ open' \in BOOLEAN
      /\ ret' \in {"running", "limit"}
      /\ wpc' # "done" => ret' = ret
  <2>1. CASE EncodeFails(p)
    BY <2>1, TypesSplit DEF EncodeFails, NextPeer, RestTyped, readers
  <2>2. CASE StopAtLimit(p)
    <3>1. count' \in Nat
      BY <2>2, TypesSplit DEF StopAtLimit, RestTyped
    <3>2. CASE Sonar
      BY <2>2, <3>1, <3>2, TypesSplit, Sizes
      DEF StopAtLimit, AtLimit, reachedLimit, RestTyped
    <3>3. CASE ~ Sonar
      BY <2>2, <3>1, <3>3, TypesSplit DEF StopAtLimit, AtLimit, Leave, RestTyped
    <3> QED BY <3>2, <3>3
  <2>3. CASE PutProbe(p)
    BY <2>3, TypesSplit DEF PutProbe, RestTyped, readers
  <2> QED BY <2>1, <2>2, <2>3
<1>4. stats' \in [Peers -> [Seqs -> {"none", "sent", "ok", "flip"}]]
  <2>1. \/ stats' = stats
        \/ stats' = [stats EXCEPT ![p][seq'[p]] = IF @ = "none" THEN "sent" ELSE @]
    BY DEF EncodeFails, StopAtLimit, PutProbe
  <2> QED BY <1>2, <2>1, TypesSplit DEF RestTyped
<1>5. RestTyped'
  BY <1>1, <1>2, <1>3, <1>4, TypesSplit DEF RestTyped
<1> QED BY <1>1, <1>2, <1>5, ReadersKept, TypesCompose

LEMMA TakeTypes == ASSUME TypeInv, Take PROVE TypeInv'
<1>1. RestTyped' /\ UNCHANGED <<tool, reader, errs>>
  BY TypesSplit DEF Take, RestTyped, readers, server
<1>2. WriterTyped'
  BY TypesSplit DEF Take, WriterTyped
<1> QED BY <1>1, <1>2, ReadersKept, TypesCompose

LEMMA WriteProbeTypes == ASSUME TypeInv, WriteProbe PROVE TypeInv'
<1>1. UNCHANGED <<tool, conf, todo, at, seq, ports, count, wait, reader, errs, open,
                  ctx, ret, cold, serving>>
      /\ wpc = "write" /\ wpc' \in {"top", "send"}
  BY DEF WriteProbe, readers, NextPeer, server
<1>2. stats' \in [Peers -> [Seqs -> {"none", "sent", "ok", "flip"}]]
  <2>1. stats' = stats \/ stats' = [stats EXCEPT ![at][seq[at]] = "none"]
    BY DEF WriteProbe, Deleted
  <2> QED BY <2>1, TypesSplit DEF RestTyped
<1>3. RestTyped'
  BY <1>1, <1>2, TypesSplit DEF RestTyped
<1> QED BY <1>1, <1>3, ReadersKept, WriterKept, TypesCompose

LEMMA ReadFailsTypes ==
  ASSUME TypeInv, NEW r \in Readers, ReadFails(r) PROVE TypeInv'
<1>1. /\ UNCHANGED <<tool, conf, wpc, todo, at, seq, ports, count, wait, stats, open,
                     ctx, ret, cold, serving>>
      /\ reader[r] = "reading"
  BY DEF ReadFails, writer, server
<1>2. Readers' = Readers
  BY <1>1, SameReaders
<1>3. ReadersTyped'
  <2>1. CASE tool = "kuiniu"
    BY <1>2, <2>1, TypesSplit DEF ReadFails, ReadersTyped
  <2>2. CASE tool # "kuiniu"
    <3>1. errs[r] \in Nat /\ errs[r] < MaxErrors
      BY <1>1, TypesSplit, Sizes DEF ReadersTyped
    <3>2. /\ errs' = [errs EXCEPT ![r] = errs[r] + 1]
          /\ reader' = [reader EXCEPT ![r] = IF errs[r] + 1 >= MaxErrors
                                             THEN "ended" ELSE reader[r]]
      BY <2>2 DEF ReadFails
    <3>3. errs[r] + 1 \in 0 .. MaxErrors
          /\ (errs[r] + 1 >= MaxErrors \/ errs[r] + 1 < MaxErrors)
      BY <3>1, Sizes
    <3>4. errs' \in [Readers -> 0 .. MaxErrors]
          /\ reader' \in [Readers -> {"none", "reading", "ended"}]
      BY <3>2, <3>3, TypesSplit DEF ReadersTyped
    <3>5. \A u \in Readers : reader'[u] # "ended" => errs'[u] < MaxErrors
      BY <3>2, <3>3, TypesSplit DEF ReadersTyped
    <3> QED BY <1>2, <3>4, <3>5 DEF ReadersTyped
  <2> QED BY <2>1, <2>2
<1>4. RestTyped'
  <2>1. wpc # "open"
    BY <1>1, TypesSplit DEF RestTyped
  <2> QED BY <1>1, <2>1, TypesSplit DEF RestTyped
<1> QED BY <1>1, <1>3, <1>4, WriterKept, TypesCompose

(***************************************************************************)
(* The packets in the net: answers to probes that were made and noise, for *)
(* readers whose filter they pass and for no server but kuiniu's.          *)
(***************************************************************************)
NetInv ==
  \A m \in net :
    /\ m = [a |-> m.a, left |-> m.left]
    /\ IsAnswer(m.a) \/ m.a \in Noise
    /\ Server \in m.left => tool = "kuiniu"
    /\ \A r \in m.left \cap Readers : Accepts(r, m.a)

LEMMA readLoopTypes ==
  ASSUME TypeInv, NetInv, NEW r \in Readers, NEW m \in net, readLoop(r, m)
  PROVE  TypeInv'
<1>1. /\ UNCHANGED <<tool, conf, wpc, todo, at, seq, ports, count, wait, open,
                     ctx, ret, cold, serving>>
      /\ reader[r] = "reading"
  BY DEF readLoop, writer, Listening, server
<1>2. Readers' = Readers
  BY <1>1, SameReaders
<1>3. ReadersTyped'
  <2>1. errs' = [errs EXCEPT ![r] = 0]
    BY DEF readLoop
  <2>2. reader' = [reader EXCEPT ![r] = IF tool = "kuiniu" /\ ctx THEN "ended"
                                        ELSE reader[r]]
    BY DEF readLoop
  <2>3. 0 \in 0 .. MaxErrors /\ 0 < MaxErrors
    BY Sizes
  <2> QED BY <1>2, <2>1, <2>2, <2>3, TypesSplit DEF ReadersTyped
<1>4. stats' \in [Peers -> [Seqs -> {"none", "sent", "ok", "flip"}]]
  <2>1. CASE Outcome(m.a) = None
    BY <2>1, TypesSplit DEF readLoop, RestTyped
  <2>2. CASE Outcome(m.a) # None
    <3>1. m.a \in Noise => Outcome(m.a) = <<m.a.at, "ok">>
      BY <2>2, NoiseFacts DEF TypeInv
    <3>2. Outcome(m.a)[2] \in {"ok", "flip"}
      BY <2>2, <3>1, AnswerOutcome, NoiseFacts DEF TypeInv, NetInv
    <3>3. stats' = [stats EXCEPT ![Outcome(m.a)[1]][m.a.n] = Outcome(m.a)[2]]
      BY <2>2 DEF readLoop
    <3> QED BY <3>2, <3>3, TypesSplit DEF RestTyped
  <2> QED BY <2>1, <2>2
<1>5. RestTyped'
  <2>1. wpc # "open"
    BY <1>1, TypesSplit DEF RestTyped
  <2> QED BY <1>1, <1>4, <2>1, TypesSplit DEF RestTyped
<1> QED BY <1>1, <1>3, <1>5, WriterKept, TypesCompose

(***************************************************************************)
(* The steps of the system, one case per action.                           *)
(***************************************************************************)
Quiet ==
  \/ Dial \/ Cancelled \/ LimitOver \/ Cancel \/ Warm \/ Tick
  \/ (\E m \in net : ServeProbe(m)) \/ UNCHANGED vars

LEMMA Steps ==
  [Next]_vars =>
    \/ OpenReaders \/ Take \/ WriteProbe \/ Quiet
    \/ \E p \in Peers : EncodeFails(p) \/ StopAtLimit(p) \/ PutProbe(p)
    \/ \E r \in Readers : ReadFails(r)
    \/ \E r \in Readers, m \in net : readLoop(r, m)
BY DEF Next, Write, Read, Ended, Quiet

LEMMA TypeStep ==
  ASSUME BelowLastPort, TypeInv, NetInv, [Next]_vars
  PROVE  TypeInv'
<1>1. Quiet => TypeInv'
  BY QuietTypes DEF Quiet
<1> QED BY <1>1, Steps, OpenReadersTypes, TakeTypes, WriteProbeTypes, SendTypes,
           ReadFailsTypes, readLoopTypes

-----------------------------------------------------------------------------
(* the net                                                                 *)

LEMMA SeqGrows ==
  ASSUME BelowLastPort, TypeInv, [Next]_vars
  PROVE  tool' = tool /\ conf' = conf /\ \A q \in Peers : seq[q] <= seq'[q]
<1>1. tool' = tool /\ conf' = conf
  BY Steps DEF Quiet, OpenReaders, Take, WriteProbe, EncodeFails, StopAtLimit,
               PutProbe, ReadFails, readLoop, Dial, Cancelled, LimitOver, Cancel,
               Warm, Tick, ServeProbe, vars
<1>2. CASE seq' = seq
  BY <1>1, <1>2, TypesSplit, Sizes DEF WriterTyped
<1>3. CASE \E p \in Peers : NextProbe(p)
  BY <1>1, <1>3, NextProbeTypes
<1>4. seq' = seq \/ \E p \in Peers : NextProbe(p)
  BY Steps DEF Quiet, OpenReaders, Take, WriteProbe, EncodeFails, StopAtLimit,
               PutProbe, ReadFails, readLoop, Dial, Cancelled, LimitOver, Cancel,
               Warm, Tick, ServeProbe, vars, writer
<1> QED BY <1>2, <1>3, <1>4

LEMMA AnswerStays ==
  ASSUME TypeInv, tool' = tool, \A q \in Peers : seq[q] <= seq'[q],
         seq' \in [Peers -> 0 .. MaxProbes], NEW a, IsAnswer(a)
  PROVE  IsAnswer(a)'
<1>1. a.n \in 1 .. seq'[a.at]
  BY TypesSplit, Sizes DEF IsAnswer, WriterTyped
<1> QED BY <1>1 DEF IsAnswer

LEMMA LeaveNet ==
  ASSUME NetInv, NEW r, Leave(r), NEW x \in net'
  PROVE  \E m \in net : x = [a |-> m.a, left |-> m.left \cap {Server}]
<1>1. PICK m \in net : x = [m EXCEPT !.left = @ \cap {Server}]
  BY DEF Leave
<1>2. m = [a |-> m.a, left |-> m.left]
  BY DEF NetInv
<1> QED BY <1>1, <1>2

LEMMA ReadByNet ==
  ASSUME NetInv, NEW m \in net, NEW r, ReadBy(m, r), NEW x \in net'
  PROVE  x \in net \/ x = [a |-> m.a, left |-> m.left \ {r}]
<1>1. m = [a |-> m.a, left |-> m.left]
  BY DEF NetInv
<1>2. x \in net \/ x = [m EXCEPT !.left = m.left \ {r}]
  BY DEF ReadBy
<1> QED BY <1>1, <1>2

(***************************************************************************)
(* Where a packet of the next state comes from.                            *)
(***************************************************************************)
Kept(x) ==
  \E m \in net : x = [a |-> m.a, left |-> x.left] /\ x.left \subseteq m.left

Heard(x) == wpc = "open" /\ \E a \in Noise : x = Arriving(a)

Answered(x) ==
  /\ wpc = "write"
  /\ \E load \in {"ok", "flip"} : x = Arriving(Answer(at, seq[at], load))

LEMMA NetStep ==
  ASSUME NetInv, [Next]_vars, NEW x \in net'
  PROVE  Kept(x) \/ Heard(x) \/ Answered(x)
<1>1. CASE x \in net
  BY <1>1 DEF NetInv, Kept
<1>2. ASSUME NEW r, Leave(r) PROVE Kept(x)
  BY <1>2, LeaveNet DEF Kept
<1>3. ASSUME NEW m \in net, NEW r, ReadBy(m, r) PROVE Kept(x)
  <2>1. CASE x = [a |-> m.a, left |-> m.left \ {r}]
    BY <2>1 DEF Kept
  <2> QED BY <1>1, <1>3, <2>1, ReadByNet DEF NetInv, Kept
<1>4. CASE OpenReaders
  BY <1>1, <1>4 DEF OpenReaders, Heard
<1>5. CASE WriteProbe
  BY <1>1, <1>5 DEF WriteProbe, Answered
<1>6. CASE \E p \in Peers : EncodeFails(p) \/ StopAtLimit(p) \/ PutProbe(p)
  BY <1>1, <1>2, <1>6 DEF EncodeFails, StopAtLimit, PutProbe, AtLimit, reachedLimit
<1>7. CASE Quiet
  BY <1>1, <1>2, <1>3, <1>7
  DEF Quiet, Dial, Cancelled, LimitOver, LeaveOpen, Cancel, Warm, Tick, ServeProbe,
      vars
<1>8. CASE Take \/ \E r \in Readers : ReadFails(r)
  BY <1>1, <1>8 DEF Take, ReadFails
<1>9. CASE \E r \in Readers, m \in net : readLoop(r, m)
  BY <1>3, <1>9 DEF readLoop
<1> QED BY <1>4, <1>5, <1>6, <1>7, <1>8, <1>9, Steps

LEMMA ArrivingFacts ==
  ASSUME TypeInv, NEW a
  PROVE  /\ Server \in Arriving(a).left => tool = "kuiniu"
         /\ \A r \in Arriving(a).left \cap Readers : Accepts(r, a)
BY ServerIsNoReader DEF Arriving, ServerAccepts, TypeInv

LEMMA NetInvStep ==
  ASSUME BelowLastPort, TypeInv, NetInv, [Next]_vars
  PROVE  NetInv'
<1>1. tool' = tool /\ \A q \in Peers : seq[q] <= seq'[q]
  BY SeqGrows
<1>2. seq' \in [Peers -> 0 .. MaxProbes]
  BY TypeStep DEF TypeInv, TypeOK
<1>3. Noise' = Noise
  BY <1>1 DEF Noise, Sonar, Twin
<1>4. Readers' = Readers /\ \A r, a : Accepts(r, a)' <=> Accepts(r, a)
  BY <1>1, SameReaders DEF Accepts
<1>5. SUFFICES ASSUME NEW x \in net'
               PROVE  /\ x = [a |-> x.a, left |-> x.left]
                      /\ IsAnswer(x.a)' \/ x.a \in Noise
                      /\ Server \in x.left => tool = "kuiniu"
                      /\ \A r \in x.left \cap Readers : Accepts(r, x.a)
  BY <1>1, <1>3, <1>4 DEF NetInv
<1>6. CASE Kept(x)
  <2>1. PICK m \in net : x = [a |-> m.a, left |-> x.left] /\ x.left \subseteq m.left
    BY <1>6 DEF Kept
  <2>2. x.a = m.a /\ x = [a |-> x.a, left |-> x.left]
    BY <2>1
  <2> QED BY <1>1, <1>2, <2>1, <2>2, AnswerStays DEF NetInv
<1>7. CASE Heard(x)
  <2>1. PICK a \in Noise : x = Arriving(a)
    BY <1>7 DEF Heard
  <2>2. x.a = a /\ x = [a |-> x.a, left |-> x.left]
    BY <2>1 DEF Arriving
  <2> QED BY <2>1, <2>2, ArrivingFacts
<1>8. CASE Answered(x)
  <2>1. PICK load \in {"ok", "flip"} : x = Arriving(Answer(at, seq[at], load))
    BY <1>8 DEF Answered
  <2>2. at \in Peers /\ seq[at] >= 1
    BY <1>8, TypesSplit DEF Answered, WriterTyped, RestTyped
  <2>3. IsAnswer(Answer(at, seq[at], load))
    BY <2>2, AnswerIsAnswer DEF TypeInv
  <2>4. x.a = Answer(at, seq[at], load) /\ x = [a |-> x.a, left |-> x.left]
    BY <2>1 DEF Arriving
  <2>5. IsAnswer(x.a)
    BY <2>3, <2>4
  <2>6. IsAnswer(x.a)'
    BY <1>1, <1>2, <2>5, AnswerStays
  <2> QED BY <2>1, <2>4, <2>6, ArrivingFacts
<1> QED BY <1>6, <1>7, <1>8, NetStep

-----------------------------------------------------------------------------
(* the numbers of the probes                                               *)

Made(x) == x \in Peers \X Seqs /\ x[2] <= seq[x[1]]

(***************************************************************************)
(* A probe is recorded under the number it was made with.                  *)
(***************************************************************************)
Fresh == \A x \in unsent \cup puts : Made(x)

LEMMA Recorded ==
  ASSUME [Next]_vars
  PROVE  /\ \/ unsent' = unsent
            \/ wpc = "write" /\ unsent' = unsent \cup {<<at, seq[at]>>}
         /\ puts' = puts \/ \E p \in Peers : PutProbe(p)
<1>1. CASE OpenReaders
  BY <1>1 DEF OpenReaders, history
<1>2. CASE WriteProbe
  BY <1>2 DEF WriteProbe
<1>3. CASE \E p \in Peers : EncodeFails(p) \/ StopAtLimit(p) \/ PutProbe(p)
  BY <1>3 DEF EncodeFails, StopAtLimit, PutProbe, history
<1>4. CASE Quiet
  BY <1>4 DEF Quiet, Dial, Cancelled, LimitOver, Cancel, Warm, Tick, ServeProbe,
              vars, history
<1>5. CASE Take \/ \E r \in Readers : ReadFails(r)
  BY <1>5 DEF Take, ReadFails, history
<1>6. CASE \E r \in Readers, m \in net : readLoop(r, m)
  BY <1>6 DEF readLoop
<1> QED BY <1>1, <1>2, <1>3, <1>4, <1>5, <1>6, Steps

LEMMA MadeStays ==
  ASSUME BelowLastPort, TypeInv, NetInv, [Next]_vars, NEW x, Made(x)
  PROVE  Made(x)'
<1>1. x[1] \in Peers /\ x[2] \in Nat
  BY Sizes DEF Made, Seqs
<1>2. seq[x[1]] \in Nat /\ seq'[x[1]] \in Nat /\ seq[x[1]] <= seq'[x[1]]
  BY <1>1, SeqGrows, TypeStep, Sizes DEF TypeInv, TypeOK
<1> QED BY <1>1, <1>2 DEF Made

LEMMA FreshStep ==
  ASSUME BelowLastPort, TypeInv, NetInv, Fresh, [Next]_vars
  PROVE  Fresh'
<1>0. seq \in [Peers -> Nat] /\ at \in Peers /\ (wpc = "write" => seq[at] \in Seqs)
  BY TypesSplit, Sizes DEF WriterTyped, RestTyped, Seqs
<1>1. \A x \in unsent' \cup puts' : Made(x)'
  <2> SUFFICES ASSUME NEW x \in unsent' \cup puts' PROVE Made(x)'
    OBVIOUS
  <2>1. CASE x \in unsent \cup puts
    BY <2>1, MadeStays DEF Fresh
  <2>2. CASE x = <<at, seq[at]>> /\ wpc = "write"
    <3>1. Made(x)
      BY <1>0, <2>2 DEF Made
    <3> QED BY <3>1, MadeStays
  <2>3. CASE \E p \in Peers : PutProbe(p) /\ x \notin unsent \cup puts
    <3>1. PICK p \in Peers : PutProbe(p)
      BY <2>3
    <3>2. x = <<p, seq'[p]>>
      BY <2>3, <3>1 DEF PutProbe
    <3>3. seq'[p] \in Seqs
      BY <3>1, NextProbeTypes DEF PutProbe
    <3> QED BY <3>2, <3>3, Sizes DEF Made, Seqs
  <2> QED BY <2>1, <2>2, <2>3, Recorded
<1> QED BY <1>1 DEF Fresh

-----------------------------------------------------------------------------
(* the statistics                                                          *)

LEMMA StatsChange ==
  ASSUME [Next]_vars
  PROVE  \/ UNCHANGED <<stats, taken>>
         \/ (\E p \in Peers : PutProbe(p)) \/ WriteProbe
         \/ \E r \in Readers, m \in net : readLoop(r, m)
<1>1. CASE Quiet
  BY <1>1 DEF Quiet, Dial, Cancelled, LimitOver, Cancel, Warm, Tick, ServeProbe,
              vars, history
<1>2. CASE OpenReaders \/ Take \/ \E r \in Readers : ReadFails(r)
  BY <1>2 DEF OpenReaders, Take, ReadFails, history
<1>3. CASE \E p \in Peers : EncodeFails(p) \/ StopAtLimit(p)
  BY <1>3 DEF EncodeFails, StopAtLimit, history
<1> QED BY <1>1, <1>2, <1>3, Steps

(***************************************************************************)
(* What a counted packet says for verdict v on probe n of peer p.          *)
(***************************************************************************)
Evidence(e, p, n, v) ==
  /\ e.peer = p /\ e.n = n
  /\ \/ e.kind \in {"answer", "twin"}
     \/ e.kind = "probe" /\ Sonar /\ RangesMeet
  /\ e.tos \/ tool = "sonar6"
  /\ v = "flip" => e.load \in {"flip", "early"}
  /\ v = "ok" => e.load \in {"ok", "early"}

LEMMA OwnAnswers ==
  OnlyOwnAnswers <=>
    \A p \in Peers, n \in Seqs :
      stats[p][n] \in {"ok", "flip"} => \E e \in taken : Evidence(e, p, n, stats[p][n])
BY DEF OnlyOwnAnswers, Evidence

(***************************************************************************)
(* What a reader writes: nothing, or the verdict on a packet it counts.    *)
(***************************************************************************)
LEMMA Counted ==
  ASSUME TypeInv, NetInv, NEW r \in Readers, NEW m \in net, readLoop(r, m)
  PROVE  /\ taken \subseteq taken'
         /\ \/ stats' = stats
            \/ \E v \in {"ok", "flip"} :
                 /\ stats' = [stats EXCEPT ![m.a.at][m.a.n] = v]
                 /\ Counts(m.a) \in taken'
                 /\ Evidence(Counts(m.a), m.a.at, m.a.n, v)
<1>1. taken \subseteq taken'
  BY DEF readLoop
<1>2. CASE Outcome(m.a) = None
  BY <1>1, <1>2 DEF readLoop
<1>3. CASE Outcome(m.a) # None
  <2>1. Accepts(r, m.a)
    BY DEF NetInv, readLoop
  <2>2. m.a.tos \/ tool = "sonar6"
    BY <2>1, AcceptedFacts DEF TypeInv
  <2>3. /\ Outcome(m.a)[1] = m.a.at
        /\ Outcome(m.a)[2] \in {"ok", "flip"}
        /\ Evidence(Counts(m.a), m.a.at, m.a.n, Outcome(m.a)[2])
    <3>1. CASE IsAnswer(m.a)
      <4>1. /\ Outcome(m.a)[1] = m.a.at
            /\ Outcome(m.a)[2] \in {"ok", "flip"}
            /\ Outcome(m.a)[2] = "flip" => m.a.load = "flip"
            /\ Outcome(m.a)[2] = "ok" => m.a.load # "flip" \/ cold
        BY <1>3, <3>1, AnswerOutcome DEF TypeInv
      <4>2. m.a.kind = "answer" /\ m.a.load \in {"ok", "flip"}
        BY <3>1 DEF IsAnswer
      <4> QED BY <2>2, <4>1, <4>2 DEF Evidence, Counts
    <3>2. CASE m.a \in Noise
      <4>1. /\ Outcome(m.a) = <<m.a.at, "ok">> /\ m.a.load = "ok"
            /\ \/ m.a.kind = "twin"
               \/ m.a.kind = "probe" /\ Sonar /\ m.a.port = ServerRange.min
        BY <1>3, <3>2, NoiseFacts DEF TypeInv
      <4>2. m.a.kind = "probe" => Sonar /\ RangesMeet
        BY <2>1, <4>1, AcceptedFacts, RangeFacts DEF TypeInv, RangesMeet
      <4> QED BY <2>2, <4>1, <4>2 DEF Evidence, Counts
    <3> QED BY <3>1, <3>2 DEF NetInv
  <2>4. /\ stats' = [stats EXCEPT ![m.a.at][m.a.n] = Outcome(m.a)[2]]
        /\ Counts(m.a) \in taken'
    BY <1>3, <2>3 DEF readLoop
  <2> QED BY <1>1, <2>3, <2>4
<1> QED BY <1>2, <1>3

LEMMA OwnStep ==
  ASSUME BelowLastPort, TypeInv, NetInv, OnlyOwnAnswers, [Next]_vars
  PROVE  OnlyOwnAnswers'
<1>0. /\ stats \in [Peers -> [Seqs -> {"none", "sent", "ok", "flip"}]]
      /\ tool' = tool
  BY SeqGrows DEF TypeInv, TypeOK
<1>1. SUFFICES ASSUME NEW p \in Peers, NEW n \in Seqs, stats'[p][n] \in {"ok", "flip"}
               PROVE  \E e \in taken' : Evidence(e, p, n, stats'[p][n])
  BY <1>0 DEF OnlyOwnAnswers, Evidence, Sonar, RangesMeet
<1>2. ASSUME stats'[p][n] = stats[p][n], taken \subseteq taken'
      PROVE  \E e \in taken' : Evidence(e, p, n, stats'[p][n])
  BY <1>1, <1>2, OwnAnswers
<1>3. CASE UNCHANGED <<stats, taken>>
  BY <1>2, <1>3
<1>4. CASE (\E q \in Peers : PutProbe(q)) \/ WriteProbe
  <2>1. taken' = taken
    BY <1>4 DEF PutProbe, WriteProbe
  <2>2. \E q, k : \/ stats' = stats \/ stats' = [stats EXCEPT ![q][k] = "none"]
                  \/ stats' = [stats EXCEPT ![q][k] = IF @ = "none" THEN "sent" ELSE @]
    BY <1>4 DEF PutProbe, WriteProbe, Deleted
  <2>3. stats'[p][n] \in {stats[p][n], "none", "sent"}
    BY <1>0, <2>2
  <2> QED BY <1>1, <1>2, <2>1, <2>3
<1>5. CASE \E r \in Readers, m \in net : readLoop(r, m)
  <2>1. PICK r \in Readers, m \in net : readLoop(r, m)
    BY <1>5
  <2>2. taken \subseteq taken'
    BY <2>1, Counted
  <2>3. CASE stats' = stats
    BY <1>2, <2>2, <2>3
  <2>4. CASE stats' # stats
    <3>1. PICK v \in {"ok", "flip"} :
            /\ stats' = [stats EXCEPT ![m.a.at][m.a.n] = v]
            /\ Counts(m.a) \in taken'
            /\ Evidence(Counts(m.a), m.a.at, m.a.n, v)
      BY <2>1, <2>4, Counted
    <3>2. stats'[p][n] = stats[p][n] \/ (p = m.a.at /\ n = m.a.n /\ stats'[p][n] = v)
      BY <1>0, <3>1
    <3> QED BY <1>2, <2>2, <3>1, <3>2
  <2> QED BY <2>3, <2>4
<1> QED BY <1>3, <1>4, <1>5, StatsChange

LEMMA UnsentStep ==
  ASSUME BelowLastPort, TypeInv, NetInv, Fresh, UnsentNotCounted, [Next]_vars
  PROVE  UnsentNotCounted'
<1>0. /\ stats \in [Peers -> [Seqs -> {"none", "sent", "ok", "flip"}]]
      /\ seq \in [Peers -> Nat]
      /\ wpc = "write" => at \in Peers /\ seq[at] \in Seqs
  BY TypesSplit, Sizes DEF TypeInv, TypeOK, RestTyped, Seqs
<1>1. \A x \in unsent : x = <<x[1], x[2]>> /\ x[1] \in Peers /\ x[2] \in Seqs
                        /\ x[2] <= seq[x[1]]
  BY DEF Fresh, Made
<1>2. ASSUME NEW q, NEW k, NEW v, unsent' = unsent,
             stats' = [stats EXCEPT ![q][k] = v],
             <<q, k>> \notin unsent \/ v # "sent"
      PROVE  UnsentNotCounted'
  BY <1>0, <1>1, <1>2 DEF UnsentNotCounted
<1>3. CASE stats' = stats /\ unsent' = unsent
  BY <1>3 DEF UnsentNotCounted
<1>4. CASE \E p \in Peers : PutProbe(p)
  <2>1. PICK p \in Peers : PutProbe(p)
    BY <1>4
  <2>2. seq'[p] = seq[p] + 1
    BY <2>1, NextProbeTypes DEF PutProbe
  <2>3. <<p, seq'[p]>> \notin unsent
    BY <1>0, <1>1, <2>2
  <2> QED BY <1>2, <2>1, <2>3 DEF PutProbe
<1>5. CASE WriteProbe
  <2>1. CASE stats' = [stats EXCEPT ![at][seq[at]] = "none"]
             /\ unsent' = unsent \cup {<<at, seq[at]>>}
    <3>1. stats'[at][seq[at]] = "none"
      BY <1>0, <1>5, <2>1 DEF WriteProbe
    <3>2. \A x \in unsent : stats'[x[1]][x[2]] # "sent"
      BY <1>0, <1>1, <2>1 DEF UnsentNotCounted
    <3> QED BY <2>1, <3>1, <3>2 DEF UnsentNotCounted
  <2> QED BY <1>3, <1>5, <2>1 DEF WriteProbe, Deleted
<1>6. CASE \E r \in Readers, m \in net : readLoop(r, m)
  <2>1. PICK r \in Readers, m \in net : readLoop(r, m)
    BY <1>6
  <2>2. unsent' = unsent
    BY <2>1 DEF readLoop
  <2>3. CASE stats' # stats
    <3>1. \E v \in {"ok", "flip"} : stats' = [stats EXCEPT ![m.a.at][m.a.n] = v]
      BY <2>1, <2>3, Counted
    <3> QED BY <1>2, <2>2, <3>1
  <2> QED BY <1>3, <2>2, <2>3
<1>7. (~ WriteProbe /\ ~ \E p \in Peers : PutProbe(p)) => unsent' = unsent
  <2>1. CASE Quiet
    BY <2>1 DEF Quiet, Dial, Cancelled, LimitOver, Cancel, Warm, Tick, ServeProbe,
                vars, history
  <2>2. CASE OpenReaders \/ Take \/ \E r \in Readers : ReadFails(r)
    BY <2>2 DEF OpenReaders, Take, ReadFails, history
  <2>3. CASE \E p \in Peers : EncodeFails(p) \/ StopAtLimit(p)
    BY <2>3 DEF EncodeFails, StopAtLimit, history
  <2>4. CASE \E r \in Readers, m \in net : readLoop(r, m)
    BY <2>4 DEF readLoop
  <2> QED BY <2>1, <2>2, <2>3, <2>4, Steps
<1> QED BY <1>3, <1>4, <1>5, <1>6, <1>7, StatsChange

LEMMA EchoStep ==
  ASSUME TypeInv, NetInv, NoEchoLoop, [Next]_vars
  PROVE  NoEchoLoop'
<1>1. CASE echoed' = echoed
  BY <1>1 DEF NoEchoLoop
<1>2. CASE \E m \in net : ServeProbe(m)
  <2>1. PICK m \in net : ServeProbe(m)
    BY <1>2
  <2>2. tool = "kuiniu"
    BY <2>1 DEF ServeProbe, NetInv
  <2>3. ServerTakes(m.a) => m.a.kind = "probe"
    BY <2>2, NoiseFacts DEF NetInv, IsAnswer, ServerTakes, TypeInv
  <2> QED BY <2>1, <2>3 DEF ServeProbe, NoEchoLoop
<1>3. echoed' = echoed \/ \E m \in net : ServeProbe(m)
  BY Steps DEF Quiet, OpenReaders, Take, WriteProbe, EncodeFails, StopAtLimit,
               PutProbe, ReadFails, readLoop, Dial, Cancelled, LimitOver, Cancel,
               Warm, Tick, vars, server
<1> QED BY <1>1, <1>2, <1>3

-----------------------------------------------------------------------------
(* the limit                                                               *)

Limited == tool # "evr" /\ conf.count > 0

(***************************************************************************)
(* While the writer works its counter is the number of probes handed over; *)
(* a probe that cannot be encoded is not counted.  The limit ends the work *)
(* at that number, and nothing is handed over after it.                    *)
(***************************************************************************)
CountInv ==
  /\ IsFiniteSet(puts)
  /\ wpc \notin {"limit", "done"} => Cardinality(puts) = count
  /\ Limited => Cardinality(puts) <= conf.count
  /\ wpc = "limit" \/ ret = "limit" =>
       (Limited /\ ~ conf.timed => Cardinality(puts) = conf.count)

LEMMA CountStep ==
  ASSUME BelowLastPort, TypeInv, Fresh, CountInv, [Next]_vars
  PROVE  CountInv'
<1>0. /\ Cardinality(puts) \in Nat /\ count \in Nat
      /\ conf \in Confs /\ conf.count \in Int
  BY FS_CardinalityType, UdpClientAssumption DEF CountInv, TypeInv, TypeOK
<1>1. Limited' <=> Limited
  BY SeqGrows DEF Limited
<1>2. ASSUME UNCHANGED <<tool, conf, puts>>,
             wpc' \notin {"limit", "done"} => wpc \notin {"limit", "done"} /\ count' = count,
             wpc' = "limit" \/ ret' = "limit" => wpc = "limit" \/ ret = "limit"
      PROVE  CountInv'
  BY <1>1, <1>2 DEF CountInv
<1>3. CASE OpenReaders
  BY <1>2, <1>3 DEF OpenReaders, history
<1>4. CASE Take \/ \E r \in Readers : ReadFails(r)
  BY <1>2, <1>4 DEF Take, ReadFails, history, writer
<1>5. CASE WriteProbe
  BY <1>2, <1>5 DEF WriteProbe, NextPeer, history
<1>6. CASE \E r \in Readers, m \in net : readLoop(r, m)
  BY <1>2, <1>6 DEF readLoop, writer
<1>7. CASE Quiet
  <2>1. UNCHANGED <<tool, conf, puts, count>>
    BY <1>7 DEF Quiet, Dial, Cancelled, LimitOver, Cancel, Warm, Tick, ServeProbe,
                vars, history, writer
  <2>2. /\ wpc' \in {wpc, "done"} \/ (wpc = "dial" /\ wpc' = "top")
        /\ ret' \in {ret, "failed", "cancelled"} \/ (wpc = "limit" /\ ret' = "limit")
    BY <1>7 DEF Quiet, Dial, Cancelled, LimitOver, LeaveOpen, Leave, Cancel, Warm,
                Tick, ServeProbe, vars, writer
  <2> QED BY <1>2, <2>1, <2>2
<1>8. CASE \E p \in Peers : EncodeFails(p)
  BY <1>2, <1>8 DEF EncodeFails, NextPeer, history
<1>9. CASE \E p \in Peers : StopAtLimit(p)
  <2>1. /\ wpc = "send" /\ UNCHANGED <<tool, conf, puts>>
        /\ wpc' \in {"limit", "done"}
        /\ LimitReached \/ conf.timed
    BY <1>9 DEF StopAtLimit, AtLimit, reachedLimit, Leave, history
  <2>2. Limited /\ ~ conf.timed => Cardinality(puts) = conf.count
    BY <1>0, <2>1 DEF LimitReached, CountInv, Limited
  <2> QED BY <1>1, <2>1, <2>2 DEF CountInv
<1>10. CASE \E p \in Peers : PutProbe(p)
  <2>1. PICK p \in Peers : PutProbe(p)
    BY <1>10
  <2>2. /\ wpc = "send" /\ wpc' = "write" /\ count' = count + 1 /\ ret' = ret
        /\ tool # "evr" => ~ LimitReached
        /\ puts' = puts \cup {<<p, seq'[p]>>} /\ UNCHANGED <<tool, conf>>
    BY <2>1 DEF PutProbe
  <2>3. seq'[p] = seq[p] + 1 /\ seq[p] \in Nat
    BY <2>1, NextProbeTypes, Sizes DEF PutProbe, TypeInv, TypeOK
  <2>4. <<p, seq'[p]>> \notin puts
    BY <2>3 DEF Fresh, Made
  <2>5. IsFiniteSet(puts') /\ Cardinality(puts') = Cardinality(puts) + 1
    BY <2>2, <2>4, FS_AddElement DEF CountInv
  <2>6. ret # "limit"
    BY <2>2 DEF TypeInv, Bounded
  <2>7. Cardinality(puts') = count' /\ (Limited => count' <= conf.count)
    BY <1>0, <2>2, <2>5 DEF CountInv, LimitReached, Limited
  <2> QED BY <1>1, <2>2, <2>5, <2>6, <2>7 DEF CountInv
<1> QED BY <1>3, <1>4, <1>5, <1>6, <1>7, <1>8, <1>9, <1>10, Steps

(***************************************************************************)
(* Once time has passed in the grace period, every answer has been read.   *)
(***************************************************************************)
Drained == Sonar /\ wpc = "limit" /\ wait < Grace => Pending = {}

LEMMA DrainStep ==
  ASSUME TypeInv, NetInv, Drained, [Next]_vars
  PROVE  Drained'
<1>0. tool' = tool => Readers' = Readers /\ (Sonar' <=> Sonar)
  BY SameReaders DEF Sonar
<1>1. ASSUME tool' = tool, wpc = "limit", wait' = wait, open' = open,
             \A r \in Readers : reader'[r] = "reading" => reader[r] = "reading"
      PROVE  Drained'
  <2>1. SUFFICES ASSUME Pending = {}, NEW x \in net', NEW r \in x.left, Listening(r)'
                 PROVE  FALSE
    BY <1>0, <1>1 DEF Drained, Pending
  <2>2. Listening(r)
    BY <1>0, <1>1, <2>1 DEF Listening
  <2>3. Kept(x)
    BY <1>1, NetStep DEF Heard, Answered
  <2>4. PICK m \in net : r \in m.left
    BY <2>3 DEF Kept
  <2> QED BY <2>1, <2>2, <2>4 DEF Pending
<1>2. CASE wpc' # "limit"
  BY <1>2 DEF Drained
<1>3. ASSUME wpc' = "limit", OpenReaders \/ Take \/ WriteProbe PROVE Drained'
  BY <1>3 DEF OpenReaders, Take, WriteProbe, NextPeer
<1>4. ASSUME wpc' = "limit",
             \E p \in Peers : EncodeFails(p) \/ StopAtLimit(p) \/ PutProbe(p)
      PROVE  Drained'
  <2>1. wait' = Grace \/ ~ Sonar'
    BY <1>0, <1>4 DEF EncodeFails, StopAtLimit, PutProbe, AtLimit, reachedLimit,
                      NextPeer, Leave
  <2> QED BY <2>1, Sizes DEF Drained
<1>5. ASSUME wpc' = "limit", NEW r \in Readers, ReadFails(r) PROVE Drained'
  <2>1. UNCHANGED <<tool, wpc, wait, open>>
    BY <1>5 DEF ReadFails, writer
  <2>2. \A u \in Readers : reader'[u] = "reading" => reader[u] = "reading"
    BY <1>5 DEF ReadFails, TypeInv, TypeOK
  <2> QED BY <1>1, <1>5, <2>1, <2>2
<1>6. ASSUME wpc' = "limit", NEW r \in Readers, NEW m \in net, readLoop(r, m)
      PROVE  Drained'
  <2>1. UNCHANGED <<tool, wpc, wait, open>>
    BY <1>6 DEF readLoop, writer
  <2>2. \A u \in Readers : reader'[u] = "reading" => reader[u] = "reading"
    BY <1>6 DEF readLoop, TypeInv, TypeOK
  <2> QED BY <1>1, <1>6, <2>1, <2>2
<1>7. CASE Tick
  <2>1. Pending = {} /\ UNCHANGED <<tool, net, reader, open>>
    BY <1>7 DEF Tick, readers
  <2>2. Pending' = {}
    BY <1>0, <2>1 DEF Pending, Listening
  <2> QED BY <2>2 DEF Drained
<1>8. ASSUME wpc' = "limit", Quiet, ~ Tick PROVE Drained'
  <2>1. UNCHANGED <<tool, wait, reader>>
    BY <1>8 DEF Quiet, Dial, Cancelled, LimitOver, Cancel, Warm, ServeProbe, vars,
                writer, readers
  <2>2. UNCHANGED <<wpc, open>>
    BY <1>8 DEF Quiet, Dial, Cancelled, LimitOver, LeaveOpen, Leave, Cancel, Warm,
                ServeProbe, vars, writer, readers
  <2> QED BY <1>1, <1>8, <2>1, <2>2
<1> QED BY <1>2, <1>3, <1>4, <1>5, <1>6, <1>7, <1>8, Steps

-----------------------------------------------------------------------------
(* the theorems                                                            *)

UdpInv ==
  /\ TypeInv /\ NetInv /\ Fresh
  /\ OnlyOwnAnswers /\ UnsentNotCounted /\ NoEchoLoop
  /\ CountInv /\ Drained

LEMMA UdpInit == Init => UdpInv
<1> SUFFICES ASSUME Init PROVE UdpInv
  OBVIOUS
<1>1. TypeInv
  BY TypeInit
<1>2. NetInv /\ Fresh /\ NoEchoLoop /\ Drained /\ UnsentNotCounted
  BY DEF Init, NetInv, Fresh, NoEchoLoop, Drained, UnsentNotCounted
<1>3. OnlyOwnAnswers
  BY DEF Init, OnlyOwnAnswers
<1>4. CountInv
  <2>1. puts = {} /\ IsFiniteSet(puts) /\ Cardinality(puts) = 0 /\ count = 0
    BY FS_EmptySet DEF Init
  <2>2. conf.count \in Int
    BY UdpClientAssumption DEF Init
  <2> QED BY <2>1, <2>2 DEF Init, CountInv, Limited
<1> QED BY <1>1, <1>2, <1>3, <1>4 DEF UdpInv

LEMMA UdpStep ==
  ASSUME BelowLastPort PROVE UdpInv /\ [Next]_vars => UdpInv'
BY TypeStep, NetInvStep, FreshStep, OwnStep, UnsentStep, EchoStep, CountStep,
   DrainStep DEF UdpInv

LEMMA UdpAlways == ASSUME BelowLastPort PROVE Spec => []UdpInv
BY UdpInit, UdpStep, PTL DEF Spec

(***************************************************************************)
(* The variables stay in their types: in particular the ports of every     *)
(* peer stay in their ranges (GetNextPorts).                               *)
(***************************************************************************)
THEOREM TypesHold == ASSUME BelowLastPort PROVE Spec => []TypeOK
<1>1. UdpInv => TypeOK
  BY DEF UdpInv, TypeInv
<1> QED BY <1>1, UdpAlways, PTL

(***************************************************************************)
(* A probe counts as answered only by a packet from its own peer with its  *)
(* own number, however many peers share the ports: the answer to it or to  *)
(* a twin's, or in sonar, where the ranges meet, a probe of the peer's own *)
(* (handlePacket).  The packets of others are those of Noise.              *)
(***************************************************************************)
THEOREM CountedWasAnswered == ASSUME BelowLastPort PROVE Spec => []OnlyOwnAnswers
<1>1. UdpInv => OnlyOwnAnswers
  BY DEF UdpInv
<1> QED BY <1>1, UdpAlways, PTL

(***************************************************************************)
(* The sub-ranges of the readers partition the client ports, whatever the  *)
(* range and the number of readers: an answer has exactly one reader       *)
(* (serveRead).                                                            *)
(***************************************************************************)
THEOREM AnswersHaveOneReader ==
  ASSUME BelowLastPort PROVE Spec => []OneReaderPerAnswer
<1>1. UdpInv => OneReaderPerAnswer
  <2>1. SUFFICES ASSUME UdpInv, NEW m \in net, m.a.kind = "answer"
                 PROVE  Cardinality({r \in Readers : Accepts(r, m.a)}) = 1
    BY DEF OneReaderPerAnswer
  <2>2. IsAnswer(m.a)
    BY <2>1, NoiseFacts DEF UdpInv, NetInv, TypeInv
  <2> QED BY <2>1, <2>2, OneAccepts DEF UdpInv, TypeInv
<1> QED BY <1>1, UdpAlways, PTL

(***************************************************************************)
(* kuiniu's server records and echoes the other machine's probes alone,    *)
(* also where the port ranges overlap (server.go, ServerTakes).            *)
(***************************************************************************)
THEOREM NoEchoIsEchoed == ASSUME BelowLastPort PROVE Spec => []NoEchoLoop
<1>1. UdpInv => NoEchoLoop
  BY DEF UdpInv
<1> QED BY <1>1, UdpAlways, PTL

(***************************************************************************)
(* A probe that was not written is never left waiting for an answer,       *)
(* whatever packets are still under way (Stat.Delete).                     *)
(***************************************************************************)
THEOREM UnsentStaysDeleted == ASSUME BelowLastPort PROVE Spec => []UnsentNotCounted
<1>1. UdpInv => UnsentNotCounted
  BY DEF UdpInv
<1> QED BY <1>1, UdpAlways, PTL

(***************************************************************************)
(* A run of sonar with a Count hands over that many probes and no more,    *)
(* and stops at the limit only when it has (serveWrite).                   *)
(***************************************************************************)
THEOREM CountIsKept == ASSUME BelowLastPort PROVE Spec => []CountIsExact
<1>1. UdpInv => CountIsExact
  BY DEF UdpInv, CountInv, CountIsExact, Limited, Sonar
<1> QED BY <1>1, UdpAlways, PTL

(***************************************************************************)
(* sonar returns at its limit only when every answer that came to a live   *)
(* reader has been read, unless it is cancelled (reachedLimit).            *)
(***************************************************************************)
THEOREM LimitWaitsForAnswers == ASSUME BelowLastPort PROVE Spec => LimitDrains
<1> DEFINE Drains == Sonar /\ ret # ret' /\ ret' = "limit" /\ ~ ctx => Pending = {}
<1>1. ASSUME UdpInv, [Next]_vars PROVE [Drains]_vars
  <2>1. SUFFICES ASSUME Sonar, ret # ret', ret' = "limit", ~ ctx PROVE Pending = {}
    OBVIOUS
  <2>2. LimitOver
    <3>1. ~ OpenReaders /\ ~ Take /\ ~ WriteProbe
      BY <2>1 DEF OpenReaders, Take, WriteProbe
    <3>2. ~ \E p \in Peers : EncodeFails(p) \/ StopAtLimit(p) \/ PutProbe(p)
      BY <2>1 DEF EncodeFails, StopAtLimit, PutProbe, AtLimit, reachedLimit
    <3>3. ~ \E r \in Readers : ReadFails(r)
      BY <2>1 DEF ReadFails
    <3>4. ~ \E r \in Readers, m \in net : readLoop(r, m)
      BY <2>1 DEF readLoop
    <3>5. Quiet => LimitOver
      BY <2>1 DEF Quiet, Dial, Cancelled, LeaveOpen, Leave, Cancel, Warm, Tick,
                  ServeProbe, vars
    <3> QED BY <1>1, <3>1, <3>2, <3>3, <3>4, <3>5, Steps
  <2>3. wpc = "limit" /\ wait = 0
    BY <2>1, <2>2 DEF LimitOver
  <2> QED BY <1>1, <2>1, <2>3, Sizes DEF UdpInv, Drained
<1>2. UdpInv /\ [Next]_vars => [Drains]_vars
  BY <1>1
<1> QED BY <1>2, UdpAlways, PTL DEF Spec, LimitDrains
=============================================================================
