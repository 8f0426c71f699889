---------------------------- MODULE ProberProofs ----------------------------
(***************************************************************************)
(* ping, ping6 and lidar for every number of targets, every process id,    *)
(* every start of the sequence numbers and every range of source ports:    *)
(* what is counted was read and has the marks of an answer, an answer that *)
(* is read is counted while the numbers have not come round, and an error  *)
(* of a stopped run comes from a failure or from ping's own Close.         *)
(***************************************************************************)
EXTENDS Prober, Integers, TLAPS

-----------------------------------------------------------------------------
(* arithmetic                                                              *)

LEMMA Sizes ==
  /\ N \in Nat /\ N > 0 /\ Word \in Nat /\ N < Word /\ Word > 0 /\ Pid \in Nat
  /\ 1 \in Targets /\ N \in Targets
  /\ MaxRounds \in Nat
BY ProberAssumption DEF Targets

(***************************************************************************)
(* Division with a rest.                                                   *)
(***************************************************************************)
LEMMA Division ==
  ASSUME NEW d \in Nat, d > 0, NEW a \in Nat
  PROVE  \E q \in Int, r \in 0 .. d - 1 : q * d + r = a /\ a % d = r
BY Z3

(***************************************************************************)
(* Two numbers that agree modulo d and are less than d apart are equal.    *)
(***************************************************************************)
LEMMA RemainderTells ==
  ASSUME NEW d \in Nat, d > 0, NEW a \in Nat, NEW b \in Nat, a % d = b % d,
         a - b < d, b - a < d
  PROVE  a = b
<1>1. PICK q \in Int, r \in 0 .. d - 1 : q * d + r = a /\ a % d = r
  BY Division
<1>2. PICK p \in Int, u \in 0 .. d - 1 : p * d + u = b /\ b % d = u
  BY Division
<1>3. r = u /\ r \in Int
  BY <1>1, <1>2
<1>4. a - b = (q - p) * d
  BY <1>1, <1>2, <1>3
<1>5. q - p >= 1 => (q - p) * d >= d
  OBVIOUS
<1>6. q - p <= -1 => (q - p) * d <= -d
  OBVIOUS
<1>7. q = p
  BY <1>4, <1>5, <1>6
<1> QED BY <1>1, <1>2, <1>3, <1>7

(***************************************************************************)
(* A sum of a multiple of d and a rest less than d.                        *)
(***************************************************************************)
LEMMA RemainderOf ==
  ASSUME NEW d \in Nat, d > 0, NEW m \in Int, NEW x \in 0 .. d - 1,
         NEW v \in Nat, v = m * d + x
  PROVE  v % d = x
<1>1. PICK q \in Int, r \in 0 .. d - 1 : q * d + r = v /\ v % d = r
  BY Division
<1>2. (m - q) * d = r - x
  BY <1>1
<1>3. m - q >= 1 => (m - q) * d >= d
  OBVIOUS
<1>4. m - q <= -1 => (m - q) * d <= -d
  OBVIOUS
<1>5. m = q
  BY <1>1, <1>2, <1>3, <1>4
<1> QED BY <1>1, <1>2, <1>5

LEMMA OneOff ==
  ASSUME NEW d \in Nat, d > 0, NEW x \in 0 .. d - 1, NEW v \in Nat, v = d + x
  PROVE  v % d = x
<1>1. PICK m \in Int : m = 1
  OBVIOUS
<1>2. v = m * d + x
  BY <1>1
<1> QED BY <1>2, RemainderOf

LEMMA AckSizes ==
  /\ AckWord \in Nat /\ AckWord > 0 /\ LongWord \in Nat /\ LongWord > 0
  /\ AckWord <= LongWord
BY ProberAssumption

(***************************************************************************)
(* The acknowledgement number gives back the last bits of the number.      *)
(***************************************************************************)
LEMMA AckGivesNumber ==
  ASSUME NEW n \in Nat
  PROVE  (((n + 1) % AckWord) + AckWord - 1) % AckWord = n % AckWord
<1>1. PICK q \in Int, r \in 0 .. AckWord - 1 :
        q * AckWord + r = n /\ n % AckWord = r
  BY Division, AckSizes
<1>2. CASE r = AckWord - 1
  <2>1. PICK m \in Int, x \in 0 .. AckWord - 1 : m = q + 1 /\ x = 0
    <3>1. q + 1 \in Int /\ 0 \in 0 .. AckWord - 1
      BY AckSizes
    <3> QED BY <3>1
  <2>2. PICK v \in Nat : v = n + 1
    OBVIOUS
  <2>3. m * AckWord = q * AckWord + AckWord
    BY <2>1, AckSizes
  <2>p. PICK y \in Int : y = q * AckWord
    BY AckSizes
  <2>4. v = m * AckWord + x
    <3>1. y + AckWord - 1 = n
      BY <1>1, <1>2, <2>p
    <3>2. m * AckWord = y + AckWord
      BY <2>3, <2>p
    <3> QED BY <2>1, <2>2, <2>p, <3>1, <3>2, AckSizes
  <2>r. v % AckWord = x
    BY <2>4, AckSizes, RemainderOf
  <2>5. (n + 1) % AckWord = 0
    BY <2>1, <2>2, <2>r
  <2>6. (AckWord - 1) % AckWord = AckWord - 1
    BY AckSizes
  <2>7. 0 + AckWord - 1 = AckWord - 1
    BY AckSizes
  <2> QED BY <1>1, <1>2, <2>5, <2>6, <2>7
<1>3. CASE r < AckWord - 1
  <2>1. PICK x \in 0 .. AckWord - 1 : x = r + 1
    <3>1. r + 1 \in 0 .. AckWord - 1
      BY <1>3, AckSizes
    <3> QED BY <3>1
  <2>2. PICK v \in Nat : v = n + 1
    OBVIOUS
  <2>p. PICK y \in Int : y = q * AckWord
    BY AckSizes
  <2>3. v = q * AckWord + x
    BY <1>1, <2>1, <2>2, <2>p
  <2>r. v % AckWord = x
    BY <2>3, AckSizes, RemainderOf
  <2>4. (n + 1) % AckWord = r + 1
    BY <2>1, <2>2, <2>r
  <2>5. PICK w \in Nat : w = AckWord + r
    BY AckSizes
  <2>6. w % AckWord = r
    BY <2>5, AckSizes, OneOff
  <2>7. r + 1 + AckWord - 1 = w
    BY <2>5, AckSizes
  <2> QED BY <1>1, <2>4, <2>6, <2>7
<1> QED BY <1>1, <1>2, <1>3, AckSizes

(***************************************************************************)
(* Every number of 32 bits but zero gives the target whose turn it was.    *)
(***************************************************************************)
TargetOf(s) == (((s + LongWord - 1) % LongWord) % N) + 1

LEMMA NumberGivesTarget ==
  ASSUME NEW s \in 0 .. AckWord - 1
  PROVE  TargetOf(s) \in Targets /\ (s > 0 => TargetOf(s) = ((s - 1) % N) + 1)
<1>1. s + LongWord - 1 \in Nat /\ s \in Nat
  BY AckSizes
<1>2. PICK w \in Nat : w = (s + LongWord - 1) % LongWord
  BY <1>1, AckSizes
<1>3. w % N \in 0 .. N - 1
  BY Sizes
<1>4. TargetOf(s) \in Targets
  BY <1>2, <1>3, Sizes DEF TargetOf, Targets
<1>5. ASSUME s > 0 PROVE TargetOf(s) = ((s - 1) % N) + 1
  <2>1. PICK x \in 0 .. LongWord - 1 : x = s - 1
    <3>1. s - 1 \in 0 .. LongWord - 1
      BY <1>5, AckSizes
    <3> QED BY <3>1
  <2>2. PICK v \in Nat : v = s + LongWord - 1 /\ v = LongWord + x
    BY <1>1, <2>1, AckSizes
  <2>3. v % LongWord = x
    BY <2>2, AckSizes, OneOff
  <2> QED BY <2>1, <2>2, <2>3 DEF TargetOf
<1> QED BY <1>4, <1>5

LEMMA WireMod ==
  ASSUME NEW n \in Nat
  PROVE  /\ Wire \in Nat /\ Wire > 0 /\ n % Wire \in Keys
         /\ n % AckWord \in 0 .. AckWord - 1
         /\ 0 .. AckWord - 1 \subseteq Keys /\ Words \subseteq Keys
BY Sizes, AckSizes DEF Wire, Keys, Words

LEMMA WordMod ==
  ASSUME NEW x \in Nat
  PROVE  x % Word \in Words /\ (x < Word => x % Word = x)
BY Sizes DEF Words

(***************************************************************************)
(* The salt of a sequence number survives the cut to the width it has on   *)
(* the wire.                                                               *)
(***************************************************************************)
LEMMA SaltOnWire ==
  ASSUME NEW n \in Nat
  PROVE  Salt(n % Word) = Salt(n)
<1>1. PICK w \in Int : Word = 4 * w
  <2>1. PICK q \in Int, r \in 0 .. 3 : q * 4 + r = Word /\ Word % 4 = r
    BY Division, Sizes
  <2>2. r = 0
    BY <2>1, ProberAssumption
  <2> QED BY <2>1, <2>2
<1>2. PICK q \in Int, r \in 0 .. Word - 1 : q * Word + r = n /\ n % Word = r
  BY Division, Sizes
<1>3. PICK k \in Int : k = w * q
  OBVIOUS
<1>4. q * Word = 4 * k
  BY <1>1, <1>3
<1>5. n = 4 * k + r /\ r \in Nat
  BY <1>2, <1>4, Sizes
<1>6. n % 4 = r % 4
  BY <1>5
<1> QED BY <1>2, <1>6 DEF Salt

-----------------------------------------------------------------------------
(* the receivers                                                           *)

(***************************************************************************)
(* The numbers in use: s is where rand.Int63() let the numbers of the      *)
(* targets start, lidar starts at zero.                                    *)
(***************************************************************************)
Used(s, t, n) ==
  /\ t \in Targets /\ n \in Nat
  /\ Echo => s < n /\ n <= seq[t]
  /\ tool = "lidar" => 1 <= n /\ n <= seq[0] /\ ((n - 1) % N) + 1 = t

(***************************************************************************)
(* What is known of an answer to one of our probes.                        *)
(***************************************************************************)
OwnEcho(p) ==
  /\ p.type = "reply" /\ p.id = IcmpID(p.src) /\ p.seq = p.n % Word
  /\ p.kind \in {"ok", "flip"} /\ p.full = TRUE
  /\ p.salt = IF p.kind = "ok" THEN Salt(p.n) ELSE BadSalt

OwnSyn(p) ==
  /\ p.type = p.kind /\ p.kind \in {"ok", "rst"}
  /\ p.sport = ServerPort
  /\ RangeBelowEnd => p.dport \in SrcPort .. SrcPort + PortCount - 1
  /\ p.ack = (p.n + 1) % AckWord

OwnPacket(s, p) ==
  /\ Used(s, p.src, p.n)
  /\ Echo => OwnEcho(p)
  /\ tool = "lidar" => OwnSyn(p)

Ours(p) == p.kind # "noise"

(***************************************************************************)
(* handleEchoReply files an answer under its target and its number, with   *)
(* the verdict it carries.                                                 *)
(***************************************************************************)
LEMMA EchoFiled ==
  ASSUME NEW p, p.src \in Targets, p.n \in Nat, OwnEcho(p)
  PROVE  handleEchoReply(p) = Filed(p.src, p.n % Word, p.kind)
<1> DEFINE ts == {t \in findTargetByICMPID(p.id) : t = p.src}
<1>1. ts = {p.src}
  BY DEF findTargetByICMPID, OwnEcho
<1>2. (CHOOSE t \in ts : TRUE) = p.src
  BY <1>1
<1>3. Salt(p.seq) = Salt(p.n) /\ Salt(p.n) # BadSalt
  <2>1. Salt(p.n) # BadSalt
    BY DEF Salt, BadSalt
  <2> QED BY <2>1, SaltOnWire DEF OwnEcho
<1>4. (IF Bitflip(p) THEN "flip" ELSE "ok") = p.kind
  BY <1>3 DEF OwnEcho, Bitflip
<1> HIDE DEF ts
<1>5. ts # {} /\ p.seq = p.n % Word
  BY <1>1 DEF OwnEcho
<1> QED BY <1>2, <1>4, <1>5 DEF handleEchoReply, ts

(***************************************************************************)
(* What processParsedPacket files of an answer it files under the last     *)
(* bits of its number, and for the target unless that number has wrapped.  *)
(* An answer for a port of a range that ends below the last port is filed. *)
(***************************************************************************)
LEMMA SynFiled ==
  ASSUME NEW p, p.src \in Targets, p.n \in Nat, OwnSyn(p),
         1 <= p.n, ((p.n - 1) % N) + 1 = p.src
  PROVE  /\ \/ processParsedPacket(p) = None
            \/ processParsedPacket(p)
                 = Filed(TargetOf(p.n % AckWord), p.n % AckWord, p.kind)
         /\ TargetOf(p.n % AckWord) \in Targets
         /\ p.n < AckWord => TargetOf(p.n % AckWord) = p.src
         /\ RangeBelowEnd => processParsedPacket(p) # None
<1> DEFINE s == (p.ack + AckWord - 1) % AckWord
<1>1. s = p.n % AckWord
  BY AckGivesNumber DEF OwnSyn
<1>2. p.n % AckWord \in 0 .. AckWord - 1
  BY WireMod
<1>3. TargetOf(p.n % AckWord) \in Targets
  BY <1>2, NumberGivesTarget
<1>4. ASSUME p.n < AckWord PROVE TargetOf(p.n % AckWord) = p.src
  <2>1. p.n % AckWord = p.n
    BY <1>4, AckSizes
  <2> QED BY <1>2, <2>1, NumberGivesTarget
<1>5. ASSUME RangeBelowEnd
      PROVE  /\ buildBPFProbeFilter(p) /\ p.sport = ServerPort
             /\ ~ (p.dport < SrcPort \/ p.dport >= SrcPort + PortCount)
  <2>1. SrcPort \in Nat /\ PortCount \in Nat /\ PortWord \in Nat
        /\ SrcPort + PortCount < PortWord
    BY <1>5, ProberAssumption DEF RangeBelowEnd
  <2>2. (SrcPort + PortCount) % PortWord = SrcPort + PortCount
    BY <2>1
  <2> QED BY <1>5, <2>1, <2>2 DEF buildBPFProbeFilter, OwnSyn
<1>6. p.type \in {"ok", "rst"} /\ p.type = p.kind
  BY DEF OwnSyn
<1> HIDE DEF s
<1>7. \/ processParsedPacket(p) = None
      \/ processParsedPacket(p) = Filed(TargetOf(s), s, p.type)
  BY DEF processParsedPacket, s, TargetOf
<1>8. RangeBelowEnd => processParsedPacket(p) = Filed(TargetOf(s), s, p.type)
  BY <1>5, <1>6 DEF processParsedPacket, s, TargetOf
<1>9. Filed(TargetOf(s), s, p.type) # None
  BY DEF Filed, None
<1> QED BY <1>1, <1>3, <1>4, <1>6, <1>7, <1>8, <1>9

(***************************************************************************)
(* An answer to one of our probes counts under the number it carries back, *)
(* if at all, and for its target unless that number has wrapped.           *)
(***************************************************************************)
LEMMA AnswerFiled ==
  ASSUME NEW s, NEW p, OwnPacket(s, p), tool \in {"ping", "ping6", "lidar"}
  PROVE  \E t \in Targets :
           /\ Outcome(p) = None \/ Outcome(p) = Filed(t, p.n % Wire, p.kind)
           /\ Echo \/ p.n < AckWord => t = p.src
           /\ RangeBelowEnd => Outcome(p) # None
<1>1. p.src \in Targets /\ p.n \in Nat
  BY DEF OwnPacket, Used
<1>2. CASE Echo
  <2>1. OwnEcho(p) /\ p.type = "reply"
    BY <1>2 DEF OwnPacket, OwnEcho
  <2>2. handleEchoReply(p) = Filed(p.src, p.n % Word, p.kind)
    BY <1>1, <2>1, EchoFiled
  <2>3. Outcome(p) = Filed(p.src, p.n % Wire, p.kind)
    BY <1>2, <2>1, <2>2
       DEF Echo, Wire, Outcome, processPacket, processPacket6, handleEchoReply6
  <2>4. Filed(p.src, p.n % Wire, p.kind) # None
    BY DEF Filed, None
  <2> QED BY <1>1, <2>3, <2>4
<1>3. CASE tool = "lidar"
  <2>1. OwnSyn(p) /\ 1 <= p.n /\ ((p.n - 1) % N) + 1 = p.src
    BY <1>3 DEF OwnPacket, Used
  <2>2. ~ Echo /\ Wire = AckWord /\ Outcome(p) = processParsedPacket(p)
    BY <1>3 DEF Echo, Wire, Outcome
  <2> QED BY <1>1, <2>1, <2>2, SynFiled
<1> QED BY <1>2, <1>3 DEF Echo

(***************************************************************************)
(* Of the other packets the socket delivers those count that have every    *)
(* mark of an answer, with the verdict they carry.                         *)
(***************************************************************************)
LEMMA StrayFiled ==
  ASSUME NEW p \in Noise, tool \in {"ping", "ping6", "lidar"}
  PROVE  /\ p.kind = "noise"
         /\ \/ Outcome(p) = None
            \/ \E t \in Targets, k \in Keys :
                 /\ Outcome(p) = Filed(t, k, Carries(p))
                 /\ Resembles(p, t, k) /\ Carries(p) \in {"ok", "flip", "rst"}
<1>1. CASE Echo
  <2>0. p \in EchoNoise
    BY <1>1 DEF Noise
  <2>1. p.kind = "noise"
    BY <2>0 DEF EchoNoise, Reply
  <2>2. p.type # "reply" => Outcome(p) = None
    BY <1>1 DEF Echo, Outcome, processPacket, processPacket6
  <2>3. ASSUME p.type = "reply"
        PROVE  /\ p.seq = NoiseSeq
               /\ Outcome(p) = handleEchoReply(p)
    <3>1. p.seq = NoiseSeq
      BY <2>0, <2>3 DEF EchoNoise, Reply
    <3> QED BY <1>1, <2>3, <3>1
            DEF Echo, Outcome, processPacket, processPacket6, handleEchoReply6
  <2>4. ASSUME p.type = "reply", handleEchoReply(p) # None
        PROVE  /\ handleEchoReply(p) = Filed(p.src, p.seq, Carries(p))
               /\ p.src \in Targets /\ p.id = IcmpID(p.src)
    <3> DEFINE ts == {t \in findTargetByICMPID(p.id) : t = p.src}
    <3>1. ts # {}
      BY <2>4 DEF handleEchoReply
    <3>2. ts = {p.src} /\ p.src \in Targets /\ p.id = IcmpID(p.src)
      BY <3>1 DEF findTargetByICMPID
    <3>3. (CHOOSE t \in ts : TRUE) = p.src
      BY <3>2
    <3> HIDE DEF ts
    <3> QED BY <1>1, <3>1, <3>2, <3>3 DEF handleEchoReply, ts, Carries
  <2>5. NoiseSeq \in Keys /\ Carries(p) \in {"ok", "flip", "rst"}
    BY <1>1, ProberAssumption DEF Keys, Words, Carries
  <2>6. ASSUME p.type = "reply", handleEchoReply(p) # None
        PROVE  Resembles(p, p.src, p.seq)
    BY <1>1, <2>4, <2>6 DEF Resembles
  <2> QED BY <2>1, <2>2, <2>3, <2>4, <2>5, <2>6
<1>2. CASE tool = "lidar"
  <2>0. p \in SynNoise /\ ~ Echo
    BY <1>2 DEF Noise, Echo
  <2>1. /\ p.kind = "noise" /\ p.dport \in Int
        /\ p.ack = NoiseSeq % AckWord
    BY <2>0, ProberAssumption DEF SynNoise, Segment
  <2>2. PICK c \in 0 .. AckWord - 1 : c = p.ack
    BY <2>1, ProberAssumption, AckSizes, WireMod DEF Words
  <2> DEFINE k == (p.ack + AckWord - 1) % AckWord
  <2>3. k \in 0 .. AckWord - 1 /\ p.ack = (k + 1) % AckWord
    <3>1. CASE c = 0
      <4>1. (AckWord - 1) % AckWord = AckWord - 1 /\ 0 + AckWord - 1 = AckWord - 1
        BY AckSizes
      <4>2. k = AckWord - 1
        BY <2>2, <3>1, <4>1
      <4>3. PICK x \in 0 .. AckWord - 1 : x = 0
        <5>1. 0 \in 0 .. AckWord - 1
          BY AckSizes
        <5> QED BY <5>1
      <4>4. PICK v \in Nat : v = AckWord /\ v = AckWord + x
        BY <4>3, AckSizes
      <4>5. v % AckWord = 0
        BY <4>3, <4>4, AckSizes, OneOff
      <4>6. k + 1 = v /\ k \in 0 .. AckWord - 1
        BY <4>2, <4>4, AckSizes
      <4> HIDE DEF k
      <4> QED BY <2>2, <3>1, <4>5, <4>6
    <3>2. CASE c > 0
      <4>1. PICK x \in 0 .. AckWord - 1 : x = c - 1
        <5>1. c - 1 \in 0 .. AckWord - 1
          BY <3>2, AckSizes
        <5> QED BY <5>1
      <4>2. PICK v \in Nat : v = c + AckWord - 1 /\ v = AckWord + x
        BY <4>1, AckSizes
      <4>3. v % AckWord = x
        BY <4>2, AckSizes, OneOff
      <4>4. k = x
        BY <2>2, <4>2, <4>3
      <4>5. c % AckWord = c /\ x + 1 = c
        BY <4>1, AckSizes
      <4> HIDE DEF k
      <4> QED BY <2>2, <4>4, <4>5
    <3> QED BY <3>1, <3>2, AckSizes
  <2> HIDE DEF k
  <2>4. ASSUME processParsedPacket(p) # None
        PROVE  /\ processParsedPacket(p) = Filed(TargetOf(k), k, p.type)
               /\ p.type \in {"ok", "rst"} /\ p.sport = ServerPort
               /\ ~ (p.dport < SrcPort) /\ ~ (p.dport >= SrcPort + PortCount)
    BY <2>4 DEF processParsedPacket, k, TargetOf
  <2>5. TargetOf(k) \in Targets /\ (k > 0 => TargetOf(k) = ((k - 1) % N) + 1)
    BY <2>3, NumberGivesTarget
  <2>6. k \in Keys /\ k < AckWord
    BY <2>3, AckSizes DEF Keys
  <2>7. ASSUME processParsedPacket(p) # None PROVE Resembles(p, TargetOf(k), k)
    <3>1. p.dport \in SrcPort .. SrcPort + PortCount - 1
      BY <2>1, <2>4, <2>7, ProberAssumption
    <3> QED BY <2>0, <2>3, <2>4, <2>5, <2>6, <2>7, <3>1 DEF Resembles
  <2>8. Carries(p) = p.type /\ Outcome(p) = processParsedPacket(p)
    BY <1>2, <2>0 DEF Carries, Outcome
  <2> QED BY <2>1, <2>4, <2>5, <2>6, <2>7, <2>8
<1> QED BY <1>1, <1>2 DEF Echo

-----------------------------------------------------------------------------
(* the turns of the sender                                                 *)

(***************************************************************************)
(* The number of probes tried in so many rounds.                           *)
(***************************************************************************)
Rounds(r) == N * r

LEMMA RoundFacts ==
  /\ Rounds(0) = 0 /\ Rounds(MaxRounds) \in Nat
  /\ \A r \in Nat : Rounds(r) \in Nat /\ Rounds(r + 1) = Rounds(r) + N
  /\ \A r \in Nat : r < MaxRounds => Rounds(r) + N <= Rounds(MaxRounds)
  /\ \A r \in Nat : Rounds(r) < Rounds(MaxRounds) => r < MaxRounds
<1>1. Rounds(0) = 0 /\ Rounds(MaxRounds) \in Nat
  BY Sizes, ProberAssumption DEF Rounds
<1>2. \A r \in Nat : Rounds(r) \in Nat /\ Rounds(r + 1) = Rounds(r) + N
  BY Sizes DEF Rounds
<1>3. ASSUME NEW r \in Nat, r < MaxRounds PROVE Rounds(r) + N <= Rounds(MaxRounds)
  <2>1. PICK k \in Nat : MaxRounds = r + 1 + k
    <3>1. MaxRounds - r - 1 \in Nat /\ MaxRounds = r + 1 + (MaxRounds - r - 1)
      BY <1>3, Sizes
    <3> QED BY <3>1
  <2>2. N * MaxRounds = N * r + N + N * k /\ N * k >= 0
    BY <2>1, Sizes
  <2> QED BY <2>2, Sizes DEF Rounds
<1>4. ASSUME NEW r \in Nat, r >= MaxRounds PROVE Rounds(r) >= Rounds(MaxRounds)
  <2>1. PICK k \in Nat : r = MaxRounds + k
    <3>1. r - MaxRounds \in Nat /\ r = MaxRounds + (r - MaxRounds)
      BY <1>4, Sizes
    <3> QED BY <3>1
  <2>2. N * r = N * MaxRounds + N * k /\ N * k >= 0
    BY <2>1, Sizes
  <2> QED BY <2>2, Sizes DEF Rounds
<1>5. \A r \in Nat : Rounds(r) < Rounds(MaxRounds) => r < MaxRounds
  BY <1>1, <1>2, <1>4, Sizes
<1> QED BY <1>1, <1>2, <1>3, <1>5

(***************************************************************************)
(* The numbers of a round give the targets in their order.                 *)
(***************************************************************************)
LEMMA RoundGivesTarget ==
  ASSUME NEW r \in Nat, NEW t \in Targets, NEW n \in Nat, n = Rounds(r) + t
  PROVE  ((n - 1) % N) + 1 = t
<1>1. PICK x \in 0 .. N - 1 : x = t - 1
  <2>1. t - 1 \in 0 .. N - 1
    BY Sizes DEF Targets
  <2> QED BY <2>1
<1>2. Rounds(r) = r * N /\ Rounds(r) \in Nat
  BY Sizes DEF Rounds
<1>3. PICK v \in Nat : v = n - 1 /\ v = r * N + x
  <2>1. n - 1 = r * N + x /\ n - 1 \in Nat
    BY <1>1, <1>2, Sizes DEF Targets
  <2> QED BY <2>1
<1>4. v % N = x
  <2>1. PICK m \in Int : m = r
    OBVIOUS
  <2>2. v = m * N + x
    BY <1>3, <2>1
  <2>3. N \in Nat /\ N > 0
    BY Sizes
  <2> QED BY <2>2, <2>3, RemainderOf
<1>5. (n - 1) % N = t - 1 /\ t \in Nat
  BY <1>1, <1>3, <1>4, Sizes DEF Targets
<1> QED BY <1>5

LEMMA NextTurn ==
  ASSUME NEW t \in Targets
  PROVE  (t % N) + 1 = IF t = N THEN 1 ELSE t + 1
<1>1. CASE t = N
  <2>1. PICK m \in Int, x \in 0 .. N - 1 : m = 1 /\ x = 0
    <3>1. 0 \in 0 .. N - 1 /\ 1 \in Int
      BY Sizes
    <3> QED BY <3>1
  <2>2. N = m * N + x
    BY <2>1, Sizes
  <2>3. N % N = x
    BY <2>2, Sizes, RemainderOf
  <2> QED BY <1>1, <2>1, <2>3
<1>2. CASE t # N
  BY <1>2, Sizes DEF Targets
<1> QED BY <1>1, <1>2

(***************************************************************************)
(* Where the sender is in its rounds.  Before a probe is made seq[0]       *)
(* counts the targets before it, once it is sent the target too.           *)
(***************************************************************************)
TurnInv ==
  /\ seq[0] <= Rounds(MaxRounds)
  /\ spc \in {"open", "top", "take"} => at = 1 /\ \E r \in Nat : seq[0] = Rounds(r)
  /\ spc = "take" => seq[0] < Rounds(MaxRounds)
  /\ spc = "send" => \E r \in Nat : r < MaxRounds /\ seq[0] + 1 = Rounds(r) + at
  /\ spc = "put"  => \E r \in Nat : r < MaxRounds /\ seq[0] = Rounds(r) + at

(***************************************************************************)
(* The numbers of a target run from s, and no further than there are       *)
(* probes.                                                                 *)
(***************************************************************************)
SeqInv(s) ==
  \A t \in Targets : s <= seq[t] /\ seq[t] <= s + seq[0]

PortInv == RangeBelowEnd => port \in SrcPort .. SrcPort + PortCount - 1

(***************************************************************************)
(* A packet on its way is noise or the only answer to one of our probes,   *)
(* which has not been read before.                                         *)
(***************************************************************************)
NetInv(s) ==
  /\ \A p \in net : p \in Noise \/ OwnPacket(s, p)
  /\ \A p, q \in net : Ours(p) /\ Ours(q) /\ p.src = q.src /\ p.n = q.n => p = q

ArrivedInv(s) ==
  /\ \A a \in arrived : Used(s, a.target, a.n) /\ a.kind \in {"ok", "flip", "rst"}
  /\ \A a \in arrived, p \in net : Ours(p) => a.target # p.src \/ a.n # p.n

ProberInv(s) ==
  /\ s \in Nat /\ TypeOK /\ TurnInv /\ SeqInv(s) /\ PortInv
  /\ NetInv(s) /\ ArrivedInv(s) /\ OnlyRealAnswers /\ NoAnswerLost

LEMMA ToolFacts ==
  ASSUME TypeOK
  PROVE  tool \in {"ping", "ping6", "lidar"} /\ (Echo <=> tool # "lidar")
BY ProberAssumption DEF TypeOK, Echo

(***************************************************************************)
(* Until the numbers come round again those in use for one target differ   *)
(* in what an answer carries back.                                         *)
(***************************************************************************)
LEMMA UsedTellApart ==
  ASSUME NEW s, ProberInv(s), Unwrapped,
         NEW t, NEW n, NEW m, Used(s, t, n), Used(s, t, m),
         n % Wire = m % Wire
  PROVE  n = m
<1>1. n \in Nat /\ m \in Nat /\ t \in Targets /\ s \in Nat
      /\ Wire \in Nat /\ Wire > 0
  BY WireMod DEF Used, ProberInv
<1>2. seq[0] \in Nat /\ seq[0] < Wire /\ seq[t] \in Nat /\ seq[t] <= s + seq[0]
  <2>1. seq \in [0 .. N -> Nat] /\ seq[0] < Wire /\ seq[t] <= s + seq[0]
    BY <1>1 DEF ProberInv, TypeOK, Unwrapped, SeqInv
  <2>2. 0 \in 0 .. N /\ t \in 0 .. N
    BY <1>1, Sizes DEF Targets
  <2> QED BY <2>1, <2>2
<1>3. n - m < Wire /\ m - n < Wire
  <2>1. CASE Echo
    <3>1. s < n /\ n <= seq[t] /\ s < m /\ m <= seq[t]
      BY <2>1 DEF Used
    <3> QED BY <1>1, <1>2, <3>1
  <2>2. CASE tool = "lidar"
    <3>1. 1 <= n /\ n <= seq[0] /\ 1 <= m /\ m <= seq[0]
      BY <2>2 DEF Used
    <3> QED BY <1>1, <1>2, <3>1
  <2> QED BY <2>1, <2>2, ToolFacts DEF ProberInv
<1> QED BY <1>1, <1>3, RemainderTells

-----------------------------------------------------------------------------
(* the steps                                                               *)

LEMMA SeqTypes ==
  ASSUME TypeOK
  PROVE  /\ seq[0] \in Nat /\ \A t \in Targets : seq[t] \in Nat
         /\ DOMAIN seq = 0 .. N /\ at \in Targets /\ at \in 0 .. N /\ at # 0
         /\ 0 \in 0 .. N
BY Sizes DEF TypeOK, Targets

(***************************************************************************)
(* A number once in use stays in use while the counters grow.              *)
(***************************************************************************)
LEMMA UsedKept ==
  ASSUME NEW s \in Nat, TypeOK, TypeOK', UNCHANGED tool, seq[0] <= seq'[0],
         \A t \in Targets : seq[t] <= seq'[t]
  PROVE  /\ \A t, n : Used(s, t, n) => Used(s, t, n)'
         /\ \A p : OwnPacket(s, p) => OwnPacket(s, p)'
         /\ Noise' = Noise
<1>1. ASSUME NEW t, NEW n, Used(s, t, n) PROVE Used(s, t, n)'
  <2>1. t \in Targets /\ n \in Nat /\ seq[t] \in Nat /\ seq[0] \in Nat
    BY <1>1, SeqTypes DEF Used
  <2>2. seq'[t] \in Nat /\ seq'[0] \in Nat
    BY <2>1, Sizes DEF TypeOK, Targets
  <2> QED BY <1>1, <2>1, <2>2 DEF Used, Echo
<1>2. \A p : OwnPacket(s, p) => OwnPacket(s, p)'
  BY <1>1 DEF OwnPacket, OwnEcho, OwnSyn, Echo
<1> QED BY <1>1, <1>2 DEF Noise, Echo

LEMMA MarksKept ==
  ASSUME UNCHANGED tool
  PROVE  \A p, t, k : (Resembles(p, t, k)' <=> Resembles(p, t, k))
                      /\ Carries(p)' = Carries(p)
BY DEF Resembles, Carries, Echo, Bitflip

LEMMA PacketsKept ==
  ASSUME NEW s, ProberInv(s), TypeOK',
         UNCHANGED <<tool, seq, port, net, arrived, strays, stats>>
  PROVE  SeqInv(s)' /\ PortInv' /\ NetInv(s)' /\ ArrivedInv(s)'
         /\ OnlyRealAnswers' /\ NoAnswerLost'
<1>1. s \in Nat /\ TypeOK
  BY DEF ProberInv
<1>2. seq[0] <= seq'[0] /\ \A t \in Targets : seq[t] <= seq'[t]
  BY <1>1, SeqTypes
<1>3. /\ \A t, n : Used(s, t, n) => Used(s, t, n)'
      /\ \A p : OwnPacket(s, p) => OwnPacket(s, p)'
      /\ Noise' = Noise
  BY <1>1, <1>2, UsedKept
<1>4. NetInv(s)' /\ ArrivedInv(s)'
  BY <1>3 DEF ProberInv, NetInv, ArrivedInv, Ours
<1>5. \A p, t, k : (Resembles(p, t, k)' <=> Resembles(p, t, k))
                     /\ Carries(p)' = Carries(p)
  BY MarksKept
<1>6. Wire' = Wire /\ Echo' = Echo /\ Unwrapped' = Unwrapped
  BY DEF Wire, Echo, Unwrapped
<1>7. OnlyRealAnswers' /\ NoAnswerLost'
  BY <1>5, <1>6 DEF ProberInv, OnlyRealAnswers, NoAnswerLost
<1> QED BY <1>4, <1>7 DEF ProberInv, SeqInv, PortInv

(***************************************************************************)
(* The steps that touch neither the packets nor the statistics.            *)
(***************************************************************************)
Quiet ==
  \/ Open \/ SendStop \/ SendTake \/ SendReturn \/ RecvCheck \/ RecvError
  \/ RecvReturn \/ RunReturns \/ Cancel \/ Tick \/ UNCHANGED vars

LEMMA QuietTypes == TypeOK /\ Quiet => TypeOK'
<1> SUFFICES ASSUME TypeOK, Quiet PROVE TypeOK'
  OBVIOUS
<1> USE DEF TypeOK
<1>0. Delay \in Nat /\ ReadTimeout \in Nat
  BY ProberAssumption
<1>1. CASE Open
  BY <1>1 DEF Open, OpenConn, OpenConn6, OpenScan, Opened, OpenFails
<1>2. CASE SendStop
  BY <1>0, <1>2 DEF SendStop, Finish
<1>3. CASE SendTake
  BY <1>3 DEF SendTake
<1>4. CASE SendReturn
  <2>1. done' \in Seq({"nil", "error"})
    BY <1>4 DEF SendReturn
  <2> QED BY <1>4, <2>1 DEF SendReturn
<1>5. CASE RecvCheck
  <2>1. timers' \in [read : 0 .. ReadTimeout, sleep : 0 .. Delay]
    BY <1>0, <1>5 DEF RecvCheck
  <2> QED BY <1>5, <2>1 DEF RecvCheck, sender
<1>6. CASE RecvError
  BY <1>6 DEF RecvError, serveRecv, serveRecv6, serveRecvScan, sender
<1>7. CASE RecvReturn
  <2>1. done' \in Seq({"nil", "error"})
    BY <1>7 DEF RecvReturn
  <2> QED BY <1>7, <2>1 DEF RecvReturn, sender
<1>8. CASE RunReturns
  <2>1. Head(done) \in {"nil", "error"}
    BY <1>8 DEF RunReturns
  <2> QED BY <1>8, <2>1 DEF RunReturns, sender
<1>9. CASE Cancel
  BY <1>9 DEF Cancel, sender
<1>10. CASE Tick
  <2>1. timers' \in [read : 0 .. ReadTimeout, sleep : 0 .. Delay]
    BY <1>0, <1>10 DEF Tick, Due, ReadEnds
  <2> QED BY <1>10, <2>1 DEF Tick, sender
<1>11. CASE UNCHANGED vars
  BY <1>11 DEF vars, sender
<1> QED BY <1>1, <1>2, <1>3, <1>4, <1>5, <1>6, <1>7, <1>8, <1>9, <1>10, <1>11
        DEF Quiet

LEMMA QuietStep ==
  ASSUME NEW s, ProberInv(s), Quiet
  PROVE  ProberInv(s)'
<1>1. TypeOK /\ TypeOK' /\ TurnInv /\ s \in Nat
  BY QuietTypes DEF ProberInv
<1>2. UNCHANGED <<tool, at, seq, port, net, arrived, strays, stats>>
  BY DEF Quiet, Open, SendStop, SendTake, SendReturn, RecvCheck, RecvError,
         RecvReturn, RunReturns, Cancel, Tick, vars, sender
<1>3. TurnInv'
  <2>1. CASE SendTake
    <3>1. CASE spc = "top" /\ spc' = "take" /\ seq[0] < N * MaxRounds
      BY <1>1, <1>2, <3>1 DEF TurnInv, Rounds
    <3>2. CASE spc = "take" /\ spc' = "top"
      BY <1>1, <1>2, <3>2 DEF TurnInv
    <3>3. CASE spc = "take" /\ spc' = "send"
      <4>1. PICK r \in Nat : seq[0] = Rounds(r)
        BY <1>1, <3>3 DEF TurnInv
      <4>2. r < MaxRounds /\ at = 1 /\ seq[0] + 1 = Rounds(r) + at
        BY <1>1, <3>3, <4>1, RoundFacts DEF TurnInv
      <4> QED BY <1>1, <1>2, <3>3, <4>2 DEF TurnInv
    <3> QED BY <2>1, <3>1, <3>2, <3>3 DEF SendTake
  <2>2. CASE spc' \in {"sleep", "closed", "done"}
    BY <1>1, <1>2, <2>2 DEF TurnInv
  <2>3. CASE spc' = spc
    BY <1>1, <1>2, <2>3 DEF TurnInv
  <2>4. CASE spc = "open" /\ spc' = "top"
    BY <1>1, <1>2, <2>4 DEF TurnInv
  <2> QED BY <2>1, <2>2, <2>3, <2>4
          DEF Quiet, Open, OpenConn, OpenConn6, OpenScan, Opened, OpenFails,
              SendStop, Finish, SendReturn, RecvCheck, RecvError, RecvReturn,
              RunReturns, Cancel, Tick, vars, sender
<1>4. SeqInv(s)' /\ PortInv' /\ NetInv(s)' /\ ArrivedInv(s)'
      /\ OnlyRealAnswers' /\ NoAnswerLost'
  BY <1>1, <1>2, PacketsKept
<1> QED BY <1>1, <1>3, <1>4 DEF ProberInv

(***************************************************************************)
(* lidar's source port stays in the range its filter lets through.         *)
(***************************************************************************)
LEMMA PortStaysInRange ==
  ASSUME PortInv, port \in Nat
  PROVE  /\ NextPort \in Nat
         /\ RangeBelowEnd => NextPort \in SrcPort .. SrcPort + PortCount - 1
<1>1. /\ SrcPort \in Nat /\ PortCount \in Nat /\ PortCount > 0
      /\ PortWord \in Nat /\ PortWord > 0
  BY ProberAssumption
<1>2. port \in Nat => NextPort \in Nat
  BY <1>1 DEF NextPort
<1>3. ASSUME RangeBelowEnd
      PROVE  NextPort \in SrcPort .. SrcPort + PortCount - 1
  <2>1. SrcPort + PortCount < PortWord
        /\ port \in SrcPort .. SrcPort + PortCount - 1
    BY <1>3 DEF RangeBelowEnd, PortInv
  <2>2. (SrcPort + PortCount) % PortWord = SrcPort + PortCount
    BY <1>1, <2>1
  <2>3. (port + 1) % PortWord = port + 1
    BY <1>1, <2>1
  <2> QED BY <1>1, <2>1, <2>2, <2>3 DEF NextPort
<1> QED BY <1>2, <1>3
(***************************************************************************)
(* On to the next target, when this one's number is used up.               *)
(***************************************************************************)
LEMMA NextTargetStep ==
  ASSUME TypeOK, PortInv, NextTarget, seq'[0] \in Nat,
         NEW r \in Nat, r < MaxRounds, seq'[0] = Rounds(r) + at
  PROVE  /\ at' \in Targets /\ spc' \in {"top", "send"} /\ PortInv' /\ port' \in Nat
         /\ TurnInv'
<1>1. at \in Targets /\ at' = IF at = N THEN 1 ELSE at + 1
  BY NextTurn DEF NextTarget, TypeOK
<1>2. at' \in Targets
  BY <1>1, Sizes DEF Targets
<1>3. PortInv' /\ port' \in Nat
  <2>1. port \in Nat
    BY DEF TypeOK
  <2>2. port' \in {port, NextPort}
    BY DEF NextTarget
  <2> QED BY <2>1, <2>2, PortStaysInRange DEF PortInv
<1>4. spc' = IF at = N THEN "top" ELSE "send"
  BY DEF NextTarget
<1>5. seq'[0] <= Rounds(MaxRounds)
  BY <1>1, RoundFacts, Sizes DEF Targets
<1>6. CASE at = N
  <2>1. at' = 1 /\ spc' = "top" /\ seq'[0] = Rounds(r + 1) /\ r + 1 \in Nat
    BY <1>1, <1>4, <1>6, RoundFacts
  <2> QED BY <1>2, <1>3, <1>5, <2>1 DEF TurnInv
<1>7. CASE at # N
  <2>1. at' = at + 1 /\ spc' = "send" /\ seq'[0] + 1 = Rounds(r) + at'
    BY <1>1, <1>4, <1>7, RoundFacts, Sizes DEF Targets
  <2> QED BY <1>2, <1>3, <1>5, <2>1 DEF TurnInv
<1> QED BY <1>6, <1>7

(***************************************************************************)
(* A probe takes a number that no packet has, and its answer is one of     *)
(* ours.                                                                   *)
(***************************************************************************)
LEMMA NewNumber ==
  ASSUME NEW s, ProberInv(s), SendProbe, TypeOK'
  PROVE  /\ seq'[0] = seq[0] + 1
         /\ \A t \in Targets : seq'[t] \in {seq[t], seq[t] + 1}
         /\ \E u \in Targets, n \in Nat :
              /\ u = at /\ ~ Used(s, u, n) /\ Used(s, u, n)'
              /\ \/ net' = net
                 \/ \E a : /\ net' = net \cup {a} /\ a.src = u /\ a.n = n
                           /\ Ours(a) /\ OwnPacket(s, a)'
<1>0. /\ TypeOK /\ s \in Nat /\ UNCHANGED tool /\ spc = "send"
      /\ (serveSend \/ serveSend6 \/ Scan)
  BY DEF ProberInv, SendProbe
<1>1. /\ seq[0] \in Nat /\ \A t \in Targets : seq[t] \in Nat
      /\ DOMAIN seq = 0 .. N /\ at \in Targets /\ at \in 0 .. N /\ at # 0
      /\ 0 \in 0 .. N
  BY <1>0, SeqTypes
<1>t. \A t \in Targets : t \in 0 .. N /\ t # 0
  BY Sizes DEF Targets
<1>2. PICK r \in Nat : r < MaxRounds /\ seq[0] + 1 = Rounds(r) + at
  BY <1>0 DEF ProberInv, TurnInv
<1>u. PICK u \in Targets : u = at
  BY <1>1
<1>3. CASE serveSend \/ serveSend6
  <2>n. PICK n \in Nat : n = seq[u] + 1
    BY <1>1
  <2>1. /\ Echo /\ tool # "lidar" /\ seq' = [seq EXCEPT ![at] = n, ![0] = @ + 1]
        /\ \/ Unsent
           \/ Sent({EchoAnswer(at, n, k) : k \in {"ok", "flip"}})
    BY <1>3, <1>u, <2>n DEF serveSend, serveSend6, Echo, EchoAnswer6
  <2>2. seq'[0] = seq[0] + 1 /\ seq'[u] = n
        /\ \A t \in Targets : seq'[t] \in {seq[t], seq[t] + 1}
    BY <1>1, <1>t, <1>u, <2>1, <2>n
  <2>3. s < n /\ ~ (n <= seq[u]) /\ n <= seq'[u]
    BY <1>0, <1>1, <2>2, <2>n DEF ProberInv, SeqInv
  <2>4. ~ Used(s, u, n) /\ Used(s, u, n)'
    BY <1>0, <1>1, <2>1, <2>2, <2>3 DEF Used, Echo
  <2>5. \/ net' = net
        \/ \E a : /\ net' = net \cup {a} /\ a.src = u /\ a.n = n
                  /\ Ours(a) /\ OwnPacket(s, a)'
    <3>1. CASE Unsent
      BY <3>1 DEF Unsent
    <3>2. CASE Sent({EchoAnswer(at, n, k) : k \in {"ok", "flip"}})
      <4>1. PICK k \in {"ok", "flip"} : net' = net \cup {EchoAnswer(at, n, k)}
        BY <3>2 DEF Sent
      <4>a. PICK a : a = EchoAnswer(at, n, k)
        OBVIOUS
      <4>2. /\ a.src = u /\ a.n = n /\ a.kind = k /\ a.type = "reply"
            /\ a.id = IcmpID(u) /\ a.seq = n % Word
            /\ a.salt = IF k = "ok" THEN Salt(n) ELSE BadSalt
            /\ a.full = TRUE
        BY <1>u, <4>a DEF EchoAnswer
      <4>3. OwnEcho(a)
        BY <4>2 DEF OwnEcho
      <4>4. OwnPacket(s, a)'
        BY <1>0, <2>1, <2>4, <4>2, <4>3 DEF OwnPacket, OwnEcho, Echo, Used
      <4>5. Ours(a)
        BY <4>2 DEF Ours
      <4> QED BY <4>1, <4>2, <4>4, <4>5, <4>a
    <3> QED BY <2>1, <3>1, <3>2
  <2> QED BY <1>u, <2>2, <2>4, <2>5
<1>4. CASE Scan
  <2>n. PICK n \in Nat : n = seq[0] + 1
    BY <1>1
  <2>1. /\ ~ Echo /\ tool = "lidar" /\ seq' = [seq EXCEPT ![0] = n]
        /\ \/ Unsent
           \/ Sent({SynAnswer(at, n, port, k) : k \in {"ok", "rst"}})
    BY <1>4, <2>n DEF Scan, Echo
  <2>2. seq'[0] = n /\ 1 <= n /\ ~ (n <= seq[0])
        /\ \A t \in Targets : seq'[t] = seq[t]
    BY <1>1, <1>t, <2>1, <2>n
  <2>3. ((n - 1) % N) + 1 = u
    BY <1>1, <1>2, <1>u, <2>n, RoundGivesTarget
  <2>4. ~ Used(s, u, n) /\ Used(s, u, n)'
    BY <1>0, <1>1, <2>1, <2>2, <2>3 DEF Used, Echo
  <2>5. \/ net' = net
        \/ \E a : /\ net' = net \cup {a} /\ a.src = u /\ a.n = n
                  /\ Ours(a) /\ OwnPacket(s, a)'
    <3>1. CASE Unsent
      BY <3>1 DEF Unsent
    <3>2. CASE Sent({SynAnswer(at, n, port, k) : k \in {"ok", "rst"}})
      <4>1. PICK k \in {"ok", "rst"} : net' = net \cup {SynAnswer(at, n, port, k)}
        BY <3>2 DEF Sent
      <4>a. PICK a : a = SynAnswer(at, n, port, k)
        OBVIOUS
      <4>2. /\ a.src = u /\ a.n = n /\ a.kind = k /\ a.type = k
            /\ a.sport = ServerPort /\ a.dport = port /\ a.ack = (n + 1) % AckWord
        BY <1>u, <4>a DEF SynAnswer
      <4>3. OwnSyn(a)
        BY <4>2 DEF OwnSyn, ProberInv, PortInv
      <4>4. OwnPacket(s, a)'
        BY <1>0, <2>1, <2>4, <4>2, <4>3 DEF OwnPacket, OwnSyn, Echo, Used
      <4>5. Ours(a)
        BY <4>2 DEF Ours
      <4> QED BY <4>1, <4>2, <4>4, <4>5, <4>a
    <3> QED BY <2>1, <3>1, <3>2
  <2> QED BY <1>u, <2>2, <2>4, <2>5, <2>n
<1> QED BY <1>0, <1>3, <1>4

LEMMA SendProbeStep ==
  ASSUME NEW s, ProberInv(s), SendProbe
  PROVE  ProberInv(s)'
<1>0. /\ TypeOK /\ PortInv /\ s \in Nat /\ spc = "send"
      /\ UNCHANGED <<tool, conf, count, rpc, stats, ctx, stop, conn, timers, done,
                     ret, arrived, strays, fault>>
  BY DEF ProberInv, SendProbe
<1>1. /\ seq[0] \in Nat /\ \A t \in Targets : seq[t] \in Nat
      /\ DOMAIN seq = 0 .. N /\ at \in Targets /\ at \in 0 .. N /\ at # 0
      /\ 0 \in 0 .. N
  BY <1>0, SeqTypes
<1>2. PICK r \in Nat : r < MaxRounds /\ seq[0] + 1 = Rounds(r) + at
  BY <1>0 DEF ProberInv, TurnInv
<1>3. seq' \in [0 .. N -> Nat] /\ seq'[0] = seq[0] + 1
  <2>1. seq \in [0 .. N -> Nat]
    BY <1>0 DEF TypeOK
  <2>2. \/ seq' = [seq EXCEPT ![at] = seq[at] + 1, ![0] = @ + 1]
        \/ seq' = [seq EXCEPT ![0] = seq[0] + 1]
    BY DEF SendProbe, serveSend, serveSend6, Scan
  <2>3. seq[at] + 1 \in Nat /\ seq[0] + 1 \in Nat
    BY <1>1
  <2>4. CASE seq' = [seq EXCEPT ![at] = seq[at] + 1, ![0] = @ + 1]
    BY <1>1, <2>1, <2>3, <2>4
  <2>5. CASE seq' = [seq EXCEPT ![0] = seq[0] + 1]
    BY <1>1, <2>1, <2>3, <2>5
  <2> QED BY <2>2, <2>4, <2>5
<1>4. (NextTarget \/ (spc' = "put" /\ UNCHANGED <<at, port>>))
  BY DEF SendProbe, serveSend, serveSend6, Scan, Unsent, Sent
<1>5. /\ at' \in Targets /\ spc' \in {"top", "send", "put"} /\ PortInv'
      /\ port' \in Nat /\ TurnInv'
  <2>1. CASE NextTarget
    BY <1>0, <1>1, <1>2, <1>3, <2>1, NextTargetStep
  <2>2. CASE spc' = "put" /\ UNCHANGED <<at, port>>
    <3>1. seq'[0] = Rounds(r) + at' /\ at' \in Targets
      BY <1>1, <1>2, <1>3, <2>2
    <3>2. seq'[0] <= Rounds(MaxRounds)
      <4>1. Rounds(r) \in Nat /\ Rounds(r) + N <= Rounds(MaxRounds)
            /\ Rounds(MaxRounds) \in Nat
        BY <1>2, RoundFacts
      <4>2. at \in Nat /\ at <= N /\ N \in Nat
        BY <1>1, Sizes DEF Targets
      <4>3. seq'[0] = Rounds(r) + at
        BY <1>2, <1>3
      <4> QED BY <4>1, <4>2, <4>3
    <3>3. TurnInv'
      BY <1>2, <2>2, <3>1, <3>2 DEF TurnInv
    <3> QED BY <1>0, <2>2, <3>1, <3>3 DEF TypeOK, PortInv
  <2> QED BY <1>4, <2>1, <2>2
<1>6. TypeOK'
  BY <1>0, <1>3, <1>5 DEF TypeOK
<1>7. \A t \in Targets : seq'[t] \in {seq[t], seq[t] + 1}
  BY <1>6, NewNumber
<1>8. PICK u \in Targets, n \in Nat :
        /\ u = at /\ ~ Used(s, u, n) /\ Used(s, u, n)'
        /\ \/ net' = net
           \/ \E a : /\ net' = net \cup {a} /\ a.src = u /\ a.n = n
                     /\ Ours(a) /\ OwnPacket(s, a)'
  BY <1>6, NewNumber
<1>9. SeqInv(s)'
  BY <1>0, <1>1, <1>3, <1>7 DEF ProberInv, SeqInv
<1>10. /\ \A t, m : Used(s, t, m) => Used(s, t, m)'
       /\ \A p : OwnPacket(s, p) => OwnPacket(s, p)'
       /\ Noise' = Noise
  <2>1. seq[0] <= seq'[0] /\ \A t \in Targets : seq[t] <= seq'[t]
    BY <1>1, <1>3, <1>7
  <2> QED BY <1>0, <1>6, <2>1, UsedKept
<1>11. \A p \in net : Ours(p) => p.src # u \/ p.n # n
  <2>1. \A p \in Noise : ~ Ours(p)
    BY <1>0, StrayFiled, ToolFacts DEF Ours
  <2> QED BY <1>8, <2>1 DEF ProberInv, NetInv, OwnPacket
<1>12. \A a \in arrived : a.target # u \/ a.n # n
  BY <1>8 DEF ProberInv, ArrivedInv
<1>13. NetInv(s)' /\ ArrivedInv(s)'
  <2>1. CASE net' = net
    BY <1>0, <1>10, <2>1 DEF ProberInv, NetInv, ArrivedInv, Ours
  <2>2. ASSUME NEW a, net' = net \cup {a}, a.src = u, a.n = n, Ours(a),
               OwnPacket(s, a)'
        PROVE  NetInv(s)' /\ ArrivedInv(s)'
    <3>1. \A p \in net' : p \in Noise' \/ OwnPacket(s, p)'
      BY <1>10, <2>2 DEF ProberInv, NetInv
    <3>2. \A p, q \in net' :
            Ours(p) /\ Ours(q) /\ p.src = q.src /\ p.n = q.n => p = q
      BY <1>11, <2>2 DEF ProberInv, NetInv
    <3>3. \A b \in arrived, p \in net' : Ours(p) => b.target # p.src \/ b.n # p.n
      BY <1>12, <2>2 DEF ProberInv, ArrivedInv
    <3>4. NetInv(s)'
      BY <3>1, <3>2 DEF NetInv, Ours
    <3>5. ArrivedInv(s)'
      BY <1>0, <1>10, <3>3 DEF ProberInv, ArrivedInv, Ours
    <3> QED BY <3>4, <3>5
  <2> QED BY <1>8, <2>1, <2>2
<1>14. OnlyRealAnswers' /\ NoAnswerLost'
  <2>1. \A p, t, k : (Resembles(p, t, k)' <=> Resembles(p, t, k))
                      /\ Carries(p)' = Carries(p)
    BY <1>0, MarksKept
  <2>2. Wire' = Wire /\ Echo' = Echo
    BY <1>0 DEF Wire, Echo
  <2>3. Unwrapped' => Unwrapped
    BY <1>1, <1>3, <2>2, WireMod DEF Unwrapped
  <2>4. OnlyRealAnswers'
    BY <1>0, <2>1, <2>2 DEF ProberInv, OnlyRealAnswers
  <2>5. NoAnswerLost'
    BY <1>0, <2>1, <2>2, <2>3 DEF ProberInv, NoAnswerLost
  <2> QED BY <2>4, <2>5
<1> QED BY <1>0, <1>5, <1>6, <1>9, <1>13, <1>14 DEF ProberInv

(***************************************************************************)
(* Stat.Put after the probe went out: an answer that was faster stays.     *)
(***************************************************************************)
LEMMA PutProbeStep ==
  ASSUME NEW s, ProberInv(s), PutProbe
  PROVE  ProberInv(s)'
<1>0. /\ TypeOK /\ PortInv /\ s \in Nat /\ spc = "put" /\ NextTarget
      /\ count' = count + 1
      /\ stats' = [stats EXCEPT ![at][Key] = IF @ = "none" THEN "sent" ELSE @]
      /\ UNCHANGED <<tool, conf, seq, rpc, ctx, stop, conn, timers, done, ret, net,
                     arrived, strays, fault>>
  BY DEF ProberInv, PutProbe
<1>1. seq[0] \in Nat /\ at \in Targets /\ \A t \in Targets : seq[t] \in Nat
  BY <1>0, SeqTypes
<1>2. PICK r \in Nat : r < MaxRounds /\ seq[0] = Rounds(r) + at
  BY <1>0 DEF ProberInv, TurnInv
<1>3. /\ at' \in Targets /\ spc' \in {"top", "send"} /\ PortInv' /\ port' \in Nat
      /\ TurnInv'
  BY <1>0, <1>1, <1>2, NextTargetStep
<1>4. Key \in Keys
  <2>1. seq[at] % Word \in Keys
    BY <1>1, WordMod DEF Keys
  <2>2. seq[0] \in Keys
    <3>1. seq[0] <= N * MaxRounds /\ N * MaxRounds \in Nat
      BY RoundFacts DEF ProberInv, TurnInv, Rounds
    <3> QED BY <1>1, <3>1 DEF Keys
  <2> QED BY <2>1, <2>2 DEF Key
<1> DEFINE put(t, k) == IF t = at /\ k = Key /\ stats[t][k] = "none"
                        THEN "sent" ELSE stats[t][k]
<1>5. stats \in [Targets -> [Keys -> Verdicts]]
  BY <1>0 DEF TypeOK
<1>6. /\ stats' \in [Targets -> [Keys -> Verdicts]]
      /\ \A t \in Targets, k \in Keys : stats'[t][k] = put(t, k)
  BY <1>0, <1>1, <1>4, <1>5 DEF Verdicts
<1>7. TypeOK'
  BY <1>0, <1>3, <1>6 DEF TypeOK
<1>8. /\ \A t, m : Used(s, t, m) => Used(s, t, m)'
      /\ \A p : OwnPacket(s, p) => OwnPacket(s, p)'
      /\ Noise' = Noise
  <2>1. seq[0] <= seq'[0] /\ \A t \in Targets : seq[t] <= seq'[t]
    BY <1>0, <1>1
  <2> QED BY <1>0, <1>7, <2>1, UsedKept
<1>9. SeqInv(s)' /\ NetInv(s)' /\ ArrivedInv(s)'
  BY <1>0, <1>8 DEF ProberInv, SeqInv, NetInv, ArrivedInv, Ours
<1>m. /\ \A p, t, k : (Resembles(p, t, k)' <=> Resembles(p, t, k))
                        /\ Carries(p)' = Carries(p)
      /\ Wire' = Wire /\ Echo' = Echo /\ Unwrapped' = Unwrapped
  BY <1>0, MarksKept DEF Wire, Echo, Unwrapped
<1>10. OnlyRealAnswers'
  <2> SUFFICES ASSUME NEW t \in Targets, NEW k \in Keys,
                      stats'[t][k] \notin {"none", "sent"}
               PROVE  \/ \E a \in arrived :
                           /\ a.n % Wire = k /\ a.kind = stats[t][k]
                           /\ Echo \/ a.n < AckWord => a.target = t
                      \/ \E p \in strays : /\ Resembles(p, t, k)
                                           /\ Carries(p) = stats[t][k]
    <3>1. \A t \in Targets, k \in Keys :
            stats'[t][k] \notin {"none", "sent"} => stats'[t][k] = stats[t][k]
      BY <1>6
    <3> QED BY <1>0, <1>m, <3>1 DEF OnlyRealAnswers
  <2>1. stats[t][k] \notin {"none", "sent"}
    BY <1>6
  <2> QED BY <2>1 DEF ProberInv, OnlyRealAnswers
<1>11. NoAnswerLost'
  <2> SUFFICES ASSUME RangeBelowEnd, Unwrapped, NEW a \in arrived
               PROVE  \/ stats'[a.target][a.n % Wire] = a.kind
                      \/ \E p \in strays : Resembles(p, a.target, a.n % Wire)
    BY <1>0, <1>m DEF NoAnswerLost
  <2>1. a.target \in Targets /\ a.n % Wire \in Keys /\ a.kind # "none"
    BY WireMod DEF ProberInv, ArrivedInv, Used
  <2>2. \/ stats[a.target][a.n % Wire] = a.kind
        \/ \E p \in strays : Resembles(p, a.target, a.n % Wire)
    BY DEF ProberInv, NoAnswerLost
  <2> QED BY <1>6, <2>1, <2>2
<1> QED BY <1>0, <1>3, <1>7, <1>9, <1>10, <1>11 DEF ProberInv

(***************************************************************************)
(* A packet is read and filed where it belongs: an answer overwrites no    *)
(* other.                                                                  *)
(***************************************************************************)
LEMMA RecvPacketStep ==
  ASSUME NEW s, ProberInv(s), NEW p \in net, RecvPacket(p)
  PROVE  ProberInv(s)'
<1>0. /\ TypeOK /\ s \in Nat /\ rpc' = "check" /\ net' = net \ {p}
      /\ UNCHANGED <<tool, conf, spc, at, seq, port, count, ctx, stop, conn, timers,
                     done, ret, fault>>
  BY DEF ProberInv, RecvPacket, sender
<1>1. tool \in {"ping", "ping6", "lidar"}
  BY <1>0, ToolFacts
<1>2. seq[0] \in Nat /\ \A t \in Targets : seq[t] \in Nat
  BY <1>0, SeqTypes
<1>3. stats \in [Targets -> [Keys -> Verdicts]]
  BY <1>0 DEF TypeOK
<1>4. TurnInv' /\ SeqInv(s)' /\ PortInv'
  BY <1>0 DEF ProberInv, TurnInv, SeqInv, PortInv
<1>5. ASSUME stats' \in [Targets -> [Keys -> Verdicts]]
      PROVE  /\ TypeOK'
             /\ \A t, m : Used(s, t, m) => Used(s, t, m)'
             /\ \A q : OwnPacket(s, q) => OwnPacket(s, q)'
             /\ Noise' = Noise
  <2>1. TypeOK'
    BY <1>0, <1>5 DEF TypeOK
  <2>2. seq[0] <= seq'[0] /\ \A t \in Targets : seq[t] <= seq'[t]
    BY <1>0, <1>2
  <2> QED BY <1>0, <2>1, <2>2, UsedKept
<1>m. /\ \A q, t, k : (Resembles(q, t, k)' <=> Resembles(q, t, k))
                        /\ Carries(q)' = Carries(q)
      /\ Wire' = Wire /\ Echo' = Echo /\ Unwrapped' = Unwrapped
  BY <1>0, MarksKept DEF Wire, Echo, Unwrapped
<1>6. CASE stats' = stats /\ arrived' = arrived /\ strays' = strays
  <2>1. NetInv(s)' /\ ArrivedInv(s)'
    BY <1>0, <1>3, <1>5, <1>6 DEF ProberInv, NetInv, ArrivedInv, Ours
  <2>2. OnlyRealAnswers' /\ NoAnswerLost'
    BY <1>6, <1>m DEF ProberInv, OnlyRealAnswers, NoAnswerLost
  <2> QED BY <1>0, <1>3, <1>4, <1>5, <1>6, <2>1, <2>2 DEF ProberInv
<1>f. ASSUME NEW t \in Targets, NEW k \in Keys, NEW v \in {"ok", "flip", "rst"},
             stats' = [stats EXCEPT ![t][k] = Mark(@, v)]
      PROVE  /\ stats' \in [Targets -> [Keys -> Verdicts]]
             /\ stats'[t][k] = Mark(stats[t][k], v)
             /\ \A u \in Targets, j \in Keys :
                  u # t \/ j # k => stats'[u][j] = stats[u][j]
  BY <1>3, <1>f DEF Verdicts, Mark
<1>7. ASSUME NEW t \in Targets, NEW k \in Keys, p \in Noise,
             Outcome(p) = Filed(t, k, Carries(p)), Resembles(p, t, k),
             Carries(p) \in {"ok", "flip", "rst"}
      PROVE  ProberInv(s)'
  <2>0. p.kind = "noise"
    BY <1>1, <1>7, StrayFiled
  <2>1. /\ stats' = [stats EXCEPT ![t][k] = Mark(@, Carries(p))]
        /\ strays' = strays \cup {p} /\ arrived' = arrived
    BY <1>7, <2>0 DEF RecvPacket, Filed
  <2>2. /\ stats' \in [Targets -> [Keys -> Verdicts]]
        /\ stats'[t][k] = Mark(stats[t][k], Carries(p))
        /\ \A u \in Targets, j \in Keys :
             u # t \/ j # k => stats'[u][j] = stats[u][j]
    BY <1>7, <1>f, <2>1
  <2>3. NetInv(s)' /\ ArrivedInv(s)'
    BY <1>0, <1>5, <2>1, <2>2 DEF ProberInv, NetInv, ArrivedInv, Ours
  <2>4. OnlyRealAnswers'
    <3> SUFFICES ASSUME NEW u \in Targets, NEW j \in Keys,
                        stats'[u][j] \notin {"none", "sent"}
                 PROVE  \/ \E b \in arrived :
                             /\ b.n % Wire = j /\ b.kind = stats'[u][j]
                             /\ Echo \/ b.n < AckWord => b.target = u
                        \/ \E q \in strays' : /\ Resembles(q, u, j)
                                              /\ Carries(q) = stats'[u][j]
      BY <1>m, <2>1 DEF OnlyRealAnswers
    <3>1. CASE stats'[u][j] = stats[u][j]
      BY <2>1, <3>1 DEF ProberInv, OnlyRealAnswers
    <3>2. CASE stats'[u][j] # stats[u][j]
      <4>1. u = t /\ j = k /\ stats'[u][j] = Carries(p)
        BY <2>2, <3>2 DEF Mark
      <4> QED BY <1>7, <2>1, <4>1
    <3> QED BY <3>1, <3>2
  <2>5. NoAnswerLost'
    <3> SUFFICES ASSUME RangeBelowEnd, Unwrapped, NEW b \in arrived
                 PROVE  \/ stats'[b.target][b.n % Wire] = b.kind
                        \/ \E q \in strays' : Resembles(q, b.target, b.n % Wire)
      BY <1>m, <2>1 DEF NoAnswerLost
    <3>1. b.target \in Targets /\ b.n % Wire \in Keys
      BY WireMod DEF ProberInv, ArrivedInv, Used
    <3>2. CASE b.target = t /\ b.n % Wire = k
      BY <1>7, <2>1, <3>2
    <3>3. CASE b.target # t \/ b.n % Wire # k
      BY <2>1, <2>2, <3>1, <3>3 DEF ProberInv, NoAnswerLost
    <3> QED BY <3>2, <3>3
  <2> QED BY <1>0, <1>4, <1>5, <2>2, <2>3, <2>4, <2>5 DEF ProberInv
<1>8. CASE OwnPacket(s, p)
  <2> DEFINE k == p.n % Wire
             a == [target |-> p.src, n |-> p.n, kind |-> p.kind]
  <2>1. Used(s, p.src, p.n) /\ p.src \in Targets /\ p.n \in Nat /\ k \in Keys
    BY <1>8, WireMod DEF OwnPacket, Used
  <2>2. p.kind \in {"ok", "flip", "rst"}
    BY <1>1, <1>8 DEF OwnPacket, OwnEcho, OwnSyn, Echo
  <2>3. PICK t \in Targets :
          /\ Outcome(p) = None \/ Outcome(p) = Filed(t, k, p.kind)
          /\ Echo \/ p.n < AckWord => t = p.src
          /\ RangeBelowEnd => Outcome(p) # None
    BY <1>1, <1>8, AnswerFiled
  <2>4. arrived' = arrived \cup {a} /\ strays' = strays
    BY <2>2 DEF RecvPacket
  <2>5. /\ stats' \in [Targets -> [Keys -> Verdicts]]
        /\ \A u \in Targets, j \in Keys :
             u # t \/ j # k => stats'[u][j] = stats[u][j]
        /\ \/ stats' = stats /\ ~ RangeBelowEnd
           \/ stats'[t][k] = Mark(stats[t][k], p.kind)
    <3>1. CASE Outcome(p) = None
      <4>1. stats' = stats
        BY <3>1 DEF RecvPacket, None
      <4> QED BY <1>3, <2>3, <3>1, <4>1
    <3>2. CASE Outcome(p) = Filed(t, k, p.kind)
      <4>1. stats' = [stats EXCEPT ![t][k] = Mark(@, p.kind)]
        BY <3>2 DEF RecvPacket, Filed
      <4> HIDE DEF k
      <4> QED BY <1>f, <2>1, <2>2, <4>1
    <3> QED BY <2>3, <3>1, <3>2
  <2>6. a.target = p.src /\ a.n = p.n /\ a.kind = p.kind
    OBVIOUS
  <2> HIDE DEF a
  <2>7. NetInv(s)'
    BY <1>0, <1>5, <2>5 DEF ProberInv, NetInv, Ours
  <2>8. ArrivedInv(s)'
    <3>1. \A b \in arrived' : Used(s, b.target, b.n)'
                              /\ b.kind \in {"ok", "flip", "rst"}
      BY <1>5, <2>1, <2>2, <2>4, <2>5, <2>6 DEF ProberInv, ArrivedInv
    <3>2. \A b \in arrived', q \in net' : Ours(q) => b.target # q.src \/ b.n # q.n
      <4>1. Ours(p)
        BY <2>2 DEF Ours
      <4> QED BY <1>0, <2>4, <2>6, <4>1 DEF ProberInv, ArrivedInv, NetInv
    <3> QED BY <3>1, <3>2 DEF ArrivedInv, Ours
  <2>9. OnlyRealAnswers'
    <3> SUFFICES ASSUME NEW u \in Targets, NEW j \in Keys,
                        stats'[u][j] \notin {"none", "sent"}
                 PROVE  \/ \E b \in arrived' :
                             /\ b.n % Wire = j /\ b.kind = stats'[u][j]
                             /\ Echo \/ b.n < AckWord => b.target = u
                        \/ \E q \in strays : /\ Resembles(q, u, j)
                                             /\ Carries(q) = stats'[u][j]
      BY <1>m, <2>4 DEF OnlyRealAnswers
    <3>1. CASE stats'[u][j] = stats[u][j]
      BY <2>4, <3>1 DEF ProberInv, OnlyRealAnswers
    <3>2. CASE stats'[u][j] # stats[u][j]
      <4>1. u = t /\ j = k /\ stats'[u][j] = p.kind
        BY <2>5, <3>2 DEF Mark
      <4> QED BY <2>3, <2>4, <2>6, <4>1
    <3> QED BY <3>1, <3>2
  <2>10. NoAnswerLost'
    <3> SUFFICES ASSUME RangeBelowEnd, Unwrapped, NEW b \in arrived'
                 PROVE  \/ stats'[b.target][b.n % Wire] = b.kind
                        \/ \E q \in strays : Resembles(q, b.target, b.n % Wire)
      BY <1>m, <2>4 DEF NoAnswerLost
    <3>u. \A u, n : Used(s, u, n) => Echo \/ n < AckWord
      BY <1>1, <1>2, AckSizes DEF Used, Unwrapped, Wire, Echo
    <3>t. t = p.src
      BY <2>1, <2>3, <3>u
    <3>c. ASSUME NEW c \in arrived, c.target = t PROVE c.n % Wire # k
      <4>1. Used(s, t, c.n) /\ c.n # p.n
        BY <2>2, <3>c, <3>t DEF ProberInv, ArrivedInv, Ours
      <4> QED BY <2>1, <3>t, <4>1, UsedTellApart
    <3>1. CASE b = a
      <4>1. CASE stats[t][k] = "rst"
        <5>1. \/ \E c \in arrived : c.n % Wire = k
                                    /\ (Echo \/ c.n < AckWord => c.target = t)
              \/ \E q \in strays : Resembles(q, t, k)
          BY <2>1, <4>1 DEF ProberInv, OnlyRealAnswers
        <5>2. \A c \in arrived : Used(s, c.target, c.n)
          BY DEF ProberInv, ArrivedInv
        <5>3. \E q \in strays : Resembles(q, t, k)
          BY <3>c, <3>u, <5>1, <5>2
        <5> QED BY <2>6, <3>1, <3>t, <5>3
      <4>2. CASE stats[t][k] # "rst"
        <5>1. stats'[t][k] = p.kind
          BY <2>5, <4>2 DEF Mark
        <5> QED BY <2>6, <3>1, <3>t, <5>1
      <4> QED BY <4>1, <4>2
    <3>2. CASE b \in arrived
      <4>1. b.target \in Targets /\ b.n % Wire \in Keys
        BY <3>2, WireMod DEF ProberInv, ArrivedInv, Used
      <4>2. b.target # t \/ b.n % Wire # k
        BY <3>2, <3>c
      <4> QED BY <2>5, <3>2, <4>1, <4>2 DEF ProberInv, NoAnswerLost
    <3> QED BY <2>4, <3>1, <3>2
  <2> QED BY <1>0, <1>4, <1>5, <2>5, <2>7, <2>8, <2>9, <2>10 DEF ProberInv
<1>9. CASE p \in Noise
  <2>1. CASE Outcome(p) = None
    <3>1. p.kind = "noise"
      BY <1>1, <1>9, StrayFiled
    <3>2. stats' = stats /\ arrived' = arrived /\ strays' = strays
      BY <2>1, <3>1 DEF RecvPacket, None
    <3> QED BY <1>6, <3>2
  <2> QED BY <1>1, <1>7, <1>9, <2>1, StrayFiled
<1> QED BY <1>8, <1>9 DEF ProberInv, NetInv

LEMMA ProberStart == Init => \E s \in Nat : ProberInv(s)
<1> SUFFICES ASSUME Init PROVE \E s \in Nat : ProberInv(s)
  OBVIOUS
<1>1. PICK s \in SeqStarts : seq = [t \in 0 .. N |-> IF t = 0 THEN 0 ELSE s]
  BY DEF Init
<1>2. s \in Nat
  BY ProberAssumption
<1>3. 1 \in Targets /\ 0 \in 0 .. N /\ \A t \in Targets : t \in 0 .. N /\ t # 0
  BY Sizes DEF Targets
<1>4. seq \in [0 .. N -> Nat] /\ seq[0] = 0 /\ \A t \in Targets : seq[t] = s
  BY <1>1, <1>2, <1>3
<1>5. SrcPort \in Nat /\ PortCount \in Nat /\ PortCount > 0 /\ Delay \in Nat
      /\ ReadTimeout \in Nat
  BY ProberAssumption
<1>6. stats \in [Targets -> [Keys -> Verdicts]]
  BY DEF Init, Verdicts
<1>i. /\ tool \in Tools /\ conf \in Confs /\ spc = "open" /\ at = 1 /\ rpc = "none"
      /\ port = SrcPort /\ count = 0 /\ ctx = FALSE /\ stop = FALSE
      /\ conn = "none" /\ timers = [read |-> 0, sleep |-> 0] /\ done = <<>>
      /\ ret = "running" /\ fault = FALSE
  BY DEF Init
<1>7. TypeOK
  <2>1. timers \in [read : 0 .. ReadTimeout, sleep : 0 .. Delay]
    BY <1>5, <1>i
  <2>2. done \in Seq({"nil", "error"})
    BY <1>i
  <2>3. ctx \in BOOLEAN /\ stop \in BOOLEAN /\ fault \in BOOLEAN
    BY <1>i
  <2>4. at \in Targets /\ port \in Nat /\ count \in Nat
    BY <1>3, <1>5, <1>i
  <2>5. seq \in [0 .. N -> Nat]
    BY <1>4
  <2> QED BY <1>6, <1>i, <2>1, <2>2, <2>3, <2>4, <2>5, Zenon DEF TypeOK
<1>8. TurnInv
  BY <1>4, <1>i, RoundFacts DEF TurnInv
<1>9. SeqInv(s) /\ PortInv
  BY <1>2, <1>4, <1>5, <1>i DEF SeqInv, PortInv
<1>10. NetInv(s)
  <2>1. PICK p \in Noise : net = {p}
    BY DEF Init
  <2> QED BY <2>1 DEF NetInv
<1>11. ArrivedInv(s) /\ OnlyRealAnswers /\ NoAnswerLost
  BY DEF Init, ArrivedInv, OnlyRealAnswers, NoAnswerLost
<1> QED BY <1>2, <1>7, <1>8, <1>9, <1>10, <1>11 DEF ProberInv

LEMMA ProberStep ==
  (\E s \in Nat : ProberInv(s)) /\ [Next]_vars => (\E s \in Nat : ProberInv(s)')
<1> SUFFICES ASSUME NEW s \in Nat, ProberInv(s), [Next]_vars PROVE ProberInv(s)'
  OBVIOUS
<1>1. \/ Quiet \/ SendProbe \/ PutProbe \/ \E p \in net : RecvPacket(p)
  BY DEF Next, Step, Exited, Quiet
<1> QED BY <1>1, QuietStep, SendProbeStep, PutProbeStep, RecvPacketStep

ProberInvariant == \E s \in Nat : ProberInv(s)

LEMMA ProberInductive ==
  (Init => ProberInvariant) /\ (ProberInvariant /\ [Next]_vars => ProberInvariant')
<1>1. ProberInvariant' <=> \E s \in Nat : ProberInv(s)'
  BY DEF ProberInvariant
<1> QED BY <1>1, ProberStart, ProberStep DEF ProberInvariant

(***************************************************************************)
(* The types, for every number of targets and every limit.                 *)
(***************************************************************************)
THEOREM TypesHold == Spec => []TypeOK
<1>1. ProberInvariant => TypeOK
  BY DEF ProberInvariant, ProberInv
<1> QED BY <1>1, ProberInductive, PTL DEF Spec

(***************************************************************************)
(* What the statistics count was read: the answer of that target for that  *)
(* number with that verdict, or a packet that has every mark the program   *)
(* looks for.  That is host, identifier and number in ping and ping6; in   *)
(* lidar no host, and the target only as far as 32 bits of the number tell *)
(* it (handleEchoReply, handleEchoReply6, processParsedPacket).            *)
(***************************************************************************)
THEOREM CountedWasAnswered == Spec => []OnlyRealAnswers
<1>1. ProberInvariant => OnlyRealAnswers
  BY DEF ProberInvariant, ProberInv
<1> QED BY <1>1, ProberInductive, PTL DEF Spec

(***************************************************************************)
(* Every answer that is read is counted and stays counted, also when it    *)
(* overtook Stat.Put and wherever ping's numbers wrap, as long as lidar's  *)
(* port range ends below the last port and a run has made fewer probes     *)
(* than there are numbers to carry back: both are antecedents of           *)
(* NoAnswerLost.                                                           *)
(***************************************************************************)
THEOREM AnsweredIsCounted == Spec => []NoAnswerLost
<1>1. ProberInvariant => NoAnswerLost
  BY DEF ProberInvariant, ProberInv
<1> QED BY <1>1, ProberInductive, PTL DEF Spec

-----------------------------------------------------------------------------
(* stopping                                                                *)

(***************************************************************************)
(* ping6 and lidar, while nothing has failed: the socket is open under a   *)
(* read, because the read is over before the sender's sleep, and nobody    *)
(* has an error to report.                                                 *)
(***************************************************************************)
NoError == /\ rpc # "failed" /\ ret # "error"
           /\ \A i \in DOMAIN done : done[i] # "error"

NothingFailed ==
  /\ Echo /\ Running /\ rpc = "read" => conn = "open"
  /\ Echo /\ Running /\ rpc = "check" /\ ~ stop => conn = "open"
  /\ NoError

(***************************************************************************)
(* ping, while nothing has failed: only its sender, after the delay,       *)
(* closes the socket under a read, and only then is there an error.        *)
(***************************************************************************)
SenderClosed == stop /\ spc \in {"closed", "done"} /\ timers.sleep = 0

OnlyClosed ==
  /\ Running /\ rpc = "read" => conn = "open" \/ SenderClosed
  /\ Running /\ rpc = "check" /\ ~ stop => conn = "open"
  /\ NoError \/ SenderClosed

StopInv ==
  /\ spc = "sleep" => stop
  /\ spc = "sleep" /\ rpc = "read" /\ TimesOut => timers.read < timers.sleep
  /\ fault \/ IF TimesOut THEN NothingFailed ELSE OnlyClosed

LEMMA StopStep ==
  ASSUME ReadTimeout < Delay, TypeOK, StopInv, Next
  PROVE  StopInv'
<1>0. /\ Delay \in Nat /\ ReadTimeout \in Nat
      /\ timers \in [read : 0 .. ReadTimeout, sleep : 0 .. Delay]
      /\ done \in Seq({"nil", "error"})
  BY ProberAssumption DEF TypeOK
<1>s. sender' = sender => UNCHANGED spc
  BY DEF sender
<1> USE DEF StopInv, NothingFailed, NoError, OnlyClosed, SenderClosed, Running,
            Echo, TimesOut
<1>1. CASE Running /\ Open
  BY <1>1 DEF Open, OpenConn, OpenConn6, OpenScan, Opened, OpenFails
<1>2. CASE Running /\ SendStop
  BY <1>0, <1>2 DEF SendStop, Finish
<1>3. CASE Running /\ SendTake
  BY <1>3 DEF SendTake
<1>4. CASE Running /\ (SendProbe \/ PutProbe)
  <2>1. UNCHANGED <<tool, rpc, conn, stop, ret, done, timers, fault>>
        /\ spc \in {"send", "put"} /\ spc' # "sleep"
    BY <1>4 DEF SendProbe, serveSend, serveSend6, Scan, Unsent, Sent, PutProbe,
                NextTarget
  <2> QED BY <2>1
<1>5. CASE Running /\ SendReturn
  <2>1. CASE /\ spc = "sleep" /\ timers.sleep = 0 /\ stop' = TRUE /\ UNCHANGED done
             /\ ret' = IF Echo THEN ret ELSE "nil"
             /\ spc' \in {"closed", "done"}
    <3>1. rpc = "read" => ~ TimesOut
      BY <1>0, <2>1
    <3>2. UNCHANGED <<tool, rpc, timers, fault>>
      BY <1>5 DEF SendReturn
    <3> QED BY <2>1, <3>1, <3>2
  <2>2. CASE /\ spc = "closed" /\ spc' = "done" /\ done' = Append(done, "nil")
             /\ UNCHANGED <<stop, conn, ret>>
    <3>1. UNCHANGED <<tool, rpc, timers, fault>>
      BY <1>5 DEF SendReturn
    <3>2. (\A i \in DOMAIN done : done[i] # "error")
            => \A i \in DOMAIN done' : done'[i] # "error"
      BY <1>0, <2>2
    <3> QED BY <2>2, <3>1, <3>2
  <2> QED BY <1>5, <2>1, <2>2 DEF SendReturn
<1>6. CASE Running /\ RecvCheck
  BY <1>0, <1>6, <1>s DEF RecvCheck
<1>7. ASSUME NEW p \in net, Running, RecvPacket(p) PROVE StopInv'
  BY <1>7, <1>s DEF RecvPacket
<1>8. CASE Running /\ RecvError
  <2>1. TypeOK /\ tool \in {"ping", "ping6", "lidar"}
    BY ToolFacts
  <2> QED BY <1>8, <1>s, <2>1
          DEF RecvError, serveRecv, serveRecv6, serveRecvScan
<1>9. CASE Running /\ RecvReturn
  <2>1. /\ rpc \in {"ended", "failed"} /\ rpc' = "done"
        /\ done' = Append(done, IF rpc = "ended" THEN "nil" ELSE "error")
        /\ UNCHANGED <<tool, spc, stop, conn, timers, ret, fault>>
    BY <1>9 DEF RecvReturn, sender
  <2>2. rpc = "ended" /\ (\A i \in DOMAIN done : done[i] # "error")
          => \A i \in DOMAIN done' : done'[i] # "error"
    BY <1>0, <2>1
  <2> QED BY <2>1, <2>2
<1>10. CASE Running /\ RunReturns
  <2>1. /\ done # <<>> /\ ret' = Head(done) /\ conn' = "closed"
        /\ UNCHANGED <<tool, spc, rpc, stop, timers, done, fault>>
    BY <1>10 DEF RunReturns, sender
  <2>2. 1 \in DOMAIN done /\ Head(done) = done[1] /\ Head(done) \in {"nil", "error"}
    BY <1>0, <2>1
  <2> QED BY <2>1, <2>2
<1>11. CASE Running /\ Cancel
  BY <1>11, <1>s DEF Cancel
<1>12. CASE Running /\ Tick
  <2>1. /\ UNCHANGED <<tool, spc, rpc, stop, conn, done, ret, fault>>
        /\ ~ (rpc = "read" /\ TimesOut /\ timers.read = 0)
        /\ timers' = [read  |-> IF rpc = "read" /\ TimesOut THEN timers.read - 1
                                ELSE timers.read,
                      sleep |-> IF spc = "sleep" THEN timers.sleep - 1
                                ELSE timers.sleep]
    BY <1>12 DEF Tick, Due, ReadEnds, sender
  <2> QED BY <1>0, <2>1
<1>13. CASE Exited
  BY <1>13 DEF Exited, vars, sender
<1> QED BY <1>1, <1>2, <1>3, <1>4, <1>5, <1>6, <1>7, <1>8, <1>9, <1>10, <1>11,
           <1>12, <1>13 DEF Next, Step

(***************************************************************************)
(* A run that is stopped while nothing has failed returns no error from    *)
(* ping6, whenever its read times out before the delay is over: the        *)
(* receiver sees stopCh and leaves its read before the sender closes the   *)
(* socket.  ping's read has no timeout: it returns an error only if the    *)
(* sender has closed the socket after the whole delay.                     *)
(***************************************************************************)
THEOREM StopErrsOnlyAtClose ==
  ASSUME ReadTimeout < Delay
  PROVE  Spec => []StopIsClean
<1>1. Init => StopInv
  BY DEF Init, StopInv, NothingFailed, NoError, OnlyClosed
<1>2. TypeOK /\ StopInv /\ [Next]_vars => StopInv'
  <2>1. StopInv /\ UNCHANGED vars => StopInv'
    BY DEF StopInv, NothingFailed, NoError, OnlyClosed, SenderClosed, Running,
           Echo, TimesOut, vars, sender
  <2> QED BY <2>1, StopStep
<1>3. StopInv => StopIsClean
  BY DEF StopInv, NothingFailed, NoError, OnlyClosed, SenderClosed, TimesOut,
         StopIsClean
<1> QED BY <1>1, <1>2, <1>3, TypesHold, PTL DEF Spec
=============================================================================
