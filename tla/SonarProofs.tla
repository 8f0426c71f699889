---------------------------- MODULE SonarProofs ----------------------------
(***************************************************************************)
(* Theorems about SonarServer, for all port ranges, every span and delay,  *)
(* every number of probes, copies and restarts of the client.              *)
(***************************************************************************)
EXTENDS SonarServer, SequenceTheorems, FiniteSetTheorems, WellFoundedInduction, TLAPS

-----------------------------------------------------------------------------
(* windows and ports                                                       *)

LEMMA Constants ==
  /\ Word \in Nat /\ Word > 0 /\ Span \in Nat /\ Span > 0 /\ Delay \in Nat
  /\ RateInSpan \in Nat /\ RateInSpan > 0 /\ Warmup \in Nat
  /\ Start \in Nat /\ Start >= 2 * Span /\ MaxTime \in Nat /\ MaxTime >= Start
  /\ MaxProbes \in Nat /\ MaxCopies \in Nat /\ MaxRestarts \in Nat /\ LastSend \in Nat
  /\ ClientRange.min \in Ports /\ ServerRange.min \in Ports /\ 0 \in Ports
BY SonarConstants, WordAssumption DEF PortRange, Ports

LEMMA IDOfNat == \A t \in Nat : IDOf(t) \in Nat
BY Constants DEF IDOf

LEMMA IDOfMonotonic == \A t, u \in Nat : t <= u => IDOf(t) <= IDOf(u)
BY Constants DEF IDOf

LEMMA IDOfWindows == \A t \in 0 .. MaxTime : IDOf(t) \in Windows
BY IDOfNat, IDOfMonotonic, Constants DEF Windows

(***************************************************************************)
(* Zero is a window, and that of no time the programs see.                 *)
(***************************************************************************)
LEMMA ZeroWindow == 0 \in Windows
BY IDOfNat, Constants DEF Windows

LEMMA PositiveIDs == \A t \in Nat : t >= Start => IDOf(t) > 0
BY Constants DEF IDOf

LEMMA NextPortsType ==
  ASSUME NEW c \in Ports, NEW s \in Ports
  PROVE  GetNextPorts(c, s, ClientRange, ServerRange) \in Ports \X Ports
<1>1. \A x \in Ports : Incremented(x) \in Ports
  <2>1. ASSUME NEW x \in Nat PROVE (x + 1) % Word \in 0 .. Word - 1
    BY Constants
  <2> QED BY <2>1 DEF Ports, Incremented
<1> QED BY <1>1, Constants DEF GetNextPorts, NextClientPort, NextServerPort

LEMMA LeastElement ==
  ASSUME NEW T, T \subseteq Nat, T # {}
  PROVE  \E i \in T : \A j \in T : i <= j
<1>1. PICK i \in T : \A j \in T : ~ (<<j, i>> \in OpToRel(<, Nat))
  <2>1. IsWellFoundedOn(OpToRel(<, Nat), Nat)
    BY NatLessThanWellFounded
  <2> QED BY <2>1, WFMin
<1>2. \A j \in T : ~ (j < i)
  BY <1>1 DEF OpToRel
<1> QED BY <1>2

LEMMA SmallestIDIsLeast ==
  ASSUME NEW map, DOMAIN map \subseteq Nat
  PROVE  /\ DOMAIN map = {} => SmallestID(map) = NoMin
         /\ DOMAIN map # {} => /\ SmallestID(map) \in DOMAIN map
                               /\ \A j \in DOMAIN map : SmallestID(map) <= j
<1>1. CASE DOMAIN map = {}
  BY <1>1 DEF SmallestID
<1>2. CASE DOMAIN map # {}
  <2>1. \E i \in DOMAIN map : \A j \in DOMAIN map : i <= j
    BY <1>2, LeastElement
  <2> QED BY <1>2, <2>1 DEF SmallestID
<1> QED BY <1>1, <1>2

-----------------------------------------------------------------------------
(* who does what                                                           *)

Processor == StartProcessor \/ TakeTick \/ StatOnce

LEMMA StepsByActor ==
  ASSUME [Next]_vars
  PROVE  \/ Client \/ Processor \/ Tick \/ LateTick \/ UNCHANGED vars
         \/ \E p \in ServerPorts : Goroutine(p)
BY DEF Next, Processor

LEMMA ClientFrame ==
  ASSUME Client
  PROVE  UNCHANGED <<now, registered, store, lastID, srv, proc, ticker, reports, got>>
BY DEF Client, SendProbe, RestartClient

LEMMA GoroutineSteps ==
  ASSUME NEW p \in ServerPorts, Goroutine(p)
  PROVE  \/ \E s \in DOMAIN wire : ReadPacket(p, s)
         \/ FindStat(p) \/ RegisterStat(p) \/ PutLookup(p) \/ PutStore(p)
         \/ MarkReceived(p) \/ FindPrev(p) \/ FixPrev(p)
BY DEF Goroutine, readPackets, readPackets6, getOrCreateStat, getOrCreateStat6

LEMMA GoroutineFrame ==
  ASSUME NEW p \in ServerPorts, Goroutine(p)
  PROVE  UNCHANGED <<now, client, lastID, proc, ticker, reports>>
BY GoroutineSteps DEF ReadPacket, FindStat, RegisterStat, PutLookup, PutStore,
       MarkReceived, FindPrev, FixPrev

LEMMA ProcessorFrame ==
  ASSUME Processor
  PROVE  UNCHANGED <<now, client, wire, registered, srv, got, heap>>
BY DEF Processor, StatOnce, StartProcessor, TakeTick, FetchOldest, CheckAge,
       NothingToReport, DiscardStale, TakeStat, ReadParams, SendReport,
       RemoveReported, Remove, store

LEMMA TimeFrame ==
  ASSUME Tick \/ LateTick \/ UNCHANGED vars
  PROVE  UNCHANGED <<client, wire, registered, store, lastID, srv, proc, reports, got>>
BY DEF Tick, LateTick, vars, store, client

(***************************************************************************)
(* Goroutines of several ports that meet the same unknown client make one  *)
(* udpStat between them (getOrCreateStat), on any number of ports.         *)
(***************************************************************************)
THEOREM ClientsHaveOneStat == Spec => []OneStatPerClient
<1> DEFINE Inv == registered \in 0 .. 1
<1>1. Init => Inv
  BY DEF Init, New, New6
<1>2. Inv /\ [Next]_vars => Inv'
  <2> SUFFICES ASSUME Inv, [Next]_vars PROVE Inv'
    OBVIOUS
  <2>1. ASSUME NEW p \in ServerPorts, Goroutine(p) PROVE Inv'
    <3>1. RegisterStat(p) => Inv'
      BY DEF RegisterStat
    <3>2. ~ RegisterStat(p) => registered' = registered
      BY <2>1, GoroutineSteps DEF ReadPacket, FindStat, PutLookup, PutStore, MarkReceived,
             FindPrev, FixPrev
    <3> QED BY <3>1, <3>2
  <2> QED BY <2>1, StepsByActor, ClientFrame, ProcessorFrame, TimeFrame
<1>3. Inv => OneStatPerClient
  BY DEF OneStatPerClient
<1> QED BY <1>1, <1>2, <1>3, PTL DEF Spec

-----------------------------------------------------------------------------
(* the types                                                               *)

BucketType == [id : Windows, requests : RequestsType, fixed : BOOLEAN, told : Told]
PacketType == [ts : Start .. MaxTime, ports : Ports \X Ports, last : Told,
               run : 0 .. MaxRestarts]

(***************************************************************************)
(* A count grows by one with a probe, so the bounds on the probes bound    *)
(* the counts.                                                             *)
(***************************************************************************)
Bounded ==
  /\ Len(pkts) <= MaxProbes
  /\ cli.cur.sent <= RateInSpan + Len(pkts)
  /\ cli.last.sent <= RateInSpan + Len(pkts)

TypeInv == TypeOK /\ Bounded

LEMMA InHand ==
  ASSUME TypeInv, NEW p \in ServerPorts, srv[p].pc # "idle"
  PROVE  /\ srv[p].seq \in DOMAIN pkts /\ srv[p].seq \in Seqs
         /\ pkts[srv[p].seq] \in PacketType /\ IDInHand(p) \in Windows
<1>1. pkts \in Seq(PacketType) /\ Len(pkts) <= MaxProbes
  BY DEF TypeInv, TypeOK, ClientType, Bounded, PacketType
<1>2. srv[p].seq \in 1 .. Len(pkts)
  BY <1>1, LenProperties DEF TypeInv, TypeOK, GoroutineType
<1>3. pkts[srv[p].seq] \in PacketType
  BY <1>1, <1>2, ElementOfSeq
<1>4. pkts[srv[p].seq].ts \in 0 .. MaxTime
  BY <1>3, Constants DEF PacketType
<1> QED BY <1>1, <1>2, <1>3, <1>4, IDOfWindows, LenProperties, Constants
        DEF Seqs, IDInHand

(***************************************************************************)
(* buckets.minID is the smallest key of the map.                           *)
(***************************************************************************)
MinIDIsLeast ==
  IF DOMAIN bmap = {} THEN minID = NoMin
  ELSE minID \in DOMAIN bmap /\ \A j \in DOMAIN bmap : minID <= j

LEMMA NewBucketType ==
  ASSUME NEW id \in Windows PROVE NewBucket(id) \in BucketType
<1>1. NotTold \in Told
  BY Constants DEF NotTold, Told, NoPorts
<1> QED BY <1>1 DEF NewBucket, BucketType, RequestsType

(***************************************************************************)
(* What get-or-create does to the map; the objects come with it.           *)
(***************************************************************************)
LEMMA CreateEffect ==
  ASSUME StoreType, NEW id \in Windows, GetOrCreate(id), NEW h, h = Inserted(id)
  PROVE  /\ h \in Seq(BucketType) /\ Len(heap) <= Len(h)
         /\ \A i \in Refs : h[i] = heap[i]
         /\ DOMAIN bmap' = DOMAIN bmap \cup {id} /\ bmap' \in [DOMAIN bmap' -> 1 .. Len(h)]
         /\ \A k \in DOMAIN bmap : bmap'[k] = bmap[k]
         /\ id \notin DOMAIN bmap => bmap'[id] \notin Refs /\ h[bmap'[id]] = NewBucket(id)
         /\ minID' \in Windows \cup {NoMin}
         /\ MinIDIsLeast => MinIDIsLeast'
<1>0. heap \in Seq(BucketType) /\ Len(heap) \in Nat
  BY LenProperties DEF StoreType, BucketType
<1>1. CASE id \in DOMAIN bmap
  <2>1. h = heap /\ bmap' = bmap /\ minID' = minID
    BY <1>1 DEF Inserted, GetOrCreate
  <2>2. MinIDIsLeast => MinIDIsLeast'
    BY <2>1 DEF MinIDIsLeast
  <2>3. bmap \in [DOMAIN bmap -> 1 .. Len(heap)] /\ minID \in Windows \cup {NoMin}
    BY DEF StoreType, Refs
  <2>4. DOMAIN bmap = DOMAIN bmap \cup {id}
    BY <1>1
  <2>5. Len(heap) <= Len(heap)
    BY <1>0
  <2> QED BY <1>0, <1>1, <2>1, <2>2, <2>3, <2>4, <2>5 DEF Refs
<1>2. CASE id \notin DOMAIN bmap
  <2>1. NewBucket(id) \in BucketType
    BY NewBucketType
  <2>2. /\ h = Append(heap, NewBucket(id))
        /\ bmap' = Insert(bmap, id, Len(heap) + 1)
        /\ minID' = MinAfterInsert(minID, id)
    BY <1>2 DEF GetOrCreate, Inserted
  <2>3. /\ h \in Seq(BucketType) /\ Len(h) = Len(heap) + 1
        /\ \A i \in 1 .. Len(heap) : h[i] = heap[i]
        /\ h[Len(heap) + 1] = NewBucket(id)
    BY <1>0, <2>1, <2>2, AppendProperties
  <2>4. /\ DOMAIN bmap' = DOMAIN bmap \cup {id}
        /\ \A k \in DOMAIN bmap : bmap'[k] = bmap[k]
        /\ bmap'[id] = Len(heap) + 1
        /\ bmap' = [k \in DOMAIN bmap \cup {id} |-> bmap'[k]]
    BY <1>2, <2>2 DEF Insert
  <2>5. \A k \in DOMAIN bmap' : bmap'[k] \in 1 .. Len(h)
    BY <1>0, <2>3, <2>4 DEF StoreType, Refs
  <2>6. DOMAIN bmap \subseteq Nat /\ id \in Nat /\ (minID \in Nat \/ minID = -1)
    BY DEF StoreType, Windows, NoMin
  <2>7. minID' \in Windows \cup {NoMin}
    BY <2>2 DEF StoreType, MinAfterInsert
  <2>8. MinIDIsLeast => MinIDIsLeast'
    BY <2>2, <2>4, <2>6 DEF MinIDIsLeast, MinAfterInsert, NoMin
  <2> QED BY <1>0, <1>2, <2>3, <2>4, <2>5, <2>7, <2>8 DEF Refs
<1> QED BY <1>1, <1>2

(***************************************************************************)
(* What remove does: one key goes, and the minimum stays right.            *)
(***************************************************************************)
LEMMA RemoveEffect ==
  ASSUME StoreType, NEW id, Remove(id)
  PROVE  /\ DOMAIN bmap' = DOMAIN bmap \ {id} /\ bmap' \in [DOMAIN bmap' -> Refs]
         /\ \A k \in DOMAIN bmap' : bmap'[k] = bmap[k]
         /\ heap' = heap /\ minID' \in Windows \cup {NoMin}
         /\ MinIDIsLeast => MinIDIsLeast'
<1>1. /\ DOMAIN bmap' = DOMAIN bmap \ {id} /\ bmap' \in [DOMAIN bmap' -> Refs]
      /\ \A k \in DOMAIN bmap' : bmap'[k] = bmap[k]
      /\ heap' = heap
  BY DEF Remove, Without, StoreType
<1>2. DOMAIN bmap' \subseteq Windows /\ DOMAIN bmap' \subseteq Nat
  BY <1>1 DEF StoreType, Windows
<1>3. /\ DOMAIN bmap' = {} => SmallestID(bmap') = NoMin
      /\ DOMAIN bmap' # {} => /\ SmallestID(bmap') \in DOMAIN bmap'
                              /\ \A j \in DOMAIN bmap' : SmallestID(bmap') <= j
  BY <1>2, SmallestIDIsLeast
<1>4. minID' = IF id = minID THEN SmallestID(bmap') ELSE minID
  BY DEF Remove, MinAfterRemove
<1>5. minID' \in Windows \cup {NoMin}
  BY <1>2, <1>3, <1>4 DEF StoreType
<1>6. MinIDIsLeast => MinIDIsLeast'
  BY <1>1, <1>3, <1>4 DEF MinIDIsLeast
<1> QED BY <1>1, <1>5, <1>6

(***************************************************************************)
(* bucket.put, the third section of receivedAndFix and its first section:  *)
(* what each changes in the objects.                                       *)
(***************************************************************************)
LEMMA PutEffect ==
  ASSUME TypeInv, NEW p \in ServerPorts, PutStore(p)
  PROVE  /\ srv[p].ref \in Refs /\ srv[p].seq \in Seqs
         /\ heap' \in Seq(BucketType) /\ Len(heap') = Len(heap)
         /\ \A i \in Refs : heap'[i].id = heap[i].id /\ heap'[i].told = heap[i].told
         /\ \A i \in Refs, s \in Seqs :
              heap'[i].requests[s] =
                IF i = srv[p].ref /\ s = srv[p].seq THEN AfterPut(heap[i].requests[s])
                                                    ELSE heap[i].requests[s]
<1>0. heap \in Seq(BucketType)
  BY DEF TypeInv, TypeOK, StoreType, BucketType
<1>1. PICK i \in Refs : i = srv[p].ref
  BY DEF TypeInv, TypeOK, GoroutineType, PutStore
<1>2. PICK s \in Seqs : s = srv[p].seq
  BY InHand DEF PutStore
<1>3. heap[i] \in BucketType
  BY <1>0, <1>1, ElementOfSeq DEF Refs
<1>4. PICK x : x = AfterPut(heap[i].requests[s])
  OBVIOUS
<1>5. x \in {"none", "unset", "ack", "bare"}
  BY <1>3, <1>4 DEF AfterPut, BucketType, RequestsType
<1>6. PICK b : b = [heap[i] EXCEPT !.requests[s] = x]
  OBVIOUS
<1>7. /\ b \in BucketType /\ b.id = heap[i].id /\ b.told = heap[i].told
      /\ \A t \in Seqs : b.requests[t] = IF t = s THEN x ELSE heap[i].requests[t]
  BY <1>3, <1>5, <1>6 DEF BucketType, RequestsType
<1>8. heap' = [heap EXCEPT ![i] = b]
  BY <1>1, <1>2, <1>4, <1>6 DEF PutStore
<1>9. /\ heap' \in Seq(BucketType) /\ Len(heap') = Len(heap)
      /\ \A j \in Refs : heap'[j] = IF j = i THEN b ELSE heap[j]
  BY <1>0, <1>1, <1>7, <1>8, ExceptSeq DEF Refs
<1> QED BY <1>1, <1>2, <1>4, <1>7, <1>9

LEMMA FixEffect ==
  ASSUME TypeInv, NEW p \in ServerPorts, FixPrev(p)
  PROVE  /\ srv[p].ref \in Refs
         /\ heap' \in Seq(BucketType) /\ Len(heap') = Len(heap)
         /\ \A i \in Refs :
              /\ heap'[i].id = heap[i].id /\ heap'[i].requests = heap[i].requests
              /\ heap'[i].told = IF i = srv[p].ref THEN pkts[srv[p].seq].last
                                                   ELSE heap[i].told
<1>0. heap \in Seq(BucketType)
  BY DEF TypeInv, TypeOK, StoreType, BucketType
<1>1. PICK i \in Refs : i = srv[p].ref
  BY DEF TypeInv, TypeOK, GoroutineType, FixPrev
<1>2. PICK x \in Told : x = pkts[srv[p].seq].last
  BY InHand DEF FixPrev, PacketType
<1>3. heap[i] \in BucketType
  BY <1>0, <1>1, ElementOfSeq DEF Refs
<1>4. PICK b : b = [heap[i] EXCEPT !.told = x]
  OBVIOUS
<1>5. /\ b \in BucketType /\ b.id = heap[i].id /\ b.told = x
      /\ b.requests = heap[i].requests
  BY <1>3, <1>4 DEF BucketType
<1>6. heap' = [heap EXCEPT ![i] = b]
  BY <1>1, <1>2, <1>4 DEF FixPrev
<1>7. /\ heap' \in Seq(BucketType) /\ Len(heap') = Len(heap)
      /\ \A j \in Refs : heap'[j] = IF j = i THEN b ELSE heap[j]
  BY <1>0, <1>1, <1>5, <1>6, ExceptSeq DEF Refs
<1> QED BY <1>1, <1>2, <1>5, <1>7

LEMMA MarkEffect ==
  ASSUME TypeInv, NEW p \in ServerPorts, MarkReceived(p), NEW base,
         base = Inserted(IDInHand(p))
  PROVE  /\ IDInHand(p) \in Windows /\ GetOrCreate(IDInHand(p)) /\ srv[p].seq \in Seqs
         /\ base \in Seq(BucketType) /\ bmap'[IDInHand(p)] \in 1 .. Len(base)
         /\ heap' \in Seq(BucketType) /\ Len(heap') = Len(base)
         /\ \A i \in 1 .. Len(base) :
              heap'[i].id = base[i].id /\ heap'[i].told = base[i].told
         /\ \A i \in 1 .. Len(base), s \in Seqs :
              heap'[i].requests[s] =
                IF i = bmap'[IDInHand(p)] /\ s = srv[p].seq
                THEN AfterReceived(base[i].requests[s]) ELSE base[i].requests[s]
<1>0. StoreType /\ IDInHand(p) \in Windows /\ GetOrCreate(IDInHand(p))
  BY InHand DEF TypeInv, TypeOK, MarkReceived
<1>1. /\ base \in Seq(BucketType) /\ bmap' \in [DOMAIN bmap' -> 1 .. Len(base)]
      /\ IDInHand(p) \in DOMAIN bmap'
  BY <1>0, CreateEffect
<1>2. PICK s \in Seqs : s = srv[p].seq
  BY InHand DEF MarkReceived
<1>3. PICK i \in 1 .. Len(base) : i = bmap'[IDInHand(p)]
  BY <1>1
<1>4. base[i] \in BucketType
  BY <1>1, <1>3, ElementOfSeq
<1>5. PICK x : x = AfterReceived(base[i].requests[s])
  OBVIOUS
<1>6. x \in {"none", "unset", "ack", "bare"}
  BY <1>4, <1>5 DEF AfterReceived, BucketType, RequestsType
<1>7. PICK b : b = [base[i] EXCEPT !.requests[s] = x, !.fixed = TRUE]
  OBVIOUS
<1>8. /\ b \in BucketType /\ b.id = base[i].id /\ b.told = base[i].told
      /\ \A t \in Seqs : b.requests[t] = IF t = s THEN x ELSE base[i].requests[t]
  BY <1>4, <1>6, <1>7 DEF BucketType, RequestsType
<1>9. heap' = [base EXCEPT ![i] = b]
  <2>1. heap' = [base EXCEPT ![bmap'[IDInHand(p)]] =
                   [base[bmap'[IDInHand(p)]] EXCEPT
                      !.requests[srv[p].seq] =
                        AfterReceived(base[bmap'[IDInHand(p)]].requests[srv[p].seq]),
                      !.fixed = TRUE]]
    BY DEF MarkReceived
  <2> QED BY <1>2, <1>3, <1>5, <1>7, <2>1
<1>10. /\ heap' \in Seq(BucketType) /\ Len(heap') = Len(base)
       /\ \A j \in 1 .. Len(base) : heap'[j] = IF j = i THEN b ELSE base[j]
  BY <1>1, <1>3, <1>8, <1>9, ExceptSeq
<1> QED BY <1>0, <1>1, <1>2, <1>3, <1>5, <1>8, <1>10

(***************************************************************************)
(* The types hold at the start and are kept, part by part.                 *)
(***************************************************************************)
LEMMA TypeInit == Init => TypeInv
<1> SUFFICES ASSUME Init PROVE TypeInv
  OBVIOUS
<1>1. NotTold \in Told /\ [sent |-> RateInSpan, start |-> <<ClientRange.min, ServerRange.min>>] \in Told
      /\ [sent |-> 0, start |-> NoPorts] \in Told
  BY Constants DEF NotTold, Told, NoPorts
<1>2. /\ cli \in [ready : Nat, ports : Ports \X Ports, id : Windows, cur : Told, last : Told]
      /\ cli.cur.sent = RateInSpan /\ cli.last.sent = 0
  BY <1>1, Constants, ZeroWindow DEF Init, FreshClient
<1>3. /\ pkts = << >> /\ wire = << >> /\ heap = << >> /\ reports = << >>
      /\ restarts = 0 /\ got = {} /\ lastID = 0 /\ now = Start
  BY DEF Init
<1>4. ClientType /\ Bounded
  BY <1>2, <1>3, Constants DEF ClientType, Bounded
<1>5. StoreType
  BY <1>3, ZeroWindow DEF Init, StoreType, NoMin
<1>6. GoroutineType
  <2>1. registered \in Nat
    BY DEF Init, New, New6
  <2>2. srv = [p \in ServerPorts |-> IdleServer]
    BY DEF Init
  <2> QED BY <1>3, <2>1, <2>2 DEF GoroutineType, IdleServer
<1>7. ProcType
  BY <1>1, ZeroWindow DEF Init, ProcType, IdleProc, NoResult, RequestsType
<1>8. ClockType
  BY Constants DEF Init, ClockType
<1>9. HistoryType
  BY <1>3 DEF HistoryType
<1> QED BY <1>4, <1>5, <1>6, <1>7, <1>8, <1>9 DEF TypeInv, TypeOK

LEMMA ClientTypeStep ==
  ASSUME TypeInv, [Next]_vars
  PROVE  ClientType' /\ Bounded' /\ Len(pkts) \in Nat /\ Len(pkts) <= Len(pkts')
<1>0. /\ cli \in [ready : Nat, ports : Ports \X Ports, id : Windows, cur : Told, last : Told]
      /\ restarts \in 0 .. MaxRestarts /\ pkts \in Seq(PacketType)
      /\ wire \in Seq(0 .. MaxCopies) /\ Len(wire) = Len(pkts) /\ Len(pkts) \in Nat
      /\ now \in Start .. MaxTime
  BY LenProperties DEF TypeInv, TypeOK, ClientType, PacketType, ClockType
<1>b. /\ Len(pkts) <= MaxProbes /\ cli.cur.sent <= RateInSpan + Len(pkts)
      /\ cli.last.sent <= RateInSpan + Len(pkts)
  BY DEF TypeInv, Bounded
<1>1. CASE UNCHANGED <<client, wire>>
  BY <1>0, <1>b, <1>1 DEF client, ClientType, Bounded, PacketType
<1>2. ASSUME NEW copies \in 0 .. MaxCopies, SendProbe(copies)
      PROVE  ClientType' /\ Bounded' /\ Len(pkts) <= Len(pkts')
  <2>1. PICK id \in Windows : id = IDOf(now)
    BY <1>0, Constants, IDOfWindows
  <2>2. PICK next \in Ports \X Ports :
          next = GetNextPorts(cli.ports[1], cli.ports[2], ClientRange, ServerRange)
    BY <1>0, NextPortsType
  <2>3. /\ cli'.ports = next /\ cli'.id = id
        /\ cli' \in [ready : Nat, ports : Ports \X Ports, id : Windows, cur : Told, last : Told]
        /\ cli'.cur.sent <= RateInSpan + Len(pkts) + 1
        /\ cli'.last.sent <= RateInSpan + Len(pkts) + 1
    <3>1. cli.cur.sent \in Nat /\ cli.last.sent \in Nat
      BY <1>0, Constants DEF Told
    <3>2. Len(pkts) + 1 <= MaxProbes
      BY <1>0, <1>2, Constants DEF SendProbe
    <3>3. CASE id # cli.id
      <4>1. cli' = [cli EXCEPT !.ports = next, !.id = id, !.last = cli.cur,
                               !.cur = [sent |-> 1, start |-> next]]
        BY <1>2, <2>1, <2>2, <3>3 DEF SendProbe, Accounted
      <4>2. [sent |-> 1, start |-> next] \in Told
        BY Constants DEF Told
      <4>3. /\ cli'.ports = next /\ cli'.id = id /\ cli'.last = cli.cur
            /\ cli'.cur = [sent |-> 1, start |-> next]
            /\ cli' \in [ready : Nat, ports : Ports \X Ports, id : Windows, cur : Told, last : Told]
        BY <1>0, <4>1, <4>2
      <4>4. cli'.cur.sent = 1 /\ cli'.last.sent = cli.cur.sent
        BY <4>3
      <4> QED BY <1>0, <1>b, <3>1, <4>3, <4>4, Constants
    <3>4. CASE id = cli.id
      <4>1. cli' = [cli EXCEPT !.ports = next, !.cur.sent = cli.cur.sent + 1]
        BY <1>2, <2>1, <2>2, <3>4 DEF SendProbe, Accounted
      <4>2. PICK c : c = [cli.cur EXCEPT !.sent = cli.cur.sent + 1]
        OBVIOUS
      <4>3. cli.cur \in Told
        BY <1>0
      <4>4. cli.cur.sent + 1 \in 0 .. MaxProbes + RateInSpan
        BY <1>0, <1>b, <3>1, <3>2, Constants
      <4>5. c \in Told /\ c.sent = cli.cur.sent + 1
        BY <4>2, <4>3, <4>4 DEF Told
      <4>6. cli' = [cli EXCEPT !.ports = next, !.cur = c]
        BY <4>1, <4>2
      <4>7. /\ cli'.ports = next /\ cli'.id = id /\ cli'.last = cli.last /\ cli'.cur = c
            /\ cli' \in [ready : Nat, ports : Ports \X Ports, id : Windows, cur : Told, last : Told]
        BY <1>0, <3>4, <4>5, <4>6
      <4> QED BY <1>0, <1>b, <3>1, <4>5, <4>7, Constants
    <3> QED BY <3>3, <3>4
  <2>4. PICK pkt : pkt = [ts |-> now, ports |-> cli'.ports, last |-> cli'.last,
                          run |-> restarts]
    OBVIOUS
  <2>5. pkt \in PacketType
    BY <1>0, <2>3, <2>4 DEF PacketType
  <2>6. /\ pkts' = Append(pkts, pkt) /\ wire' = Append(wire, copies)
        /\ restarts' = restarts /\ Len(pkts) < MaxProbes
    BY <1>2, <2>4 DEF SendProbe
  <2>7. /\ pkts' \in Seq(PacketType) /\ Len(pkts') = Len(pkts) + 1
        /\ wire' \in Seq(0 .. MaxCopies) /\ Len(wire') = Len(pkts) + 1
    BY <1>0, <2>5, <2>6, AppendProperties
  <2>8. ClientType'
    BY <1>0, <2>3, <2>6, <2>7 DEF ClientType, PacketType
  <2> QED BY <1>0, <2>3, <2>6, <2>7, <2>8, Constants DEF Bounded
<1>3. CASE RestartClient
  <2>1. /\ restarts' = restarts + 1 /\ restarts < MaxRestarts
        /\ cli' = FreshClient(now + Warmup) /\ pkts' = pkts /\ wire' = wire
    BY <1>3 DEF RestartClient
  <2>2. /\ cli' \in [ready : Nat, ports : Ports \X Ports, id : Windows, cur : Told, last : Told]
        /\ cli'.cur.sent = RateInSpan /\ cli'.last.sent = 0
    <3>1. /\ [sent |-> RateInSpan, start |-> <<ClientRange.min, ServerRange.min>>] \in Told
          /\ [sent |-> 0, start |-> NoPorts] \in Told
      BY Constants DEF Told, NoPorts
    <3>2. now + Warmup \in Nat
      BY <1>0, Constants
    <3> QED BY <2>1, <3>1, <3>2, Constants, ZeroWindow DEF FreshClient
  <2> QED BY <1>0, <1>b, <2>1, <2>2, Constants DEF ClientType, Bounded, PacketType
<1>4. ASSUME NEW p \in ServerPorts, Goroutine(p)
      PROVE  ClientType' /\ Bounded' /\ Len(pkts) <= Len(pkts')
  <2>1. UNCHANGED client
    BY <1>4, GoroutineFrame
  <2>2. ASSUME NEW s \in DOMAIN wire, ReadPacket(p, s)
        PROVE  wire' \in Seq(0 .. MaxCopies) /\ Len(wire') = Len(wire)
    <3>1. s \in 1 .. Len(wire)
      BY <1>0, LenProperties
    <3>2. wire[s] \in 0 .. MaxCopies
      BY <1>0, <3>1, ElementOfSeq
    <3>3. wire[s] - 1 \in 0 .. MaxCopies
      BY <2>2, <3>2, Constants DEF ReadPacket
    <3>4. wire' = [wire EXCEPT ![s] = wire[s] - 1]
      BY <2>2 DEF ReadPacket
    <3> QED BY <1>0, <3>1, <3>3, <3>4, ExceptSeq
  <2>3. wire' = wire \/ \E s \in DOMAIN wire : ReadPacket(p, s)
    BY <1>4, GoroutineSteps DEF FindStat, RegisterStat, PutLookup, PutStore,
           MarkReceived, FindPrev, FixPrev
  <2> QED BY <1>0, <1>b, <2>1, <2>2, <2>3 DEF client, ClientType, Bounded, PacketType
<1> QED BY <1>0, <1>1, <1>2, <1>3, <1>4, StepsByActor, ProcessorFrame, TimeFrame DEF Client

LEMMA ObjectOf ==
  ASSUME TypeInv, NEW i \in Refs PROVE heap[i] \in BucketType
BY ElementOfSeq DEF TypeInv, TypeOK, StoreType, BucketType, Refs

LEMMA ProcessorRef ==
  ASSUME TypeInv, proc.ref # Nil
  PROVE  proc.ref \in Refs /\ heap[proc.ref] \in BucketType
BY ObjectOf DEF TypeInv, TypeOK, ProcType

LEMMA StoreTypeStep ==
  ASSUME TypeInv, [Next]_vars
  PROVE  /\ StoreType' /\ Len(heap) \in Nat /\ Len(heap) <= Len(heap')
         /\ \A i \in Refs : i \in Refs' /\ heap'[i].id = heap[i].id
<1>0. /\ heap \in Seq(BucketType) /\ Len(heap) \in Nat /\ StoreType
      /\ DOMAIN bmap \subseteq Windows /\ bmap \in [DOMAIN bmap -> Refs]
      /\ minID \in Windows \cup {NoMin} /\ lastID \in Windows
  BY LenProperties DEF TypeInv, TypeOK, StoreType, BucketType
<1>1. CASE UNCHANGED <<store, lastID>>
  BY <1>0, <1>1 DEF store, StoreType, BucketType, Refs
<1>2. CASE Processor
  <2>1. heap' = heap
    BY <1>2, ProcessorFrame
  <2>2. lastID' \in Windows
    <3>1. CASE TakeStat
      <4>1. proc.ref # Nil /\ lastID' = heap[proc.ref].id
        BY <3>1 DEF TakeStat
      <4> QED BY <4>1, ProcessorRef DEF BucketType
    <3>2. CASE ~ TakeStat
      BY <1>0, <1>2, <3>2 DEF Processor, StatOnce, StartProcessor, TakeTick, FetchOldest, CheckAge,
         NothingToReport, DiscardStale, ReadParams, SendReport, RemoveReported
    <3> QED BY <3>1, <3>2
  <2>3. /\ DOMAIN bmap' \subseteq Windows /\ bmap' \in [DOMAIN bmap' -> Refs]
        /\ minID' \in Windows \cup {NoMin}
    <3>1. CASE \E id \in Windows : Remove(id)
      BY <1>0, <3>1, RemoveEffect
    <3>2. CASE UNCHANGED store
      BY <1>0, <3>2 DEF store
    <3>3. DiscardStale \/ RemoveReported => \E id \in Windows : Remove(id)
      <4>1. DiscardStale \/ RemoveReported => proc.ref # Nil /\ Remove(heap[proc.ref].id)
        BY DEF DiscardStale, RemoveReported, TypeInv, TypeOK, ProcType
      <4> QED BY <4>1, ProcessorRef DEF BucketType
    <3>4. ~ (DiscardStale \/ RemoveReported) => UNCHANGED store
      BY <1>2 DEF Processor, StatOnce, StartProcessor, TakeTick, FetchOldest, CheckAge,
         NothingToReport, TakeStat, ReadParams, SendReport
    <3> QED BY <3>1, <3>2, <3>3, <3>4
  <2> QED BY <1>0, <2>1, <2>2, <2>3 DEF StoreType, BucketType, Refs
<1>3. ASSUME NEW p \in ServerPorts, Goroutine(p)
      PROVE  /\ StoreType' /\ Len(heap) <= Len(heap')
             /\ \A i \in Refs : i \in Refs' /\ heap'[i].id = heap[i].id
  <2>1. lastID' = lastID
    BY <1>3, GoroutineFrame
  <2>2. ASSUME PutLookup(p)
        PROVE  /\ StoreType' /\ Len(heap) <= Len(heap')
               /\ \A i \in Refs : i \in Refs' /\ heap'[i].id = heap[i].id
    <3>1. PICK id \in Windows : id = IDInHand(p)
      BY <2>2, InHand DEF PutLookup
    <3>2. GetOrCreate(id) /\ heap' = Inserted(id)
      BY <2>2, <3>1 DEF PutLookup
    <3>3. /\ heap' \in Seq(BucketType) /\ Len(heap) <= Len(heap')
          /\ \A i \in Refs : heap'[i] = heap[i]
          /\ DOMAIN bmap' = DOMAIN bmap \cup {id} /\ bmap' \in [DOMAIN bmap' -> 1 .. Len(heap')]
          /\ minID' \in Windows \cup {NoMin}
      BY <1>0, <3>2, CreateEffect
    <3>4. Len(heap') \in Nat
      BY <3>3, LenProperties
    <3> QED BY <1>0, <2>1, <3>3, <3>4 DEF StoreType, BucketType, Refs
  <2>3. ASSUME PutStore(p) \/ FixPrev(p)
        PROVE  /\ StoreType' /\ Len(heap) <= Len(heap')
               /\ \A i \in Refs : i \in Refs' /\ heap'[i].id = heap[i].id
    <3>1. /\ heap' \in Seq(BucketType) /\ Len(heap') = Len(heap)
          /\ \A i \in Refs : heap'[i].id = heap[i].id
      BY <2>3, PutEffect, FixEffect
    <3>2. bmap' = bmap /\ minID' = minID
      BY <2>3 DEF PutStore, FixPrev
    <3> QED BY <1>0, <2>1, <3>1, <3>2 DEF StoreType, BucketType, Refs
  <2>4. ASSUME MarkReceived(p)
        PROVE  /\ StoreType' /\ Len(heap) <= Len(heap')
               /\ \A i \in Refs : i \in Refs' /\ heap'[i].id = heap[i].id
    <3>1. PICK base : base = Inserted(IDInHand(p))
      OBVIOUS
    <3>2. PICK id \in Windows : id = IDInHand(p)
      BY <2>4, <3>1, MarkEffect
    <3>3. /\ GetOrCreate(id) /\ base = Inserted(id)
          /\ heap' \in Seq(BucketType) /\ Len(heap') = Len(base)
          /\ \A i \in 1 .. Len(base) : heap'[i].id = base[i].id
      BY <2>4, <3>1, <3>2, MarkEffect
    <3>4. /\ Len(heap) <= Len(base)
          /\ \A i \in Refs : base[i] = heap[i]
          /\ DOMAIN bmap' = DOMAIN bmap \cup {id} /\ bmap' \in [DOMAIN bmap' -> 1 .. Len(base)]
          /\ minID' \in Windows \cup {NoMin}
      BY <1>0, <3>3, CreateEffect
    <3>5. Len(heap') \in Nat
      BY <3>3, LenProperties
    <3>6. \A i \in Refs : i \in 1 .. Len(base)
      BY <1>0, <3>3, <3>4, <3>5 DEF Refs
    <3>7. \A i \in Refs : i \in Refs' /\ heap'[i].id = heap[i].id
      BY <3>3, <3>4, <3>6 DEF Refs
    <3>8. StoreType'
      BY <1>0, <2>1, <3>2, <3>3, <3>4 DEF StoreType, BucketType, Refs
    <3> QED BY <3>3, <3>4, <3>7, <3>8
  <2>5. PutLookup(p) \/ PutStore(p) \/ FixPrev(p) \/ MarkReceived(p) \/ UNCHANGED store
    BY <1>3, GoroutineSteps DEF ReadPacket, FindStat, RegisterStat, FindPrev
  <2>6. UNCHANGED <<store, lastID>> => /\ StoreType' /\ Len(heap) <= Len(heap')
               /\ \A i \in Refs : i \in Refs' /\ heap'[i].id = heap[i].id
    BY <1>1, <1>0 DEF store, StoreType, BucketType, Refs
  <2> QED BY <2>1, <2>2, <2>3, <2>4, <2>5, <2>6
<1> QED BY <1>0, <1>1, <1>2, <1>3, StepsByActor, ClientFrame, TimeFrame

ServerType ==
  [pc : {"idle", "stat", "register", "lookup", "store", "receive", "prev", "fix"},
   seq : 0 .. Len(pkts), ref : Refs \cup {Nil}]

Pointed(x) ==
  /\ x.pc # "idle" => x.seq # 0
  /\ x.pc \in {"store", "fix"} => x.ref # Nil

(***************************************************************************)
(* A goroutine's own step: the same goroutine elsewhere, or idle.          *)
(***************************************************************************)
LEMMA GoroutineStepType ==
  ASSUME TypeInv, NEW p \in ServerPorts, Goroutine(p), StoreType', Refs \subseteq Refs'
  PROVE  /\ srv' = [srv EXCEPT ![p] = srv'[p]]
         /\ srv'[p] \in [pc : {"idle", "stat", "register", "lookup", "store", "receive",
                               "prev", "fix"},
                         seq : 0 .. Len(pkts), ref : Refs' \cup {Nil}]
         /\ Pointed(srv'[p])
         /\ registered' \in Nat
         /\ got' \subseteq DOMAIN pkts
<1>0. /\ srv \in [ServerPorts -> ServerType] /\ Pointed(srv[p]) /\ registered \in Nat
      /\ got \subseteq DOMAIN pkts /\ Nil \notin Refs /\ Len(pkts) \in Nat
      /\ DOMAIN wire = DOMAIN pkts /\ DOMAIN pkts = 1 .. Len(pkts)
  BY LenProperties DEF TypeInv, TypeOK, GoroutineType, ServerType, Pointed, HistoryType, Refs, Nil,
     ClientType
<1>1. srv[p] \in ServerType /\ IdleServer \in ServerType /\ Pointed(IdleServer)
  BY <1>0 DEF ServerType, IdleServer, Pointed
<1>2. ASSUME NEW s \in DOMAIN wire, ReadPacket(p, s)
      PROVE  srv'[p] \in ServerType /\ Pointed(srv'[p])
  BY <1>0, <1>2 DEF ReadPacket, ServerType, Pointed
<1>3. FindStat(p) \/ RegisterStat(p) => srv'[p] \in ServerType /\ Pointed(srv'[p])
  BY <1>0, <1>1 DEF FindStat, RegisterStat, ServerType, Pointed
<1>4. ASSUME PutLookup(p)
      PROVE  /\ Pointed(srv'[p]) /\ srv'[p].ref \in Refs' /\ srv'[p].seq = srv[p].seq
             /\ srv'[p] = [pc |-> "store", seq |-> srv[p].seq, ref |-> srv'[p].ref]
  <2>1. IDInHand(p) \in Windows /\ StoreType /\ GetOrCreate(IDInHand(p))
    BY <1>4, InHand DEF PutLookup, TypeInv, TypeOK
  <2>2. IDInHand(p) \in DOMAIN bmap'
    BY <2>1, CreateEffect
  <2>3. bmap'[IDInHand(p)] \in Refs'
    BY <2>2 DEF StoreType
  <2>4. srv'[p] = [srv[p] EXCEPT !.pc = "store", !.ref = bmap'[IDInHand(p)]]
    BY <1>0, <1>4 DEF PutLookup
  <2>5. srv'[p] = [pc |-> "store", seq |-> srv[p].seq, ref |-> bmap'[IDInHand(p)]]
    BY <1>1, <2>4 DEF ServerType
  <2>6. bmap'[IDInHand(p)] # Nil
    BY <2>3 DEF Refs, Nil
  <2> QED BY <1>0, <1>4, <2>3, <2>5, <2>6 DEF Pointed, PutLookup
<1>5. PutStore(p) => srv'[p] \in ServerType /\ Pointed(srv'[p])
  BY <1>0, <1>1 DEF PutStore, ServerType, Pointed
<1>6. MarkReceived(p) => srv'[p] \in ServerType /\ Pointed(srv'[p])
  <2>1. MarkReceived(p) => srv[p].pc = "receive"
                           /\ (srv'[p] = IdleServer \/ srv'[p] = [srv[p] EXCEPT !.pc = "prev"])
    BY <1>0 DEF MarkReceived
  <2>2. srv[p].pc = "receive" => [srv[p] EXCEPT !.pc = "prev"] \in ServerType
                                 /\ Pointed([srv[p] EXCEPT !.pc = "prev"])
    BY <1>0, <1>1 DEF ServerType, Pointed
  <2> QED BY <1>1, <2>1, <2>2
<1>7. FindPrev(p) => srv'[p] \in ServerType /\ Pointed(srv'[p])
  <2>1. PICK r : r = Lookup(bmap, IDInHand(p) - 1)
    OBVIOUS
  <2>2. r \in Refs \cup {Nil}
    BY <2>1 DEF Lookup, TypeInv, TypeOK, StoreType
  <2>3. FindPrev(p) => /\ srv[p].pc = "prev"
                       /\ \/ srv'[p] = IdleServer
                          \/ r # Nil /\ srv'[p] = [srv[p] EXCEPT !.pc = "fix", !.ref = r]
    BY <1>0, <2>1 DEF FindPrev
  <2>4. srv[p].pc = "prev" /\ r # Nil =>
          /\ [srv[p] EXCEPT !.pc = "fix", !.ref = r] \in ServerType
          /\ Pointed([srv[p] EXCEPT !.pc = "fix", !.ref = r])
    BY <1>0, <1>1, <2>2 DEF ServerType, Pointed
  <2> QED BY <1>1, <2>3, <2>4
<1>8. FixPrev(p) => srv'[p] \in ServerType /\ Pointed(srv'[p])
  BY <1>0, <1>1 DEF FixPrev
<1>9. srv' = [srv EXCEPT ![p] = srv'[p]]
  BY <1>0, GoroutineSteps DEF ReadPacket, FindStat, RegisterStat, PutLookup, PutStore, MarkReceived,
     FindPrev, FixPrev
<1>10. registered' \in Nat
  <2>1. RegisterStat(p) => registered' \in Nat
    BY <1>0 DEF RegisterStat
  <2>2. ~ RegisterStat(p) => registered' = registered
    BY GoroutineSteps DEF ReadPacket, FindStat, PutLookup, PutStore, MarkReceived, FindPrev, FixPrev
  <2> QED BY <1>0, <2>1, <2>2
<1>11. got' \subseteq DOMAIN pkts
  <2>1. MarkReceived(p) => srv[p].seq \in DOMAIN pkts /\ got' = got \cup {srv[p].seq}
    BY InHand DEF MarkReceived
  <2>2. ~ MarkReceived(p) => got' = got
    BY GoroutineSteps DEF ReadPacket, FindStat, RegisterStat, PutLookup, PutStore, FindPrev, FixPrev
  <2> QED BY <1>0, <2>1, <2>2
<1>12. /\ srv'[p] \in [pc : {"idle", "stat", "register", "lookup", "store", "receive", "prev", "fix"},
                       seq : 0 .. Len(pkts), ref : Refs' \cup {Nil}]
       /\ Pointed(srv'[p])
  <2>1. srv'[p] \in ServerType => srv'[p] \in
          [pc : {"idle", "stat", "register", "lookup", "store", "receive", "prev", "fix"},
           seq : 0 .. Len(pkts), ref : Refs' \cup {Nil}]
    BY DEF ServerType
  <2>2. PutLookup(p) => srv'[p] \in
          [pc : {"idle", "stat", "register", "lookup", "store", "receive", "prev", "fix"},
           seq : 0 .. Len(pkts), ref : Refs' \cup {Nil}]
    BY <1>1, <1>4 DEF ServerType
  <2> QED BY <1>2, <1>3, <1>4, <1>5, <1>6, <1>7, <1>8, <2>1, <2>2, GoroutineSteps
<1> QED BY <1>9, <1>10, <1>11, <1>12

LEMMA GoroutineTypeStep ==
  ASSUME TypeInv, [Next]_vars
  PROVE  GoroutineType' /\ got' \subseteq DOMAIN pkts'
<1>0. /\ srv \in [ServerPorts -> ServerType] /\ registered \in Nat
      /\ \A p \in ServerPorts : Pointed(srv[p])
      /\ got \subseteq DOMAIN pkts
  BY DEF TypeInv, TypeOK, GoroutineType, ServerType, Pointed, HistoryType
<1>1. /\ ClientType' /\ StoreType' /\ Len(pkts) \in Nat /\ Len(pkts) <= Len(pkts')
      /\ Refs \subseteq Refs'
  BY ClientTypeStep, StoreTypeStep
<1>2. Len(pkts') \in Nat /\ DOMAIN pkts = 1 .. Len(pkts) /\ DOMAIN pkts' = 1 .. Len(pkts')
  BY <1>1, LenProperties DEF ClientType, TypeInv, TypeOK
<1>3. ServerType \subseteq ServerType'
  BY <1>1, <1>2 DEF ServerType
<1>4. CASE UNCHANGED <<srv, registered, got>>
  BY <1>0, <1>1, <1>2, <1>3, <1>4 DEF GoroutineType, ServerType, Pointed
<1>5. ASSUME NEW p \in ServerPorts, Goroutine(p)
      PROVE  GoroutineType' /\ got' \subseteq DOMAIN pkts'
  <2>1. /\ srv' = [srv EXCEPT ![p] = srv'[p]]
        /\ srv'[p] \in [pc : {"idle", "stat", "register", "lookup", "store", "receive",
                               "prev", "fix"},
                         seq : 0 .. Len(pkts), ref : Refs' \cup {Nil}]
        /\ Pointed(srv'[p]) /\ registered' \in Nat /\ got' \subseteq DOMAIN pkts
    BY <1>1, <1>5, GoroutineStepType
  <2>2. pkts' = pkts
    BY <1>5, GoroutineFrame DEF client
  <2>3. srv'[p] \in ServerType'
    BY <2>1, <2>2 DEF ServerType
  <2>4. srv' \in [ServerPorts -> ServerType']
    BY <1>0, <1>3, <2>1, <2>3
  <2>5. \A q \in ServerPorts : Pointed(srv'[q])
    BY <1>0, <2>1
  <2> QED BY <2>1, <2>2, <2>4, <2>5 DEF GoroutineType, ServerType, Pointed
<1> QED BY <1>4, <1>5, StepsByActor, ClientFrame, ProcessorFrame, TimeFrame

ResultType == [id : Windows, requests : RequestsType, told : Told]

LEMMA ProcTypeStep ==
  ASSUME TypeInv, [Next]_vars
  PROVE  ProcType'
<1> DEFINE PCs == {"sleep", "wait", "oldest", "check", "loop", "reload", "params", "send", "remove"}
           PT(r) == [pc : PCs, ref : r \cup {Nil}, res : ResultType, told : Told]
<1>0. proc \in PT(Refs) /\ (proc.pc \in {"params", "send", "remove"} => proc.ref # Nil)
  BY DEF TypeInv, TypeOK, ProcType, ResultType
<1>1. Refs \subseteq Refs'
  BY StoreTypeStep
<1>2. IdleProc \in PT(Refs) /\ IdleProc.pc = "wait"
  <2>1. NotTold \in Told
    BY Constants DEF NotTold, Told, NoPorts
  <2>2. NoResult \in ResultType
    BY <2>1, ZeroWindow DEF NoResult, ResultType, RequestsType
  <2> QED BY <2>1, <2>2 DEF IdleProc
<1>3. SUFFICES proc' \in PT(Refs) /\ (proc'.pc \in {"params", "send", "remove"} => proc'.ref # Nil)
  BY <1>1 DEF ProcType, ResultType
<1>4. CASE proc' = proc
  BY <1>0, <1>4
<1>5. CASE Processor
  <2>1. CASE StartProcessor \/ TakeTick
    <3>1. \E c \in {"oldest", "wait"} : proc' = [IdleProc EXCEPT !.pc = c]
      BY <2>1 DEF StartProcessor, TakeTick, RunOnce
    <3> QED BY <1>2, <3>1
  <2>2. CASE FetchOldest
    <3>1. PICK r : r = Oldest(bmap, minID)
      OBVIOUS
    <3>2. r \in Refs \cup {Nil}
      BY <3>1 DEF Oldest, Lookup, TypeInv, TypeOK, StoreType
    <3>3. \E c \in {"check", "loop"} : proc' = [proc EXCEPT !.pc = c, !.ref = r]
      BY <1>0, <2>2, <3>1 DEF FetchOldest
    <3> QED BY <1>0, <3>2, <3>3
  <2>3. CASE CheckAge \/ NothingToReport \/ DiscardStale \/ RemoveReported
    <3>1. proc' = IdleProc \/ \E c \in {"loop", "reload"} : proc' = [proc EXCEPT !.pc = c]
      BY <2>3 DEF CheckAge, NothingToReport, DiscardStale, RemoveReported
    <3> QED BY <1>0, <1>2, <3>1
  <2>4. CASE TakeStat
    <3>1. PICK res : res = [id |-> heap[proc.ref].id, requests |-> heap[proc.ref].requests,
                            told |-> heap[proc.ref].told]
      OBVIOUS
    <3>2. proc.ref # Nil /\ proc' = [proc EXCEPT !.pc = "params", !.res = res]
      BY <2>4, <3>1 DEF TakeStat
    <3>3. res \in ResultType
      BY <3>1, <3>2, ProcessorRef DEF BucketType, ResultType
    <3> QED BY <1>0, <3>2, <3>3
  <2>5. CASE ReadParams
    <3>1. PICK told : told = heap[proc.ref].told
      OBVIOUS
    <3>2. proc.ref # Nil /\ proc' = [proc EXCEPT !.pc = "send", !.told = told]
      BY <1>0, <2>5, <3>1 DEF ReadParams
    <3>3. told \in Told
      BY <3>1, <3>2, ProcessorRef DEF BucketType
    <3> QED BY <1>0, <3>2, <3>3
  <2>6. CASE SendReport
    <3>1. proc.ref # Nil /\ proc' = [proc EXCEPT !.pc = "remove"]
      BY <1>0, <2>6 DEF SendReport
    <3> QED BY <1>0, <3>1
  <2> QED BY <1>5, <2>1, <2>2, <2>3, <2>4, <2>5, <2>6 DEF Processor, StatOnce
<1> QED BY <1>4, <1>5, StepsByActor, ClientFrame, GoroutineFrame, TimeFrame

LEMMA ClockTypeStep ==
  ASSUME TypeInv, [Next]_vars
  PROVE  ClockType'
<1>0. now \in Start .. MaxTime /\ ticker \in [next : Nat, ticks : 0 .. 1] /\ now \in Nat
  BY Constants DEF TypeInv, TypeOK, ClockType
<1>1. CASE UNCHANGED <<now, ticker>>
  BY <1>0, <1>1 DEF ClockType
<1>2. CASE Tick \/ LateTick
  BY <1>0, <1>2, Constants DEF Tick, LateTick, ClockType
<1>3. CASE Processor
  <2>1. now' = now
    BY <1>3, ProcessorFrame
  <2>2. StartProcessor \/ TakeTick => ticker' \in [next : Nat, ticks : 0 .. 1]
    BY <1>0, Constants DEF StartProcessor, TakeTick
  <2>3. StatOnce => ticker' = ticker
    BY DEF StatOnce, FetchOldest, CheckAge, NothingToReport, DiscardStale, TakeStat, ReadParams,
       SendReport, RemoveReported
  <2> QED BY <1>0, <1>3, <2>1, <2>2, <2>3 DEF Processor, ClockType
<1> QED BY <1>1, <1>2, <1>3, StepsByActor, ClientFrame, GoroutineFrame DEF vars

(***************************************************************************)
(* The counts of a report are natural numbers, the loss too.               *)
(***************************************************************************)
LEMMA RequestsFinite ==
  ASSUME NEW set
  PROVE  /\ IsFiniteSet(Requests(set)) /\ Requests(set) \subseteq Seqs
         /\ Cardinality(Requests(set)) \in Nat
<1>1. IsFiniteSet(Seqs)
  BY FS_Interval, Constants DEF Seqs
<1>2. Requests(set) \subseteq Seqs
  BY DEF Requests
<1>3. IsFiniteSet(Requests(set))
  BY <1>1, <1>2, FS_Subset
<1> QED BY <1>2, <1>3, FS_CardinalityType

LEMMA CountsType ==
  ASSUME TypeInv
  PROVE  SentCount \in Nat /\ ReceivedCount \in Nat /\ LossCount \in Nat
<1>1. proc.res.told.sent \in Nat
  BY Constants DEF TypeInv, TypeOK, ProcType, Told
<1>2. SentCount \in Nat
  BY <1>1, RequestsFinite DEF SentCount
<1>3. ReceivedCount \in Nat
  BY RequestsFinite DEF ReceivedCount
<1> QED BY <1>2, <1>3 DEF LossCount

ReportType ==
  [id : Windows, fixed : BOOLEAN, sent : Nat, received : Nat, loss : Nat,
   known : SUBSET Seqs, ports : SUBSET (Ports \X Ports)]

LEMMA HistoryTypeStep ==
  ASSUME TypeInv, [Next]_vars
  PROVE  HistoryType'
<1>0. reports \in Seq(ReportType)
  BY DEF TypeInv, TypeOK, HistoryType, ReportType
<1>1. got' \subseteq DOMAIN pkts'
  BY GoroutineTypeStep
<1>2. CASE SendReport
  <2>1. PICK ports : ports = IF proc.told.sent = 0 \/ proc.told.start = NoPorts THEN {}
                             ELSE DOMAIN LossPorts(proc.told, heap[proc.ref].requests)
    OBVIOUS
  <2>2. ports \subseteq Ports \X Ports
    BY <2>1 DEF LossPorts
  <2>3. PICK r : r = [id |-> proc.res.id, fixed |-> proc.res.told.sent > 0,
          sent |-> SentCount, received |-> ReceivedCount, loss |-> LossCount,
          known |-> Requests({"unset", "ack", "bare"}), ports |-> ports]
    OBVIOUS
  <2>4. proc.res.id \in Windows /\ (proc.res.told.sent > 0) \in BOOLEAN
    BY DEF TypeInv, TypeOK, ProcType
  <2>5. Requests({"unset", "ack", "bare"}) \subseteq Seqs
    BY RequestsFinite
  <2>6. r \in ReportType
    BY <2>2, <2>3, <2>4, <2>5, CountsType DEF ReportType
  <2>7. reports' = Append(reports, r)
    BY <1>2, <2>1, <2>3 DEF SendReport
  <2> QED BY <1>0, <1>1, <2>6, <2>7, AppendProperties DEF HistoryType, ReportType
<1>3. CASE ~ SendReport
  <2>1. Processor => reports' = reports
    BY <1>3 DEF Processor, StatOnce, StartProcessor, TakeTick, FetchOldest, CheckAge,
       NothingToReport, DiscardStale, TakeStat, ReadParams, RemoveReported
  <2>2. reports' = reports
    BY <2>1, StepsByActor, ClientFrame, GoroutineFrame, TimeFrame
  <2> QED BY <1>0, <1>1, <2>2 DEF HistoryType, ReportType
<1> QED BY <1>2, <1>3

LEMMA TypeInvariant == Spec => []TypeInv
<1>1. TypeInv /\ [Next]_vars => TypeInv'
  BY ClientTypeStep, StoreTypeStep, GoroutineTypeStep, ProcTypeStep, ClockTypeStep, HistoryTypeStep
     DEF TypeInv, TypeOK
<1> QED BY <1>1, TypeInit, PTL DEF Spec

(***************************************************************************)
(* The types: the goroutines of the server and the Processor use a *bucket *)
(* only after they have found or made it, and never an object that is not  *)
(* there.                                                                  *)
(***************************************************************************)
THEOREM TypesHold == Spec => []TypeOK
<1>1. TypeInv => TypeOK
  BY DEF TypeInv
<1> QED BY <1>1, TypeInvariant, PTL

-----------------------------------------------------------------------------
(* the counts the client tells                                             *)

(***************************************************************************)
(* The probes this process of the client made in a window.                 *)
(***************************************************************************)
Mine(k) == {s \in Made(k) : pkts[s].run = restarts}

(***************************************************************************)
(* The client counts its current window, and its last count travels in     *)
(* every probe of that window; a process that has sent nothing has no      *)
(* probes.                                                                 *)
(***************************************************************************)
ClientCounts ==
  /\ cli.id = 0 => \A s \in DOMAIN pkts : pkts[s].run # restarts
  /\ cli.id # 0 =>
       /\ cli.id <= IDOf(now)
       /\ cli.cur.sent = Cardinality(Mine(cli.id))
       /\ \A s \in DOMAIN pkts : pkts[s].run = restarts => IDOf(pkts[s].ts) <= cli.id
       /\ \E s \in Mine(cli.id) : pkts[s].last = cli.last

ProbesArePast ==
  \A s \in DOMAIN pkts : pkts[s].ts <= now /\ pkts[s].run <= restarts

(***************************************************************************)
(* What a probe tells of the window before its own is true, if one process *)
(* made both.                                                              *)
(***************************************************************************)
ProbesTellTrue ==
  \A s \in DOMAIN pkts :
    LET k == IDOf(pkts[s].ts) - 1
    IN  Made(k) # {} /\ OneProcess(k) => pkts[s].last.sent = Cardinality(Made(k))

ClientInv == TypeInv /\ ClientCounts /\ ProbesArePast /\ ProbesTellTrue

LEMMA MadeFacts ==
  ASSUME TypeInv, NEW k
  PROVE  /\ IsFiniteSet(Made(k)) /\ Cardinality(Made(k)) \in Nat
         /\ Made(k) \subseteq Seqs /\ Mine(k) \subseteq Made(k)
         /\ IsFiniteSet(Mine(k)) /\ Cardinality(Mine(k)) \in Nat
<1>1. DOMAIN pkts = 1 .. Len(pkts) /\ Len(pkts) \in Nat /\ Len(pkts) <= MaxProbes
  BY LenProperties DEF TypeInv, TypeOK, ClientType, Bounded
<1>2. DOMAIN pkts \subseteq Seqs
  BY <1>1, Constants DEF Seqs
<1>3. IsFiniteSet(Seqs)
  BY FS_Interval, Constants DEF Seqs
<1>4. Made(k) \subseteq Seqs /\ Mine(k) \subseteq Made(k) /\ Mine(k) \subseteq Seqs
  BY <1>2 DEF Made, Mine
<1>5. IsFiniteSet(Made(k)) /\ IsFiniteSet(Mine(k))
  BY <1>3, <1>4, FS_Subset
<1> QED BY <1>4, <1>5, FS_CardinalityType

LEMMA PacketFacts ==
  ASSUME TypeInv
  PROVE  \A s \in DOMAIN pkts : /\ pkts[s] \in PacketType /\ pkts[s].ts \in Nat
                                /\ IDOf(pkts[s].ts) \in Windows /\ IDOf(pkts[s].ts) \in Nat
<1>1. pkts \in Seq(PacketType)
  BY DEF TypeInv, TypeOK, ClientType, PacketType
<1>2. ASSUME NEW s \in DOMAIN pkts PROVE pkts[s] \in PacketType /\ pkts[s].ts \in Nat
      /\ IDOf(pkts[s].ts) \in Windows /\ IDOf(pkts[s].ts) \in Nat
  <2>1. pkts[s] \in PacketType
    BY <1>1, ElementOfSeq, LenProperties
  <2>2. pkts[s].ts \in 0 .. MaxTime /\ pkts[s].ts \in Nat
    BY <2>1, Constants DEF PacketType
  <2> QED BY <2>1, <2>2, IDOfWindows, IDOfNat
<1> QED BY <1>2

(***************************************************************************)
(* What a send does: a packet more, at the end.                            *)
(***************************************************************************)
LEMMA SendEffect ==
  ASSUME TypeInv, TypeInv', NEW copies, SendProbe(copies), NEW n, n = Len(pkts) + 1
  PROVE  /\ n \notin DOMAIN pkts /\ DOMAIN pkts' = DOMAIN pkts \cup {n}
         /\ \A s \in DOMAIN pkts : pkts'[s] = pkts[s]
         /\ pkts'[n].ts = now /\ pkts'[n].run = restarts /\ pkts'[n].last = cli'.last
         /\ restarts' = restarts /\ now' = now
         /\ cli'.id = IDOf(now)
         /\ IDOf(now) # cli.id => cli'.last = cli.cur /\ cli'.cur.sent = 1
         /\ IDOf(now) = cli.id => cli'.last = cli.last /\ cli'.cur.sent = cli.cur.sent + 1
<1>0. /\ pkts \in Seq(PacketType) /\ Len(pkts) \in Nat /\ DOMAIN pkts = 1 .. Len(pkts)
      /\ pkts' \in Seq(PacketType) /\ DOMAIN pkts' = 1 .. Len(pkts')
      /\ cli \in [ready : Nat, ports : Ports \X Ports, id : Windows, cur : Told, last : Told]
  BY LenProperties DEF TypeInv, TypeOK, ClientType, PacketType
<1>1. PICK pkt : pkt = [ts |-> now, ports |-> cli'.ports, last |-> cli'.last, run |-> restarts]
  OBVIOUS
<1>2. pkts' = Append(pkts, pkt) /\ restarts' = restarts /\ now' = now
  BY <1>1 DEF SendProbe
<1>3. /\ Len(pkts') = Len(pkts) + 1 /\ \A s \in 1 .. Len(pkts) : pkts'[s] = pkts[s]
      /\ pkts'[n] = pkt
  BY <1>0, <1>2
<1>4. n \notin DOMAIN pkts /\ DOMAIN pkts' = DOMAIN pkts \cup {n}
  BY <1>0, <1>3
<1>5. PICK next : next = GetNextPorts(cli.ports[1], cli.ports[2], ClientRange, ServerRange)
  OBVIOUS
<1>6. CASE IDOf(now) # cli.id
  <2>1. cli' = [cli EXCEPT !.ports = next, !.id = IDOf(now), !.last = cli.cur,
                           !.cur = [sent |-> 1, start |-> next]]
    BY <1>5, <1>6 DEF SendProbe, Accounted
  <2>2. cli'.id = IDOf(now) /\ cli'.last = cli.cur /\ cli'.cur = [sent |-> 1, start |-> next]
    BY <1>0, <2>1
  <2> QED BY <1>0, <1>1, <1>2, <1>3, <1>4, <1>6, <2>2
<1>7. CASE IDOf(now) = cli.id
  <2>1. PICK c : c = [cli.cur EXCEPT !.sent = cli.cur.sent + 1]
    OBVIOUS
  <2>2. cli' = [cli EXCEPT !.ports = next, !.cur = c]
    BY <1>5, <1>7, <2>1 DEF SendProbe, Accounted
  <2>3. cli'.id = IDOf(now) /\ cli'.last = cli.last /\ cli'.cur = c
    BY <1>0, <1>7, <2>2
  <2>4. cli.cur \in Told
    BY <1>0
  <2>5. c.sent = cli.cur.sent + 1
    BY <2>1, <2>4 DEF Told
  <2> QED BY <1>0, <1>1, <1>2, <1>3, <1>4, <1>7, <2>3, <2>5
<1> QED BY <1>6, <1>7

(***************************************************************************)
(* A new probe lies in the youngest window, and leaves the others alone.   *)
(***************************************************************************)
LEMMA SendMade ==
  ASSUME ClientInv, TypeInv', NEW copies, SendProbe(copies), NEW n, n = Len(pkts) + 1,
         NEW w, w = IDOf(now)
  PROVE  /\ n \notin Made(w) /\ n \notin Mine(w)
         /\ Made(w)' = Made(w) \cup {n}
         /\ Mine(w)' = Mine(w) \cup {n}
         /\ \A k : k # w => Made(k)' = Made(k) /\ Mine(k)' = Mine(k)
<1>1. /\ n \notin DOMAIN pkts /\ DOMAIN pkts' = DOMAIN pkts \cup {n}
      /\ \A s \in DOMAIN pkts : pkts'[s] = pkts[s]
      /\ pkts'[n].ts = now /\ pkts'[n].run = restarts
      /\ restarts' = restarts /\ now' = now
  BY SendEffect DEF ClientInv
<1>2. \A k : Made(k)' = {s \in DOMAIN pkts \cup {n} : IDOf(pkts'[s].ts) = k}
  BY <1>1 DEF Made
<1>3. \A k : Made(k)' = Made(k) \cup {s \in {n} : w = k}
  BY <1>1, <1>2 DEF Made
<1>4. \A k : Mine(k)' = {s \in Made(k)' : pkts'[s].run = restarts}
  BY <1>1 DEF Mine
<1>5. \A k : Mine(k)' = Mine(k) \cup {s \in {n} : w = k}
  BY <1>1, <1>3, <1>4 DEF Mine, Made
<1>6. n \notin Made(w) /\ n \notin Mine(w)
  BY <1>1 DEF Mine, Made
<1> QED BY <1>3, <1>5, <1>6

LEMMA SendCounts ==
  ASSUME ClientInv, TypeInv', NEW copies, SendProbe(copies)
  PROVE  ClientCounts' /\ ProbesArePast'
<1> DEFINE n == Len(pkts) + 1
<1>0. TypeInv /\ ClientCounts /\ ProbesArePast /\ ProbesTellTrue
  BY DEF ClientInv
<1>1. PICK w \in Nat : w = IDOf(now) /\ w > 0
  BY <1>0, IDOfNat, PositiveIDs, Constants DEF TypeInv, TypeOK, ClockType
<1>2. /\ n \notin DOMAIN pkts /\ DOMAIN pkts' = DOMAIN pkts \cup {n}
      /\ \A s \in DOMAIN pkts : pkts'[s] = pkts[s]
      /\ pkts'[n].ts = now /\ pkts'[n].run = restarts /\ pkts'[n].last = cli'.last
      /\ restarts' = restarts /\ now' = now /\ cli'.id = w
      /\ w # cli.id => cli'.last = cli.cur /\ cli'.cur.sent = 1
      /\ w = cli.id => cli'.last = cli.last /\ cli'.cur.sent = cli.cur.sent + 1
  BY <1>0, <1>1, SendEffect
<1>3. n \notin Mine(w) /\ Mine(w)' = Mine(w) \cup {n}
  BY <1>1, SendMade
<1>4. now \in Nat /\ restarts \in Nat /\ cli.id \in Nat
  BY <1>0, Constants DEF TypeInv, TypeOK, ClockType, ClientType, Windows
<1>5. ProbesArePast'
  BY <1>0, <1>2, <1>4 DEF ProbesArePast
<1>6. \A s \in DOMAIN pkts' : IDOf(pkts'[s].ts) <= w
  <2>1. ASSUME NEW s \in DOMAIN pkts' PROVE IDOf(pkts'[s].ts) <= w
    <3>1. pkts'[s].ts <= now
      BY <1>2, <1>5, <2>1 DEF ProbesArePast
    <3>2. pkts'[s].ts \in Nat
      BY <1>0, <1>2, <1>4, PacketFacts
    <3> QED BY <1>1, <1>4, <3>1, <3>2, IDOfMonotonic
  <2> QED BY <2>1
<1>7. cli'.cur.sent = Cardinality(Mine(w)')
  <2>1. CASE w = cli.id
    <3>1. cli.cur.sent = Cardinality(Mine(w))
      BY <1>0, <1>1, <2>1 DEF ClientCounts
    <3>2. Cardinality(Mine(w) \cup {n}) = Cardinality(Mine(w)) + 1
      BY <1>0, <1>3, MadeFacts, FS_AddElement
    <3> QED BY <1>2, <1>3, <2>1, <3>1, <3>2
  <2>2. CASE w # cli.id
    <3>1. Mine(w) = {}
      <4>1. SUFFICES ASSUME NEW s \in Mine(w) PROVE FALSE
        OBVIOUS
      <4>2. s \in DOMAIN pkts /\ pkts[s].run = restarts /\ IDOf(pkts[s].ts) = w
        BY <4>1 DEF Mine, Made
      <4>3. cli.id # 0 /\ cli.id <= w /\ w <= cli.id
        BY <1>0, <1>1, <4>2 DEF ClientCounts
      <4> QED BY <1>4, <2>2, <4>3
    <3>2. Mine(w)' = {n}
      BY <1>3, <3>1
    <3>3. Cardinality({n}) = 1
      BY FS_Singleton
    <3> QED BY <1>2, <2>2, <3>2, <3>3
  <2> QED BY <2>1, <2>2
<1>8. n \in Mine(w)' /\ pkts'[n].last = cli'.last
  BY <1>2, <1>3
<1>9. ClientCounts'
  <2>1. cli'.id # 0 /\ cli'.id <= IDOf(now')
    BY <1>1, <1>2
  <2> QED BY <1>2, <1>6, <1>7, <1>8, <2>1 DEF ClientCounts
<1> QED BY <1>5, <1>9

LEMMA SendTells ==
  ASSUME ClientInv, TypeInv', NEW copies, SendProbe(copies)
  PROVE  ProbesTellTrue'
<1> DEFINE n == Len(pkts) + 1
<1>0. TypeInv /\ ClientCounts /\ ProbesArePast /\ ProbesTellTrue
  BY DEF ClientInv
<1>1. PICK w \in Nat : w = IDOf(now) /\ w > 0
  BY <1>0, IDOfNat, PositiveIDs, Constants DEF TypeInv, TypeOK, ClockType
<1>2. /\ n \notin DOMAIN pkts /\ DOMAIN pkts' = DOMAIN pkts \cup {n}
      /\ \A s \in DOMAIN pkts : pkts'[s] = pkts[s]
      /\ pkts'[n].ts = now /\ pkts'[n].run = restarts /\ pkts'[n].last = cli'.last
      /\ w # cli.id => cli'.last = cli.cur
      /\ w = cli.id => cli'.last = cli.last
  BY <1>0, <1>1, SendEffect
<1>3. /\ Made(w)' = Made(w) \cup {n}
      /\ \A k : k # w => Made(k)' = Made(k)
  BY <1>1, SendMade
<1>4. now \in Nat /\ cli.id \in Nat
  BY <1>0, Constants DEF TypeInv, TypeOK, ClockType, ClientType, Windows
<1>m. \A k : Made(k) \subseteq DOMAIN pkts /\ Made(k) \subseteq Made(k)'
  BY <1>3 DEF Made
<1>5. \A k : OneProcess(k)' => OneProcess(k)
  <2>1. SUFFICES ASSUME NEW k, OneProcess(k)', NEW s \in Made(k) \cup Made(k + 1),
                        NEW t \in Made(k) \cup Made(k + 1)
                 PROVE  pkts[s].run = pkts[t].run
    BY DEF OneProcess
  <2>2. s \in Made(k)' \cup Made(k + 1)' /\ t \in Made(k)' \cup Made(k + 1)'
    BY <1>m, <2>1
  <2>3. pkts'[s].run = pkts'[t].run
    BY <2>1, <2>2 DEF OneProcess
  <2> QED BY <1>2, <1>m, <2>1, <2>3
<1>6. ASSUME NEW s \in DOMAIN pkts, NEW k, k = IDOf(pkts[s].ts) - 1, Made(k)' # {}, OneProcess(k)'
      PROVE  pkts'[s].last.sent = Cardinality(Made(k)')
  <2>1. pkts[s].ts <= now /\ pkts[s].ts \in Nat /\ IDOf(pkts[s].ts) \in Nat
    BY <1>0, PacketFacts DEF ProbesArePast
  <2>2. k < w
    BY <1>1, <1>4, <1>6, <2>1, IDOfMonotonic
  <2>3. Made(k)' = Made(k)
    BY <1>3, <2>2
  <2>4. pkts[s].last.sent = Cardinality(Made(k))
    BY <1>0, <1>5, <1>6, <2>3 DEF ProbesTellTrue
  <2> QED BY <1>2, <2>3, <2>4
<1>7. ASSUME NEW k, k = w - 1, Made(k)' # {}, OneProcess(k)'
      PROVE  pkts'[n].last.sent = Cardinality(Made(k)')
  <2>0. k # w /\ k + 1 = w
    BY <1>7
  <2>1. Made(k)' = Made(k) /\ OneProcess(k)
    BY <1>3, <1>5, <1>7, <2>0
  <2>2. \A s \in Made(k) : pkts[s].run = restarts
    <3>1. ASSUME NEW s \in Made(k) PROVE pkts[s].run = restarts
      <4>1. s \in Made(k)' \cup Made(k + 1)' /\ n \in Made(k)' \cup Made(k + 1)'
        BY <1>3, <2>0, <2>1, <3>1
      <4>2. pkts'[s].run = pkts'[n].run
        BY <1>7, <4>1 DEF OneProcess
      <4> QED BY <1>2, <1>m, <3>1, <4>2
    <3> QED BY <3>1
  <2>3. Mine(k) = Made(k)
    BY <2>2 DEF Mine
  <2>4. PICK s \in Made(k) : TRUE
    BY <1>7, <2>1
  <2>5. s \in DOMAIN pkts /\ pkts[s].run = restarts /\ IDOf(pkts[s].ts) = k
    BY <2>2, <2>4 DEF Made
  <2>6. cli.id # 0 /\ k <= cli.id /\ cli.id <= w
    BY <1>0, <1>1, <2>5 DEF ClientCounts
  <2>7. CASE cli.id = k
    <3>1. cli.cur.sent = Cardinality(Made(k))
      BY <1>0, <2>3, <2>6, <2>7 DEF ClientCounts
    <3> QED BY <1>2, <2>0, <2>1, <2>7, <3>1
  <2>8. CASE cli.id = w
    <3>1. PICK t \in Mine(w) : pkts[t].last = cli.last
      BY <1>0, <2>6, <2>8 DEF ClientCounts
    <3>2. t \in DOMAIN pkts /\ IDOf(pkts[t].ts) - 1 = k
      BY <1>7, <3>1 DEF Mine, Made
    <3>3. pkts[t].last.sent = Cardinality(Made(k))
      BY <1>0, <2>1, <2>4, <3>2 DEF ProbesTellTrue
    <3> QED BY <1>2, <2>1, <2>8, <3>1, <3>3
  <2> QED BY <1>4, <1>7, <2>6, <2>7, <2>8
<1>8. SUFFICES ASSUME NEW s \in DOMAIN pkts', NEW k, k = IDOf(pkts'[s].ts) - 1,
                      Made(k)' # {}, OneProcess(k)'
               PROVE  pkts'[s].last.sent = Cardinality(Made(k)')
  BY DEF ProbesTellTrue
<1>9. CASE s \in DOMAIN pkts
  BY <1>2, <1>6, <1>8, <1>9
<1>10. CASE s = n
  BY <1>1, <1>2, <1>7, <1>8, <1>10
<1> QED BY <1>2, <1>8, <1>9, <1>10

LEMMA ClientInvariant == Spec => []ClientInv
<1>1. Init => ClientCounts /\ ProbesArePast /\ ProbesTellTrue
  BY DEF Init, FreshClient, ClientCounts, ProbesArePast, ProbesTellTrue
<1>2. ASSUME ClientInv, TypeInv', [Next]_vars PROVE ClientInv'
  <2>0. TypeInv /\ ClientCounts /\ ProbesArePast /\ ProbesTellTrue
    BY <1>2 DEF ClientInv
  <2>1. now \in Nat /\ restarts \in Nat
    BY <2>0, Constants DEF TypeInv, TypeOK, ClockType, ClientType
  <2>2. CASE UNCHANGED client
    <3>1. now' \in Nat /\ now <= now'
      <4>1. Tick => now' = now + 1
        BY DEF Tick
      <4>2. ~ Tick => now' = now
        BY <1>2, StepsByActor, ClientFrame, GoroutineFrame, ProcessorFrame DEF LateTick, vars
      <4> QED BY <2>1, <4>1, <4>2
    <3>2. cli' = cli /\ pkts' = pkts /\ restarts' = restarts
      BY <2>2 DEF client
    <3>3. IDOf(now) \in Nat /\ IDOf(now') \in Nat /\ IDOf(now) <= IDOf(now')
      BY <2>1, <3>1, IDOfMonotonic, IDOfNat
    <3>4. cli.id \in Nat
      BY <2>0 DEF TypeInv, TypeOK, ClientType, Windows
    <3>5. ClientCounts'
      <4>1. \A k : Mine(k)' = Mine(k)
        BY <3>2 DEF Mine, Made
      <4>2. cli.id <= IDOf(now) => cli.id <= IDOf(now')
        BY <3>3, <3>4
      <4> QED BY <2>0, <3>2, <4>1, <4>2 DEF ClientCounts
    <3>6. ProbesArePast'
      <4>1. \A s \in DOMAIN pkts : pkts[s].ts \in Nat
        BY <2>0, PacketFacts
      <4> QED BY <2>0, <2>1, <3>1, <3>2, <4>1 DEF ProbesArePast
    <3>7. ProbesTellTrue'
      BY <2>0, <3>2 DEF ProbesTellTrue, OneProcess, Made
    <3> QED BY <1>2, <3>5, <3>6, <3>7 DEF ClientInv
  <2>3. ASSUME NEW copies \in 0 .. MaxCopies, SendProbe(copies) PROVE ClientInv'
    BY <1>2, <2>3, SendCounts, SendTells DEF ClientInv
  <2>4. CASE RestartClient
    <3>1. /\ restarts' = restarts + 1 /\ pkts' = pkts /\ now' = now /\ cli'.id = 0
      BY <2>4 DEF RestartClient, FreshClient
    <3>2. \A s \in DOMAIN pkts : pkts[s].run \in Nat /\ pkts[s].run <= restarts
      BY <2>0, PacketFacts DEF ProbesArePast, PacketType
    <3>3. \A s \in DOMAIN pkts' : pkts'[s].run # restarts' /\ pkts'[s].run <= restarts'
      BY <2>1, <3>1, <3>2
    <3>4. ClientCounts' /\ ProbesArePast'
      BY <2>0, <3>1, <3>3 DEF ClientCounts, ProbesArePast
    <3>5. ProbesTellTrue'
      BY <2>0, <3>1 DEF ProbesTellTrue, OneProcess, Made
    <3> QED BY <1>2, <3>4, <3>5 DEF ClientInv
  <2> QED BY <1>2, <2>2, <2>3, <2>4, StepsByActor, GoroutineFrame, ProcessorFrame, TimeFrame DEF Client
<1>3. Init /\ TypeInv => ClientInv
  BY <1>1 DEF ClientInv
<1> QED BY <1>2, <1>3, TypeInit, TypeInvariant, PTL DEF Spec

-----------------------------------------------------------------------------
(* the windows of the buckets                                              *)

(***************************************************************************)
(* A bucket lies under its own ID, and a goroutine has in hand the bucket  *)
(* of its probe's window or, when it fixes a count, of the one before.     *)
(***************************************************************************)
KeysMatch == \A k \in DOMAIN bmap : heap[bmap[k]].id = k

RefsMatch ==
  \A p \in ServerPorts :
    /\ srv[p].pc = "store" => heap[srv[p].ref].id = IDInHand(p)
    /\ srv[p].pc = "fix" => heap[srv[p].ref].id = IDInHand(p) - 1

RefInv == TypeInv /\ KeysMatch /\ RefsMatch

LEMMA PacketsKept ==
  ASSUME TypeInv, TypeInv', [Next]_vars
  PROVE  /\ \A s \in DOMAIN pkts : s \in DOMAIN pkts' /\ pkts'[s] = pkts[s]
         /\ \A k : Made(k) \subseteq Made(k)'
<1>1. \A s \in DOMAIN pkts : s \in DOMAIN pkts' /\ pkts'[s] = pkts[s]
  <2>1. pkts' = pkts \/ \E copies \in 0 .. MaxCopies : SendProbe(copies)
    BY StepsByActor, GoroutineFrame, ProcessorFrame, TimeFrame DEF Client, RestartClient, client
  <2> QED BY <2>1, SendEffect
<1> QED BY <1>1 DEF Made

(***************************************************************************)
(* A step of a goroutine moves that goroutine only; the others keep the    *)
(* probe and the bucket in hand.                                           *)
(***************************************************************************)
LEMMA OthersKeep ==
  ASSUME TypeInv, NEW p \in ServerPorts, Goroutine(p)
  PROVE  \A q \in ServerPorts : q # p => srv'[q] = srv[q]
BY GoroutineSteps DEF ReadPacket, FindStat, RegisterStat, PutLookup, PutStore, MarkReceived,
   FindPrev, FixPrev, TypeInv, TypeOK, GoroutineType

LEMMA RefInvariant == Spec => []RefInv
<1>1. Init /\ TypeInv => RefInv
  BY DEF Init, RefInv, KeysMatch, RefsMatch, IdleServer
<1>2. ASSUME RefInv, TypeInv', [Next]_vars PROVE RefInv'
  <2>0. /\ TypeInv /\ KeysMatch /\ RefsMatch /\ StoreType
        /\ bmap \in [DOMAIN bmap -> Refs] /\ Nil \notin Refs
        /\ \A i \in Refs : i \in Refs' /\ heap'[i].id = heap[i].id
    BY <1>2, StoreTypeStep DEF RefInv, TypeInv, TypeOK, StoreType, Refs, Nil
  <2>1. KeysMatch'
    <3>1. CASE UNCHANGED bmap
      BY <2>0, <3>1 DEF KeysMatch
    <3>2. ASSUME NEW id, Remove(id) PROVE KeysMatch'
      BY <2>0, <3>2, RemoveEffect DEF KeysMatch
    <3>3. ASSUME NEW id \in Windows, GetOrCreate(id), NEW h, h = Inserted(id),
                 \A i \in 1 .. Len(h) : heap'[i].id = h[i].id
          PROVE  KeysMatch'
      <4>1. /\ DOMAIN bmap' = DOMAIN bmap \cup {id} /\ bmap' \in [DOMAIN bmap' -> 1 .. Len(h)]
            /\ \A k \in DOMAIN bmap : bmap'[k] = bmap[k]
            /\ id \notin DOMAIN bmap => bmap'[id] \notin Refs /\ h[bmap'[id]] = NewBucket(id)
        <5>1. StoreType /\ GetOrCreate(id) /\ h = Inserted(id)
          BY <2>0, <3>3
        <5>2. DOMAIN bmap' = DOMAIN bmap \cup {id} /\ bmap' \in [DOMAIN bmap' -> 1 .. Len(h)]
          BY <5>1, CreateEffect
        <5>3. id \notin DOMAIN bmap => bmap'[id] \notin Refs /\ h[bmap'[id]] = NewBucket(id)
          BY <5>1, CreateEffect
        <5>4. \A k \in DOMAIN bmap : bmap'[k] = bmap[k]
          BY <5>1, CreateEffect
        <5> QED BY <5>2, <5>3, <5>4
      <4>2. \A k \in DOMAIN bmap : heap'[bmap'[k]].id = k
        BY <2>0, <4>1 DEF KeysMatch
      <4>3. id \notin DOMAIN bmap => heap'[bmap'[id]].id = id
        <5>1. id \notin DOMAIN bmap => h[bmap'[id]] = NewBucket(id) /\ bmap'[id] \in 1 .. Len(h)
          BY <4>1
        <5>2. NewBucket(id).id = id
          BY DEF NewBucket
        <5> QED BY <3>3, <5>1, <5>2
      <4> QED BY <4>1, <4>2, <4>3 DEF KeysMatch
    <3>4. ASSUME NEW p \in ServerPorts, Goroutine(p) PROVE KeysMatch'
      <4>1. CASE PutLookup(p)
        <5>1. IDInHand(p) \in Windows
          BY <2>0, <4>1, InHand DEF PutLookup
        <5> QED BY <3>3, <4>1, <5>1 DEF PutLookup
      <4>2. CASE MarkReceived(p)
        <5>1. PICK h : h = Inserted(IDInHand(p))
          OBVIOUS
        <5>2. IDInHand(p) \in Windows /\ GetOrCreate(IDInHand(p))
              /\ \A i \in 1 .. Len(h) : heap'[i].id = h[i].id
          BY <2>0, <4>2, <5>1, MarkEffect
        <5> QED BY <3>3, <5>1, <5>2
      <4>3. UNCHANGED bmap \/ PutLookup(p) \/ MarkReceived(p)
        BY <3>4, GoroutineSteps DEF ReadPacket, FindStat, RegisterStat, PutStore, FindPrev, FixPrev,
           store
      <4> QED BY <3>1, <4>1, <4>2, <4>3
    <3>5. Processor => UNCHANGED bmap \/ \E id \in Windows : Remove(id)
      <4>1. DiscardStale \/ RemoveReported => proc.ref # Nil /\ Remove(heap[proc.ref].id)
        BY <2>0 DEF DiscardStale, RemoveReported, TypeInv, TypeOK, ProcType
      <4>2. DiscardStale \/ RemoveReported => \E id \in Windows : Remove(id)
        BY <2>0, <4>1, ProcessorRef DEF BucketType
      <4>3. Processor /\ ~ (DiscardStale \/ RemoveReported) => UNCHANGED bmap
        BY DEF Processor, StatOnce, StartProcessor, TakeTick, FetchOldest, CheckAge,
           NothingToReport, TakeStat, ReadParams, SendReport, store
      <4> QED BY <4>2, <4>3
    <3> QED BY <1>2, <3>1, <3>2, <3>4, <3>5, StepsByActor, ClientFrame, TimeFrame DEF store
  <2>2. RefsMatch'
    <3>0. \A p \in ServerPorts : srv[p].pc \in {"store", "fix"} => srv[p].ref \in Refs
      BY <2>0 DEF TypeInv, TypeOK, GoroutineType
    <3>1. ASSUME NEW q \in ServerPorts, srv'[q] = srv[q]
          PROVE  /\ srv'[q].pc = "store" => heap'[srv'[q].ref].id = IDInHand(q)'
                 /\ srv'[q].pc = "fix" => heap'[srv'[q].ref].id = IDInHand(q)' - 1
      <4>1. srv[q].pc # "idle" => IDInHand(q)' = IDInHand(q)
        BY <1>2, <2>0, <3>1, InHand, PacketsKept DEF IDInHand
      <4> QED BY <2>0, <3>0, <3>1, <4>1 DEF RefsMatch
    <3>2. ASSUME NEW p \in ServerPorts, Goroutine(p)
          PROVE  /\ srv'[p].pc = "store" => heap'[srv'[p].ref].id = IDInHand(p)'
                 /\ srv'[p].pc = "fix" => heap'[srv'[p].ref].id = IDInHand(p)' - 1
      <4>0. srv \in [ServerPorts -> ServerType] /\ srv[p] \in ServerType /\ pkts' = pkts
        BY <2>0, <3>2, GoroutineFrame DEF TypeInv, TypeOK, GoroutineType, ServerType, client
      <4>1. CASE PutLookup(p)
        <5>1. IDInHand(p) \in Windows /\ GetOrCreate(IDInHand(p))
          BY <2>0, <4>1, InHand DEF PutLookup
        <5>2. IDInHand(p) \in DOMAIN bmap'
          BY <2>0, <5>1, CreateEffect
        <5>3. heap'[bmap'[IDInHand(p)]].id = IDInHand(p)
          BY <2>1, <5>2 DEF KeysMatch
        <5>4. srv'[p].pc = "store" /\ srv'[p].ref = bmap'[IDInHand(p)] /\ srv'[p].seq = srv[p].seq
          BY <4>0, <4>1 DEF PutLookup, ServerType
        <5>5. IDInHand(p)' = IDInHand(p)
          BY <4>0, <5>4 DEF IDInHand
        <5> QED BY <5>3, <5>4, <5>5
      <4>2. CASE FindPrev(p)
        <5>1. PICK r : r = Lookup(bmap, IDInHand(p) - 1)
          OBVIOUS
        <5>2. \/ srv'[p] = IdleServer
              \/ r # Nil /\ srv'[p] = [srv[p] EXCEPT !.pc = "fix", !.ref = r]
          BY <4>0, <4>2, <5>1 DEF FindPrev
        <5>3. r # Nil => IDInHand(p) - 1 \in DOMAIN bmap /\ r = bmap[IDInHand(p) - 1] /\ r \in Refs
          BY <2>0, <5>1 DEF Lookup
        <5>4. r # Nil => heap'[r].id = IDInHand(p) - 1
          BY <2>0, <5>3 DEF KeysMatch
        <5>5. CASE srv'[p] = IdleServer
          BY <5>5 DEF IdleServer
        <5>6. CASE r # Nil /\ srv'[p] = [srv[p] EXCEPT !.pc = "fix", !.ref = r]
          <6>1. srv'[p].pc = "fix" /\ srv'[p].ref = r /\ srv'[p].seq = srv[p].seq
            BY <4>0, <5>6 DEF ServerType
          <6>2. IDInHand(p)' = IDInHand(p)
            BY <4>0, <6>1 DEF IDInHand
          <6> QED BY <5>4, <5>6, <6>1, <6>2
        <5> QED BY <5>2, <5>5, <5>6
      <4>3. ~ PutLookup(p) /\ ~ FindPrev(p) => srv'[p].pc \notin {"store", "fix"}
        <5>1. \/ FindStat(p) \/ RegisterStat(p) \/ PutStore(p) \/ FixPrev(p)
              \/ \E s \in DOMAIN wire : ReadPacket(p, s)
              => srv'[p].pc \notin {"store", "fix"}
          BY <4>0 DEF ReadPacket, FindStat, RegisterStat, PutStore, FixPrev, IdleServer, ServerType
        <5>2. MarkReceived(p) => srv'[p] = IdleServer \/ srv'[p] = [srv[p] EXCEPT !.pc = "prev"]
          BY <4>0 DEF MarkReceived
        <5>3. IdleServer.pc = "idle" /\ [srv[p] EXCEPT !.pc = "prev"].pc = "prev"
          BY <4>0 DEF IdleServer, ServerType
        <5>4. MarkReceived(p) => srv'[p].pc \notin {"store", "fix"}
          BY <5>2, <5>3
        <5> QED BY <3>2, <5>1, <5>4, GoroutineSteps
      <4> QED BY <4>1, <4>2, <4>3
    <3>3. \A q \in ServerPorts :
            /\ srv'[q].pc = "store" => heap'[srv'[q].ref].id = IDInHand(q)'
            /\ srv'[q].pc = "fix" => heap'[srv'[q].ref].id = IDInHand(q)' - 1
      BY <1>2, <2>0, <3>1, <3>2, StepsByActor, ClientFrame, ProcessorFrame, TimeFrame, OthersKeep
    <3> QED BY <3>3 DEF RefsMatch
  <2> QED BY <1>2, <2>1, <2>2 DEF RefInv
<1> QED BY <1>1, <1>2, TypeInit, TypeInvariant, PTL DEF Spec

-----------------------------------------------------------------------------
(* the counts the server learns                                            *)

(***************************************************************************)
(* A count for a window is one that a probe of the next window told, and   *)
(* there are probes of the window itself.                                  *)
(***************************************************************************)
Learned(id, sent) ==
  Made(id) # {} /\ \E s \in Made(id + 1) : pkts[s].last.sent = sent

ToldInv ==
  /\ \A i \in Refs : /\ Made(heap[i].id) # {}
                     /\ heap[i].told.sent > 0 => Learned(heap[i].id, heap[i].told.sent)
  /\ proc.res.told.sent > 0 => Learned(proc.res.id, proc.res.told.sent)
  /\ \A i \in DOMAIN reports :
       reports[i].fixed /\ reports[i].known # {} => Learned(reports[i].id, reports[i].sent)

LEMMA LearnedKept ==
  ASSUME TypeInv, TypeInv', [Next]_vars, NEW id, NEW sent, Learned(id, sent)
  PROVE  Learned(id, sent)'
<1>1. PICK s \in Made(id + 1) : pkts[s].last.sent = sent
  BY DEF Learned
<1>2. s \in DOMAIN pkts
  BY <1>1 DEF Made
<1>3. s \in Made(id + 1)' /\ pkts'[s].last.sent = sent /\ Made(id)' # {}
  BY <1>1, <1>2, PacketsKept DEF Learned
<1> QED BY <1>3 DEF Learned

(***************************************************************************)
(* An object keeps its count but for a fix, and a new one has none.        *)
(***************************************************************************)
LEMMA ToldEffect ==
  ASSUME TypeInv, TypeInv', [Next]_vars, NEW i \in Refs'
  PROVE  \/ i \in Refs /\ heap'[i].id = heap[i].id /\ heap'[i].told = heap[i].told
         \/ \E p \in ServerPorts :
              \/ /\ i \in Refs /\ heap'[i].id = heap[i].id
                 /\ srv[p].pc = "fix" /\ srv[p].ref = i
                 /\ heap'[i].told = pkts[srv[p].seq].last
              \/ srv[p].pc # "idle" /\ heap'[i].id = IDInHand(p) /\ heap'[i].told = NotTold
<1>0. StoreType /\ heap \in Seq(BucketType)
  BY DEF TypeInv, TypeOK, StoreType, BucketType
<1>1. CASE heap' = heap
  BY <1>1 DEF Refs
<1>2. ASSUME NEW p \in ServerPorts, Goroutine(p), heap' # heap
      PROVE  \/ i \in Refs /\ heap'[i].id = heap[i].id /\ heap'[i].told = heap[i].told
             \/ /\ i \in Refs /\ heap'[i].id = heap[i].id
                /\ srv[p].pc = "fix" /\ srv[p].ref = i
                /\ heap'[i].told = pkts[srv[p].seq].last
             \/ srv[p].pc # "idle" /\ heap'[i].id = IDInHand(p) /\ heap'[i].told = NotTold
  <2>0. NewBucket(IDInHand(p)).id = IDInHand(p) /\ NewBucket(IDInHand(p)).told = NotTold
    BY DEF NewBucket
  <2>1. CASE PutStore(p)
    BY <2>1, PutEffect DEF Refs
  <2>2. CASE FixPrev(p)
    <3>1. srv[p].pc = "fix"
      BY <2>2 DEF FixPrev
    <3> QED BY <2>2, <3>1, FixEffect DEF Refs
  <2>3. ASSUME IDInHand(p) \in Windows, GetOrCreate(IDInHand(p)), NEW h, h = Inserted(IDInHand(p)),
               i \in 1 .. Len(h), heap'[i].id = h[i].id, heap'[i].told = h[i].told
        PROVE  \/ i \in Refs /\ heap'[i].id = heap[i].id /\ heap'[i].told = heap[i].told
               \/ heap'[i].id = IDInHand(p) /\ heap'[i].told = NotTold
    <3>1. i \in Refs => h[i] = heap[i]
      BY <1>0, <2>3, CreateEffect
    <3>2. ASSUME i \notin Refs PROVE h[i] = NewBucket(IDInHand(p))
      <4>1. h = Append(heap, NewBucket(IDInHand(p)))
        BY <2>3, <3>2 DEF Inserted, Refs
      <4>2. /\ Len(h) = Len(heap) + 1 /\ h[Len(heap) + 1] = NewBucket(IDInHand(p))
            /\ Len(heap) \in Nat
        BY <1>0, <2>3, <4>1, NewBucketType, AppendProperties, LenProperties
      <4>3. i = Len(heap) + 1
        BY <2>3, <3>2, <4>2 DEF Refs
      <4> QED BY <4>2, <4>3
    <3> QED BY <2>0, <2>3, <3>1, <3>2
  <2>4. CASE PutLookup(p)
    <3>1. /\ srv[p].pc # "idle" /\ IDInHand(p) \in Windows /\ GetOrCreate(IDInHand(p))
          /\ heap' = Inserted(IDInHand(p))
      BY <2>4, InHand DEF PutLookup
    <3>2. i \in 1 .. Len(heap')
      BY DEF Refs
    <3> QED BY <2>3, <3>1, <3>2
  <2>5. CASE MarkReceived(p)
    <3>1. PICK h : h = Inserted(IDInHand(p))
      OBVIOUS
    <3>2. /\ IDInHand(p) \in Windows /\ GetOrCreate(IDInHand(p)) /\ Len(heap') = Len(h)
          /\ \A j \in 1 .. Len(h) : heap'[j].id = h[j].id /\ heap'[j].told = h[j].told
      BY <2>5, <3>1, MarkEffect
    <3>3. i \in 1 .. Len(h) /\ heap'[i].id = h[i].id /\ heap'[i].told = h[i].told
      BY <3>2 DEF Refs
    <3>4. srv[p].pc # "idle"
      BY <2>5 DEF MarkReceived
    <3>5. \/ i \in Refs /\ heap'[i].id = heap[i].id /\ heap'[i].told = heap[i].told
          \/ heap'[i].id = IDInHand(p) /\ heap'[i].told = NotTold
      BY <2>3, <3>1, <3>2, <3>3
    <3> QED BY <3>4, <3>5
  <2> QED BY <1>2, <2>1, <2>2, <2>4, <2>5, GoroutineSteps
          DEF ReadPacket, FindStat, RegisterStat, FindPrev, store
<1> QED BY <1>1, <1>2, StepsByActor, ClientFrame, ProcessorFrame, TimeFrame DEF store

LEMMA ToldStep ==
  ASSUME RefInv, ToldInv, TypeInv', [Next]_vars
  PROVE  ToldInv'
<1>0. TypeInv /\ RefsMatch
  BY DEF RefInv
<1>1. ASSUME NEW i \in Refs'
      PROVE  /\ Made(heap[i].id)' # {}
             /\ heap'[i].told.sent > 0 => Learned(heap[i].id, heap[i].told.sent)'
  <2> DEFINE id == heap'[i].id
             sent == heap'[i].told.sent
  <2>1. CASE i \in Refs /\ heap'[i].id = heap[i].id /\ heap'[i].told = heap[i].told
    <3>1. PICK k, n : k = heap[i].id /\ n = heap[i].told.sent
      OBVIOUS
    <3>2. Made(k) # {} /\ (n > 0 => Learned(k, n))
      BY <2>1, <3>1 DEF ToldInv
    <3>3. Made(k)' # {} /\ (n > 0 => Learned(k, n)')
      BY <1>0, <3>2, PacketsKept, LearnedKept
    <3> QED BY <2>1, <3>1, <3>3 DEF Learned, Made
  <2>2. ASSUME NEW p \in ServerPorts, i \in Refs, heap'[i].id = heap[i].id, srv[p].pc = "fix",
               srv[p].ref = i, heap'[i].told = pkts[srv[p].seq].last
        PROVE  /\ Made(heap[i].id)' # {}
               /\ heap'[i].told.sent > 0 => Learned(heap[i].id, heap[i].told.sent)'
    <3>1. PICK k, n : k = heap[i].id /\ n = pkts[srv[p].seq].last.sent
      OBVIOUS
    <3>2. Made(k) # {} /\ k = IDInHand(p) - 1
      BY <1>0, <2>2, <3>1 DEF ToldInv, RefsMatch
    <3>3. IDInHand(p) \in Windows /\ srv[p].seq \in DOMAIN pkts
      BY <1>0, <2>2, InHand
    <3>4. k + 1 = IDInHand(p)
      BY <3>2, <3>3 DEF Windows
    <3>5. srv[p].seq \in Made(k + 1)
      BY <3>3, <3>4 DEF Made, IDInHand
    <3>6. Learned(k, n)
      BY <3>1, <3>2, <3>5 DEF Learned
    <3>7. Made(k)' # {} /\ Learned(k, n)'
      BY <1>0, <3>2, <3>6, PacketsKept, LearnedKept
    <3> QED BY <2>2, <3>1, <3>7 DEF Learned, Made
  <2>3. ASSUME NEW p \in ServerPorts, srv[p].pc # "idle", heap'[i].id = IDInHand(p),
               heap'[i].told = NotTold
        PROVE  /\ Made(heap[i].id)' # {}
               /\ heap'[i].told.sent > 0 => Learned(heap[i].id, heap[i].told.sent)'
    <3>1. PICK k : k = IDInHand(p)
      OBVIOUS
    <3>2. srv[p].seq \in Made(k)
      BY <1>0, <2>3, <3>1, InHand DEF Made, IDInHand
    <3>3. Made(k)' # {}
      BY <1>0, <3>2, PacketsKept
    <3>4. NotTold.sent = 0
      BY DEF NotTold
    <3> QED BY <2>3, <3>1, <3>3, <3>4 DEF Made
  <2> QED BY <1>0, <1>1, <2>1, <2>2, <2>3, ToldEffect
<1>2. proc'.res.told.sent > 0 => Learned(proc.res.id, proc.res.told.sent)'
  <2>1. CASE proc'.res = proc.res
    <3>1. PICK k, n : k = proc.res.id /\ n = proc.res.told.sent
      OBVIOUS
    <3>2. n > 0 => Learned(k, n)'
      BY <1>0, <3>1, LearnedKept DEF ToldInv
    <3> QED BY <2>1, <3>1, <3>2 DEF Learned, Made
  <2>2. CASE proc'.res = NoResult
    BY <2>2 DEF NoResult, NotTold
  <2>3. CASE TakeStat
    <3>1. PICK k, n : k = heap[proc.ref].id /\ n = heap[proc.ref].told.sent
      OBVIOUS
    <3>2. proc.ref \in Refs
      BY <1>0, <2>3, ProcessorRef DEF TakeStat
    <3>3. n > 0 => Learned(k, n)'
      BY <1>0, <3>1, <3>2, LearnedKept DEF ToldInv
    <3>4. proc'.res.id = k /\ proc'.res.told.sent = n
      BY <1>0, <2>3, <3>1 DEF TakeStat, TypeInv, TypeOK, ProcType
    <3> QED BY <3>3, <3>4 DEF Learned, Made
  <2>4. TakeStat \/ proc'.res = NoResult \/ proc'.res = proc.res
    <3>1. StartProcessor \/ TakeTick \/ NothingToReport \/ RemoveReported => proc'.res = NoResult
      BY DEF StartProcessor, TakeTick, NothingToReport, RemoveReported, RunOnce, IdleProc
    <3>2. FetchOldest \/ DiscardStale \/ ReadParams \/ SendReport => proc'.res = proc.res
      BY <1>0 DEF FetchOldest, DiscardStale, ReadParams, SendReport, TypeInv, TypeOK, ProcType
    <3>3. CheckAge => proc'.res = proc.res \/ proc'.res = NoResult
      <4>1. CheckAge => proc' = IdleProc \/ proc' = [proc EXCEPT !.pc = "loop"]
        BY DEF CheckAge
      <4>2. IdleProc.res = NoResult /\ [proc EXCEPT !.pc = "loop"].res = proc.res
        BY <1>0 DEF IdleProc, TypeInv, TypeOK, ProcType
      <4> QED BY <4>1, <4>2
    <3> QED BY <3>1, <3>2, <3>3, StepsByActor, ClientFrame, GoroutineFrame, TimeFrame
            DEF Processor, StatOnce
  <2> QED BY <2>1, <2>2, <2>3, <2>4
<1>3. ASSUME NEW i \in DOMAIN reports', reports'[i].fixed, reports'[i].known # {}
      PROVE  Learned(reports[i].id, reports[i].sent)'
  <2>1. CASE i \in DOMAIN reports /\ reports'[i] = reports[i]
    <3>1. PICK k, n : k = reports[i].id /\ n = reports[i].sent
      OBVIOUS
    <3>2. Learned(k, n)'
      BY <1>0, <1>3, <2>1, <3>1, LearnedKept DEF ToldInv
    <3> QED BY <2>1, <3>1, <3>2 DEF Learned, Made
  <2>2. CASE SendReport /\ i = Len(reports) + 1
    <3>1. PICK k, n : k = proc.res.id /\ n = proc.res.told.sent
      OBVIOUS
    <3>2. reports' = Append(reports, reports'[i]) /\ reports'[i].id = k
          /\ reports'[i].fixed = (n > 0) /\ reports'[i].sent = SentCount
          /\ reports'[i].known = Requests({"unset", "ack", "bare"})
      BY <1>0, <2>2, <3>1 DEF SendReport, TypeInv, TypeOK, HistoryType
    <3>3. n > 0 /\ SentCount = n
      BY <1>3, <3>1, <3>2 DEF SentCount
    <3>4. Learned(k, n)'
      BY <1>0, <3>1, <3>3, LearnedKept DEF ToldInv
    <3> QED BY <3>2, <3>3, <3>4 DEF Learned, Made
  <2>3. \/ i \in DOMAIN reports /\ reports'[i] = reports[i]
        \/ SendReport /\ i = Len(reports) + 1
    <3>1. SendReport \/ reports' = reports
      <4>1. Processor => SendReport \/ reports' = reports
        BY DEF Processor, StatOnce, StartProcessor, TakeTick, FetchOldest, CheckAge,
           NothingToReport, DiscardStale, TakeStat, ReadParams, RemoveReported
      <4> QED BY <4>1, StepsByActor, ClientFrame, GoroutineFrame, TimeFrame
    <3>2. CASE SendReport
      <4>1. PICK r : reports' = Append(reports, r)
        BY <3>2 DEF SendReport
      <4>2. PICK S : reports \in Seq(S)
        BY <1>0 DEF TypeInv, TypeOK, HistoryType
      <4> QED BY <1>3, <3>2, <4>1, <4>2
    <3> QED BY <1>3, <3>1, <3>2
  <2> QED BY <2>1, <2>2, <2>3
<1> QED BY <1>1, <1>2, <1>3 DEF ToldInv

LEMMA ToldInvariant == Spec => []ToldInv
<1>1. Init => ToldInv
  <2>1. Init => proc.res.told.sent = 0
    BY DEF Init, IdleProc, NoResult, NotTold
  <2> QED BY <2>1 DEF Init, ToldInv, Refs
<1>2. RefInv /\ ToldInv /\ TypeInv' /\ [Next]_vars => ToldInv'
  BY ToldStep
<1> QED BY <1>1, <1>2, TypeInvariant, RefInvariant, PTL DEF Spec

(***************************************************************************)
(* The denominator of a reported loss rate is the number of probes the     *)
(* client made in that window, for every loss, duplication and order of    *)
(* arrival, every number of ports and of restarts.                         *)
(***************************************************************************)
THEOREM DenominatorIsTrue == Spec => []FixedCountIsTrue
<1>1. ClientInv /\ ToldInv => FixedCountIsTrue
  <2> SUFFICES ASSUME ClientInv, ToldInv, NEW i \in DOMAIN reports, reports[i].fixed,
                      reports[i].known # {}, OneProcess(reports[i].id)
               PROVE  reports[i].sent = Cardinality(Made(reports[i].id))
    BY DEF FixedCountIsTrue
  <2>1. PICK k : k = reports[i].id
    OBVIOUS
  <2>2. Made(k) # {} /\ \E s \in Made(k + 1) : pkts[s].last.sent = reports[i].sent
    BY <2>1 DEF ToldInv, Learned
  <2>3. PICK s \in Made(k + 1) : pkts[s].last.sent = reports[i].sent
    BY <2>2
  <2>4. s \in DOMAIN pkts /\ IDOf(pkts[s].ts) = k + 1
    BY <2>3 DEF Made
  <2>5. k \in Windows
    <3>1. reports \in Seq(ReportType)
      BY DEF ClientInv, TypeInv, TypeOK, HistoryType, ReportType
    <3>2. reports[i] \in ReportType
      BY <3>1, ElementOfSeq, LenProperties
    <3> QED BY <2>1, <3>2 DEF ReportType
  <2>6. IDOf(pkts[s].ts) - 1 = k
    BY <2>4, <2>5 DEF Windows
  <2>7. pkts[s].last.sent = Cardinality(Made(k))
    BY <2>1, <2>2, <2>4, <2>6 DEF ClientInv, ProbesTellTrue
  <2> QED BY <2>1, <2>3, <2>7
<1> QED BY <1>1, ToldInvariant, ClientInvariant, PTL

-----------------------------------------------------------------------------
(* the probes the server has counted                                       *)

(***************************************************************************)
(* A request lies in the bucket of its probe's window.                     *)
(***************************************************************************)
RequestsInWindow ==
  \A i \in Refs, s \in Seqs :
    heap[i].requests[s] # "none" => s \in Made(heap[i].id)

(***************************************************************************)
(* Until a window is reported, its bucket stays in the map, the one in the *)
(* Processor's hand is that bucket, and every probe counted is marked in   *)
(* it.  Afterwards the Processor removes only windows it has reported.     *)
(***************************************************************************)
BucketIsHeld ==
  /\ proc.ref # Nil /\ heap[proc.ref].id > lastID =>
       heap[proc.ref].id \in DOMAIN bmap /\ bmap[heap[proc.ref].id] = proc.ref
  /\ proc.pc \in {"params", "send", "remove"} => heap[proc.ref].id <= lastID

CountedIsMarked ==
  \A s \in got :
    LET k == IDOf(pkts[s].ts)
    IN  k > lastID => k \in DOMAIN bmap /\ heap[bmap[k]].requests[s] \in {"ack", "bare"}

MarkInv == RefInv /\ RequestsInWindow /\ BucketIsHeld /\ CountedIsMarked

(***************************************************************************)
(* What a step does to one request of one object: nothing, or the step is  *)
(* that of a goroutine which has the probe in hand; a mark stays.          *)
(***************************************************************************)
LEMMA RequestEffect ==
  ASSUME RefInv, RefInv', [Next]_vars, NEW i \in Refs', NEW s \in Seqs
  PROVE  /\ \/ heap'[i].requests[s] = "none"
            \/ i \in Refs /\ heap'[i].requests[s] = heap[i].requests[s]
            \/ \E p \in ServerPorts :
                 srv[p].pc # "idle" /\ s = srv[p].seq /\ heap'[i].id = IDInHand(p)
         /\ i \in Refs /\ heap[i].requests[s] \in {"ack", "bare"}
              => heap'[i].requests[s] \in {"ack", "bare"}
<1>0. /\ TypeInv /\ StoreType /\ KeysMatch' /\ RefsMatch /\ heap \in Seq(BucketType)
  BY DEF RefInv, TypeInv, TypeOK, StoreType, BucketType
<1>1. CASE heap' = heap
  BY <1>1 DEF Refs
<1>2. ASSUME NEW p \in ServerPorts, Goroutine(p), heap' # heap
      PROVE  /\ \/ heap'[i].requests[s] = "none"
                \/ i \in Refs /\ heap'[i].requests[s] = heap[i].requests[s]
                \/ srv[p].pc # "idle" /\ s = srv[p].seq /\ heap'[i].id = IDInHand(p)
             /\ i \in Refs /\ heap[i].requests[s] \in {"ack", "bare"}
                  => heap'[i].requests[s] \in {"ack", "bare"}
  <2>1. CASE PutStore(p)
    <3>1. /\ i \in Refs /\ heap'[i].id = heap[i].id
          /\ heap'[i].requests[s] =
               IF i = srv[p].ref /\ s = srv[p].seq THEN AfterPut(heap[i].requests[s])
                                                   ELSE heap[i].requests[s]
      BY <1>0, <2>1, PutEffect DEF Refs
    <3>2. srv[p].pc = "store" /\ heap[srv[p].ref].id = IDInHand(p)
      BY <1>0, <2>1 DEF PutStore, RefsMatch
    <3>3. heap[i].requests[s] \in {"ack", "bare"} => AfterPut(heap[i].requests[s]) = "ack"
      BY DEF AfterPut
    <3> QED BY <3>1, <3>2, <3>3
  <2>2. CASE FixPrev(p)
    BY <1>0, <2>2, FixEffect DEF Refs
  <2>3. ASSUME IDInHand(p) \in Windows, GetOrCreate(IDInHand(p)), NEW h, h = Inserted(IDInHand(p)),
               i \in 1 .. Len(h)
        PROVE  IF i \in Refs THEN h[i] = heap[i] ELSE h[i].requests[s] = "none"
    <3>1. i \in Refs => h[i] = heap[i]
      BY <1>0, <2>3, CreateEffect
    <3>2. ASSUME i \notin Refs PROVE h[i].requests[s] = "none"
      <4>1. h = Append(heap, NewBucket(IDInHand(p)))
        BY <2>3, <3>2 DEF Inserted, Refs
      <4>2. /\ Len(h) = Len(heap) + 1 /\ h[Len(heap) + 1] = NewBucket(IDInHand(p))
            /\ Len(heap) \in Nat
        BY <1>0, <2>3, <4>1, NewBucketType, AppendProperties, LenProperties
      <4>3. i = Len(heap) + 1
        BY <2>3, <3>2, <4>2 DEF Refs
      <4>4. NewBucket(IDInHand(p)).requests[s] = "none"
        BY DEF NewBucket
      <4> QED BY <4>2, <4>3, <4>4
    <3> QED BY <3>1, <3>2
  <2>4. CASE PutLookup(p)
    <3>1. /\ IDInHand(p) \in Windows /\ GetOrCreate(IDInHand(p)) /\ heap' = Inserted(IDInHand(p))
      BY <1>0, <2>4, InHand DEF PutLookup
    <3>2. i \in 1 .. Len(heap')
      BY DEF Refs
    <3>3. IF i \in Refs THEN heap'[i] = heap[i] ELSE heap'[i].requests[s] = "none"
      BY <2>3, <3>1, <3>2
    <3> QED BY <3>3
  <2>5. CASE MarkReceived(p)
    <3>1. PICK h : h = Inserted(IDInHand(p))
      OBVIOUS
    <3>2. /\ IDInHand(p) \in Windows /\ GetOrCreate(IDInHand(p)) /\ Len(heap') = Len(h)
          /\ bmap'[IDInHand(p)] \in 1 .. Len(h) /\ h \in Seq(BucketType)
      BY <1>0, <2>5, <3>1, MarkEffect
    <3>3. i \in 1 .. Len(h)
      BY <3>2 DEF Refs
    <3>4. heap'[i].requests[s] =
            IF i = bmap'[IDInHand(p)] /\ s = srv[p].seq
            THEN AfterReceived(h[i].requests[s]) ELSE h[i].requests[s]
      BY <1>0, <2>5, <3>1, <3>3, MarkEffect
    <3>5. IF i \in Refs THEN h[i] = heap[i] ELSE h[i].requests[s] = "none"
      BY <2>3, <3>1, <3>2, <3>3
    <3>6. heap[i].requests[s] \in {"ack", "bare"} =>
            AfterReceived(heap[i].requests[s]) = heap[i].requests[s]
      BY DEF AfterReceived
    <3>7. srv[p].pc # "idle"
      BY <2>5 DEF MarkReceived
    <3>8. i = bmap'[IDInHand(p)] => heap'[i].id = IDInHand(p)
      <4>1. IDInHand(p) \in DOMAIN bmap'
        BY <1>0, <3>2, CreateEffect
      <4> QED BY <1>0, <4>1 DEF KeysMatch
    <3> QED BY <3>4, <3>5, <3>6, <3>7, <3>8
  <2>6. heap' = heap \/ PutLookup(p) \/ PutStore(p) \/ MarkReceived(p) \/ FixPrev(p)
    BY <1>2, GoroutineSteps DEF ReadPacket, FindStat, RegisterStat, FindPrev, store
  <2> QED BY <1>2, <2>1, <2>2, <2>4, <2>5, <2>6
<1> QED BY <1>1, <1>2, StepsByActor, ClientFrame, ProcessorFrame, TimeFrame DEF store

(***************************************************************************)
(* A window that is not reported yet stays in the map, under the same      *)
(* object.                                                                 *)
(***************************************************************************)
LEMMA MapKept ==
  ASSUME MarkInv, TypeInv', [Next]_vars
  PROVE  /\ lastID \in Nat /\ lastID' \in Nat /\ lastID <= lastID'
         /\ \A k \in DOMAIN bmap : k > lastID => k \in DOMAIN bmap' /\ bmap'[k] = bmap[k]
<1>0. TypeInv /\ StoreType /\ BucketIsHeld
  BY DEF MarkInv, RefInv, TypeInv, TypeOK
<1>1. lastID \in Nat /\ lastID' \in Nat
  BY DEF MarkInv, RefInv, TypeInv, TypeOK, StoreType, Windows
<1>2. lastID <= lastID'
  <2>1. TakeStat => lastID' > lastID
    BY DEF TakeStat
  <2>2. ~ TakeStat => lastID' = lastID
    <3>1. Processor /\ ~ TakeStat => lastID' = lastID
      BY DEF Processor, StatOnce, StartProcessor, TakeTick, FetchOldest, CheckAge,
         NothingToReport, DiscardStale, ReadParams, SendReport, RemoveReported
    <3> QED BY <3>1, StepsByActor, ClientFrame, GoroutineFrame, TimeFrame
  <2> QED BY <1>1, <2>1, <2>2
<1>3. ASSUME NEW k \in DOMAIN bmap, k > lastID
      PROVE  k \in DOMAIN bmap' /\ bmap'[k] = bmap[k]
  <2>1. CASE UNCHANGED bmap
    BY <2>1
  <2>2. CASE DiscardStale \/ RemoveReported
    <3>1. PICK id : id = heap[proc.ref].id
      OBVIOUS
    <3>2. Remove(id) /\ id <= lastID
      BY <1>0, <2>2, <3>1 DEF DiscardStale, RemoveReported, BucketIsHeld
    <3>3. id # k
      <4>1. id \in Nat /\ k \in Nat
        <5>1. proc.ref # Nil
          BY <1>0, <2>2 DEF DiscardStale, RemoveReported, TypeInv, TypeOK, ProcType
        <5> QED BY <1>0, <3>1, <5>1, ProcessorRef DEF BucketType, Windows, StoreType
      <4> QED BY <1>1, <1>3, <3>2, <4>1
    <3> QED BY <1>0, <3>2, <3>3, RemoveEffect
  <2>3. ASSUME NEW p \in ServerPorts, PutLookup(p) \/ MarkReceived(p)
        PROVE  k \in DOMAIN bmap' /\ bmap'[k] = bmap[k]
    <3>1. IDInHand(p) \in Windows /\ GetOrCreate(IDInHand(p))
      BY <1>0, <2>3, InHand DEF PutLookup, MarkReceived
    <3> QED BY <1>0, <3>1, CreateEffect
  <2>4. \/ UNCHANGED bmap \/ DiscardStale \/ RemoveReported
        \/ \E p \in ServerPorts : PutLookup(p) \/ MarkReceived(p)
    <3>1. ASSUME NEW p \in ServerPorts, Goroutine(p)
          PROVE  UNCHANGED bmap \/ PutLookup(p) \/ MarkReceived(p)
      BY <3>1, GoroutineSteps DEF ReadPacket, FindStat, RegisterStat, PutStore, FindPrev, FixPrev,
         store
    <3>2. Processor => UNCHANGED bmap \/ DiscardStale \/ RemoveReported
      BY DEF Processor, StatOnce, StartProcessor, TakeTick, FetchOldest, CheckAge,
         NothingToReport, TakeStat, ReadParams, SendReport, store
    <3> QED BY <3>1, <3>2, StepsByActor, ClientFrame, TimeFrame DEF store
  <2> QED BY <2>1, <2>2, <2>3, <2>4
<1> QED BY <1>1, <1>2, <1>3

LEMMA HeldStep ==
  ASSUME MarkInv, RefInv', [Next]_vars
  PROVE  BucketIsHeld'
<1>0. TypeInv /\ StoreType /\ KeysMatch /\ BucketIsHeld /\ TypeInv'
  BY DEF MarkInv, RefInv, TypeInv, TypeOK
<1>1. /\ lastID \in Nat /\ lastID' \in Nat /\ lastID <= lastID'
      /\ \A k \in DOMAIN bmap : k > lastID => k \in DOMAIN bmap' /\ bmap'[k] = bmap[k]
      /\ \A i \in Refs : heap'[i].id = heap[i].id /\ heap[i].id \in Nat
  <2>1. \A i \in Refs : heap[i].id \in Nat
    BY <1>0, ObjectOf DEF BucketType, Windows
  <2> QED BY <1>0, <2>1, MapKept, StoreTypeStep
<1>2. proc.ref # Nil => proc.ref \in Refs
  BY <1>0, ProcessorRef
<1>3. ASSUME proc'.ref = proc.ref,
             proc'.pc \in {"params", "send", "remove"} => proc.pc \in {"params", "send", "remove"}
      PROVE  BucketIsHeld'
  <2>1. proc'.pc \in {"params", "send", "remove"} => proc.ref # Nil /\ heap[proc.ref].id <= lastID
    BY <1>0, <1>3 DEF BucketIsHeld, TypeInv, TypeOK, ProcType
  <2>2. proc'.pc \in {"params", "send", "remove"} => heap'[proc'.ref].id <= lastID'
    BY <1>1, <1>2, <1>3, <2>1
  <2>3. ASSUME proc'.ref # Nil, heap'[proc'.ref].id > lastID'
        PROVE  heap'[proc'.ref].id \in DOMAIN bmap' /\ bmap'[heap'[proc'.ref].id] = proc'.ref
    <3>1. PICK k : k = heap[proc.ref].id
      OBVIOUS
    <3>2. heap'[proc'.ref].id = k /\ k > lastID /\ proc.ref # Nil
      BY <1>1, <1>2, <1>3, <2>3, <3>1
    <3>3. k \in DOMAIN bmap /\ bmap[k] = proc.ref
      BY <1>0, <3>1, <3>2 DEF BucketIsHeld
    <3> QED BY <1>1, <1>3, <3>2, <3>3
  <2> QED BY <2>2, <2>3 DEF BucketIsHeld
<1>4. ASSUME proc'.ref = Nil, proc'.pc \notin {"params", "send", "remove"} PROVE BucketIsHeld'
  BY <1>4 DEF BucketIsHeld
<1>5. CASE FetchOldest
  <2>0. UNCHANGED <<bmap, heap, lastID>> /\ bmap \in [DOMAIN bmap -> Refs]
    BY <1>0, <1>5 DEF FetchOldest, store, StoreType
  <2>1. PICK r : r = Oldest(bmap, minID)
    OBVIOUS
  <2>2. proc'.ref = r /\ proc'.pc \in {"check", "loop"}
    BY <1>0, <1>5, <2>1 DEF FetchOldest, TypeInv, TypeOK, ProcType
  <2>3. r # Nil => minID \in DOMAIN bmap /\ bmap[minID] = r /\ heap[r].id = minID
    BY <1>0, <2>1 DEF Oldest, Lookup, KeysMatch
  <2> QED BY <2>0, <2>2, <2>3 DEF BucketIsHeld
<1>6. CASE TakeStat
  <2>1. /\ proc'.ref = proc.ref /\ proc.ref # Nil /\ lastID' = heap[proc.ref].id
        /\ heap' = heap
    BY <1>0, <1>6 DEF TakeStat, TypeInv, TypeOK, ProcType, store
  <2>2. heap'[proc'.ref].id = lastID'
    BY <2>1
  <2> QED BY <1>1, <2>2 DEF BucketIsHeld
<1>7. ASSUME Processor, ~ FetchOldest, ~ TakeStat PROVE BucketIsHeld'
  <2>1. CASE StartProcessor \/ TakeTick \/ NothingToReport \/ RemoveReported
    <3>1. proc'.ref = Nil /\ proc'.pc \notin {"params", "send", "remove"}
      BY <2>1 DEF StartProcessor, TakeTick, RunOnce, NothingToReport, RemoveReported, IdleProc
    <3> QED BY <1>4, <3>1
  <2>2. CASE DiscardStale \/ ReadParams \/ SendReport
    <3>1. /\ proc'.ref = proc.ref
          /\ proc'.pc \in {"params", "send", "remove"} => proc.pc \in {"params", "send", "remove"}
      BY <1>0, <2>2 DEF DiscardStale, ReadParams, SendReport, TypeInv, TypeOK, ProcType
    <3> QED BY <1>3, <3>1
  <2>3. CASE CheckAge
    <3>1. proc' = IdleProc \/ proc' = [proc EXCEPT !.pc = "loop"]
      BY <2>3 DEF CheckAge
    <3>2. CASE proc' = IdleProc
      BY <1>4, <3>2 DEF IdleProc
    <3>3. CASE proc' = [proc EXCEPT !.pc = "loop"]
      <4>1. proc'.ref = proc.ref /\ proc'.pc = "loop"
        BY <1>0, <3>3 DEF TypeInv, TypeOK, ProcType
      <4> QED BY <1>3, <4>1
    <3> QED BY <3>1, <3>2, <3>3
  <2> QED BY <1>7, <2>1, <2>2, <2>3 DEF Processor, StatOnce
<1>8. CASE proc' = proc
  BY <1>3, <1>8
<1> QED BY <1>5, <1>6, <1>7, <1>8, StepsByActor, ClientFrame, GoroutineFrame, TimeFrame

LEMMA MarkStep ==
  ASSUME MarkInv, RefInv', [Next]_vars
  PROVE  MarkInv'
<1>0. /\ RefInv /\ TypeInv /\ StoreType /\ KeysMatch /\ RequestsInWindow /\ CountedIsMarked
      /\ TypeInv'
  BY DEF MarkInv, RefInv, TypeInv, TypeOK
<1>1. BucketIsHeld'
  BY HeldStep
<1>2. RequestsInWindow'
  <2>1. ASSUME NEW i \in Refs', NEW s \in Seqs, heap'[i].requests[s] # "none"
        PROVE  s \in Made(heap[i].id)'
    <3>1. CASE i \in Refs /\ heap'[i].requests[s] = heap[i].requests[s]
      <4>1. PICK k : k = heap[i].id
        OBVIOUS
      <4>2. s \in Made(k)
        BY <1>0, <2>1, <3>1, <4>1 DEF RequestsInWindow
      <4>3. heap'[i].id = k
        BY <1>0, <3>1, <4>1, StoreTypeStep
      <4>4. s \in Made(k)'
        BY <1>0, <4>2, PacketsKept
      <4> QED BY <4>3, <4>4 DEF Made
    <3>2. ASSUME NEW p \in ServerPorts, srv[p].pc # "idle", s = srv[p].seq,
                 heap'[i].id = IDInHand(p)
          PROVE  s \in Made(heap[i].id)'
      <4>1. PICK k : k = IDInHand(p)
        OBVIOUS
      <4>2. s \in Made(k)
        BY <1>0, <3>2, <4>1, InHand DEF Made, IDInHand
      <4>3. s \in Made(k)'
        BY <1>0, <4>2, PacketsKept
      <4> QED BY <3>2, <4>1, <4>3 DEF Made
    <3> QED BY <1>0, <2>1, <3>1, <3>2, RequestEffect
  <2> QED BY <2>1 DEF RequestsInWindow
<1>3. CountedIsMarked'
  <2>1. ASSUME NEW s \in got', NEW k, k = IDOf(pkts'[s].ts), k > lastID'
        PROVE  k \in DOMAIN bmap' /\ heap'[bmap'[k]].requests[s] \in {"ack", "bare"}
    <3>1. CASE s \in got
      <4>1. s \in DOMAIN pkts /\ s \in Seqs
        BY <1>0, <3>1, MadeFacts DEF TypeInv, TypeOK, HistoryType, Made
      <4>2. IDOf(pkts[s].ts) = k /\ k \in Nat
        BY <1>0, <2>1, <4>1, PacketsKept, PacketFacts
      <4>3. /\ lastID \in Nat /\ lastID' \in Nat /\ lastID <= lastID'
            /\ \A j \in DOMAIN bmap : j > lastID => j \in DOMAIN bmap' /\ bmap'[j] = bmap[j]
        BY <1>0, MapKept
      <4>4. k > lastID
        BY <2>1, <4>2, <4>3
      <4>5. k \in DOMAIN bmap /\ heap[bmap[k]].requests[s] \in {"ack", "bare"}
        BY <1>0, <3>1, <4>2, <4>4 DEF CountedIsMarked
      <4>6. bmap[k] \in Refs /\ bmap[k] \in Refs' /\ k \in DOMAIN bmap' /\ bmap'[k] = bmap[k]
        BY <1>0, <4>3, <4>4, <4>5, StoreTypeStep DEF StoreType
      <4>7. heap'[bmap[k]].requests[s] \in {"ack", "bare"}
        BY <1>0, <4>1, <4>5, <4>6, RequestEffect
      <4> QED BY <4>6, <4>7
    <3>2. ASSUME NEW p \in ServerPorts, MarkReceived(p), s = srv[p].seq
          PROVE  k \in DOMAIN bmap' /\ heap'[bmap'[k]].requests[s] \in {"ack", "bare"}
      <4>1. PICK h : h = Inserted(IDInHand(p))
        OBVIOUS
      <4>2. /\ IDInHand(p) \in Windows /\ GetOrCreate(IDInHand(p)) /\ s \in Seqs
            /\ bmap'[IDInHand(p)] \in 1 .. Len(h) /\ h \in Seq(BucketType)
        BY <1>0, <3>2, <4>1, MarkEffect
      <4>3. srv[p].seq \in DOMAIN pkts /\ pkts' = pkts
        BY <1>0, <3>2, InHand DEF MarkReceived, client
      <4>4. k = IDInHand(p)
        BY <2>1, <3>2, <4>3 DEF IDInHand
      <4>5. k \in DOMAIN bmap'
        BY <1>0, <4>2, <4>4, CreateEffect
      <4>6. heap'[bmap'[k]].requests[s] = AfterReceived(h[bmap'[k]].requests[s])
        BY <1>0, <3>2, <4>1, <4>2, <4>4, MarkEffect
      <4>7. h[bmap'[k]] \in BucketType
        BY <4>2, <4>4, ElementOfSeq
      <4>8. h[bmap'[k]].requests[s] \in {"none", "unset", "ack", "bare"}
        BY <4>2, <4>7 DEF BucketType, RequestsType
      <4>9. AfterReceived(h[bmap'[k]].requests[s]) \in {"ack", "bare"}
        BY <4>8 DEF AfterReceived
      <4> QED BY <4>5, <4>6, <4>9
    <3>3. s \in got \/ \E p \in ServerPorts : MarkReceived(p) /\ s = srv[p].seq
      <4>1. ASSUME NEW p \in ServerPorts, Goroutine(p)
            PROVE  s \in got \/ (MarkReceived(p) /\ s = srv[p].seq)
        BY <2>1, <4>1, GoroutineSteps DEF ReadPacket, FindStat, RegisterStat, PutLookup, PutStore,
           MarkReceived, FindPrev, FixPrev
      <4> QED BY <2>1, <4>1, StepsByActor, ClientFrame, ProcessorFrame, TimeFrame
    <3> QED BY <3>1, <3>2, <3>3
  <2> QED BY <2>1 DEF CountedIsMarked
<1> QED BY <1>1, <1>2, <1>3 DEF MarkInv

LEMMA MarkInvariant == Spec => []MarkInv
<1>1. Init => RequestsInWindow /\ BucketIsHeld /\ CountedIsMarked
  <2>1. Init => /\ heap = << >> /\ got = {} /\ proc.ref = Nil /\ proc.pc = "sleep"
    BY DEF Init, IdleProc
  <2> QED BY <2>1 DEF RequestsInWindow, BucketIsHeld, CountedIsMarked, Refs
<1>2. Init /\ RefInv => MarkInv
  BY <1>1 DEF MarkInv
<1>3. MarkInv /\ RefInv' /\ [Next]_vars => MarkInv'
  BY MarkStep
<1> QED BY <1>2, <1>3, RefInvariant, PTL DEF Spec

(***************************************************************************)
(* The result of stat() for a window: its requests are probes of that      *)
(* window, those the server has counted are among the received ones, and   *)
(* its count is no larger than what the client made.                       *)
(***************************************************************************)
LEMMA StatTaken ==
  ASSUME ClientInv, ToldInv, MarkInv, TakeStat, NEW k, k = lastID', OneProcess(k)
  PROVE  /\ Requests({"ack", "bare"})' \subseteq Made(k)
         /\ Made(k) \cap got \subseteq Requests({"ack", "bare"})'
         /\ SentCount' \in Nat /\ SentCount' <= Cardinality(Made(k))
<1>0. /\ TypeInv /\ RequestsInWindow /\ BucketIsHeld /\ CountedIsMarked /\ ProbesTellTrue
      /\ lastID \in Nat
  BY DEF ClientInv, MarkInv, TypeInv, TypeOK, StoreType, Windows
<1>1. PICK b : b = heap[proc.ref]
  OBVIOUS
<1>2. proc.ref # Nil /\ b.id = k /\ k > lastID
  BY <1>1 DEF TakeStat
<1>3. proc.ref \in Refs /\ b \in BucketType
  BY <1>0, <1>1, <1>2, ProcessorRef
<1>4. proc'.res = [id |-> k, requests |-> b.requests, told |-> b.told]
  BY <1>0, <1>1, <1>2 DEF TakeStat, TypeInv, TypeOK, ProcType
<1>5. \A set : Requests(set)' = {s \in Seqs : b.requests[s] \in set}
  BY <1>4 DEF Requests
<1>6. k \in DOMAIN bmap /\ bmap[k] = proc.ref
  BY <1>0, <1>1, <1>2 DEF BucketIsHeld
<1>7. \A s \in Seqs : b.requests[s] # "none" => s \in Made(k)
  BY <1>0, <1>1, <1>2, <1>3 DEF RequestsInWindow
<1>8. Requests({"ack", "bare"})' \subseteq Made(k)
  BY <1>5, <1>7
<1>9. Made(k) \cap got \subseteq Requests({"ack", "bare"})'
  <2>1. ASSUME NEW s \in Made(k) \cap got PROVE s \in Requests({"ack", "bare"})'
    <3>1. s \in Seqs /\ IDOf(pkts[s].ts) = k
      BY <1>0, <2>1, MadeFacts DEF Made
    <3>2. b.requests[s] \in {"ack", "bare"}
      BY <1>0, <1>1, <1>2, <1>6, <2>1, <3>1 DEF CountedIsMarked
    <3> QED BY <1>5, <3>1, <3>2
  <2> QED BY <2>1
<1>10. PICK K : K = {s \in Seqs : b.requests[s] \in {"unset", "ack", "bare"}}
  OBVIOUS
<1>11. Requests({"unset", "ack", "bare"})' = K /\ K \subseteq Made(k)
  BY <1>5, <1>7, <1>10
<1>12. PICK n \in Nat : n = b.told.sent
  BY <1>3, Constants DEF BucketType, Told
<1>13. SentCount' = IF K = {} THEN 0 ELSE IF n > 0 THEN n ELSE Cardinality(K)
  BY <1>4, <1>11, <1>12 DEF SentCount
<1>14. /\ IsFiniteSet(Made(k)) /\ Cardinality(Made(k)) \in Nat
       /\ Cardinality(K) \in Nat /\ Cardinality(K) <= Cardinality(Made(k))
  <2>1. IsFiniteSet(Made(k)) /\ Cardinality(Made(k)) \in Nat
    BY <1>0, MadeFacts
  <2>2. IsFiniteSet(K) /\ Cardinality(K) <= Cardinality(Made(k))
    BY <1>11, <2>1, FS_Subset
  <2> QED BY <2>1, <2>2, FS_CardinalityType
<1>15. n > 0 => n = Cardinality(Made(k))
  <2>1. SUFFICES ASSUME n > 0 PROVE n = Cardinality(Made(k))
    OBVIOUS
  <2>2. Made(k) # {} /\ \E s \in Made(k + 1) : pkts[s].last.sent = n
    BY <1>1, <1>2, <1>3, <1>12, <2>1 DEF ToldInv, Learned
  <2>3. PICK s \in Made(k + 1) : pkts[s].last.sent = n
    BY <2>2
  <2>4. s \in DOMAIN pkts /\ IDOf(pkts[s].ts) - 1 = k
    BY <1>2, <1>3, <2>3 DEF Made, BucketType, Windows
  <2> QED BY <1>0, <2>2, <2>3, <2>4 DEF ProbesTellTrue
<1> QED BY <1>8, <1>9, <1>13, <1>14, <1>15

(***************************************************************************)
(* The server never declares more probes of a window lost than there are   *)
(* probes it has not finished processing: statOnce may cut a window short, *)
(* but it invents no loss.                                                 *)
(***************************************************************************)
THEOREM NoLossIsInvented == Spec => LossIsReal
<1> DEFINE A == TakeStat /\ OneProcess(lastID') =>
                  LossCount' <= Cardinality(Made(lastID') \ got)
<1>1. ASSUME ClientInv, ToldInv, MarkInv, TakeStat, OneProcess(lastID')
      PROVE  LossCount' <= Cardinality(Made(lastID') \ got)
  <2>1. PICK k : k = lastID'
    OBVIOUS
  <2>2. PICK G : G = Requests({"ack", "bare"})'
    OBVIOUS
  <2>3. PICK n : n = SentCount'
    OBVIOUS
  <2>4. /\ G \subseteq Made(k) /\ Made(k) \cap got \subseteq G
        /\ n \in Nat /\ n <= Cardinality(Made(k))
    BY <1>1, <2>1, <2>2, <2>3, StatTaken
  <2>5. IsFiniteSet(Made(k)) /\ Cardinality(Made(k)) \in Nat
    BY <1>1, MadeFacts DEF ClientInv
  <2>6. /\ IsFiniteSet(Made(k) \ G) /\ IsFiniteSet(Made(k) \ got)
        /\ Cardinality(Made(k) \ G) = Cardinality(Made(k)) - Cardinality(G)
    <3>1. Made(k) \cap G = G
      BY <2>4
    <3> QED BY <2>5, <3>1, FS_Difference
  <2>7. Cardinality(Made(k) \ G) <= Cardinality(Made(k) \ got)
    <3>1. Made(k) \ G \subseteq Made(k) \ got
      BY <2>4
    <3> QED BY <2>6, <3>1, FS_Subset
  <2>8. /\ Cardinality(G) \in Nat /\ Cardinality(Made(k) \ got) \in Nat
        /\ Cardinality(Made(k) \ G) \in Nat
    BY <2>4, <2>5, <2>6, FS_Subset, FS_CardinalityType
  <2>9. LossCount' = IF n > Cardinality(G) THEN n - Cardinality(G) ELSE 0
    BY <2>2, <2>3 DEF LossCount, ReceivedCount
  <2>10. LossCount' <= Cardinality(Made(k) \ got)
    BY <2>4, <2>5, <2>6, <2>7, <2>8, <2>9
  <2> QED BY <2>1, <2>10
<1>2. ClientInv /\ ToldInv /\ MarkInv => [A]_vars
  BY <1>1
<1> QED BY <1>2, ToldInvariant, ClientInvariant, MarkInvariant, PTL DEF Spec, LossIsReal
=============================================================================
