---------------------------- MODULE SonarServer ----------------------------
(***************************************************************************)
(* One-way loss detection of sonar: a client that stamps every probe with  *)
(* the send count and the starting ports of its previous window, a network *)
(* that loses, duplicates and reorders, and the server, which files each   *)
(* probe under the client's send time, fixes the send count of the window  *)
(* before it, and reports the loss and the lost port pairs.                *)
(*                                                                         *)
(* The server runs one goroutine per port; one action is one critical      *)
(* section.  The client's own statistics are the subject of Stat.          *)
(***************************************************************************)
EXTENDS Buckets, Ports, FiniteSets

CONSTANTS
  ClientRange, ServerRange,   \* the port ranges, the same on both sides
  RateInSpan,                 \* conf.RateInSpan
  Span, Delay,                \* length of a window and conf.Delay
  Warmup,                     \* the client's sleep before its send loop
  V6,                         \* TRUE: sonar6
  Preconfigured,              \* TRUE: the client is one of conf.ClientAddrs
  Start,                      \* the wall clock when the programs start
  LastSend,                   \* bound: no probe is sent after this time
  MaxTime,                    \* bound: the clock stops here
  MaxProbes,                  \* bound: probes the client sends
  MaxCopies,                  \* bound: copies of a probe that arrive (0: lost)
  MaxRestarts                 \* bound: times the client is restarted

ASSUME SonarConstants ==
  /\ ClientRange \in PortRange /\ ServerRange \in PortRange
  /\ RateInSpan \in Nat \ {0}
  /\ Span \in Nat \ {0} /\ Delay \in Nat /\ Warmup \in Nat
  /\ V6 \in BOOLEAN /\ Preconfigured \in BOOLEAN
  /\ Start \in Nat /\ Start >= 2 * Span /\ Start >= Delay
  /\ LastSend \in Nat
  /\ MaxTime \in Nat /\ MaxTime >= Start
  /\ MaxProbes \in Nat /\ MaxCopies \in Nat /\ MaxRestarts \in Nat

VARIABLES
  now,          \* time.Now(), on both machines
  cli,          \* the client's ports and the counts of its windows
  restarts,     \* how often the client was restarted
  pkts,         \* the probes made, in order: the index is the sequence number;
                \* run tells which start of the client made it
  wire,         \* per probe: copies still in the network
  registered,   \* udpStats the server has made for the client
  bmap, minID, heap,   \* the buckets of the client's udpStat
  lastID,       \* udpStat.lastID
  srv,          \* per server port: next step, probe in hand, *bucket found
  proc,         \* the Processor: next step, *bucket in hand, the result so far
  ticker,       \* time.Ticker: when it fires next, ticks in its channel
  reports,      \* the StatResults sent, in order
  got           \* history: probes whose receivedAndFix has counted them

store == <<bmap, minID, heap>>
client == <<cli, restarts, pkts>>
vars == <<now, client, wire, registered, store, lastID, srv, proc, ticker,
          reports, got>>

Seqs == 1 .. MaxProbes
ServerPorts == ServerRange.min .. ServerRange.max
IDOf(ts) == ts \div Span
NoPorts == <<0, 0>>

-----------------------------------------------------------------------------
(* the client                                                              *)

(***************************************************************************)
(* A client that sends from the given time on.  The ports start at the     *)
(* minimum; the window before the first one counts as a full one that      *)
(* began there.                                                            *)
(***************************************************************************)
FreshClient(ready) ==
  LET min == <<ClientRange.min, ServerRange.min>>
  IN  [ready |-> ready, ports |-> min, id |-> 0,
       cur  |-> [sent |-> RateInSpan, start |-> min],
       last |-> [sent |-> 0, start |-> NoPorts]]

\* Variant: the count of a window starts at zero.
AccountedFromZero(c, id) ==
  LET next == GetNextPorts(c.ports[1], c.ports[2], ClientRange, ServerRange)
  IN  IF id # c.id
      THEN [c EXCEPT !.ports = next, !.id = id, !.last = c.cur,
                     !.cur = [sent |-> 0, start |-> next]]
      ELSE [c EXCEPT !.ports = next, !.cur.sent = @ + 1]

(***************************************************************************)
(* One turn of the send loop for the peer: the next pair of ports, and a   *)
(* new window when the clock has passed into one.                          *)
(***************************************************************************)
Accounted(c, id) ==
  LET next == GetNextPorts(c.ports[1], c.ports[2], ClientRange, ServerRange)
  IN  IF id # c.id
      THEN [c EXCEPT !.ports = next, !.id = id, !.last = c.cur,
                     !.cur = [sent |-> 1, start |-> next]]
      ELSE [c EXCEPT !.ports = next, !.cur.sent = @ + 1]

(***************************************************************************)
(* The probe goes out; the network will deliver some copies of it.  A send *)
(* that fails, in the encoder or in WriteTo, delivers none.                *)
(***************************************************************************)
SendProbe(copies) ==
  /\ cli.ready <= now /\ now <= LastSend /\ Len(pkts) < MaxProbes
  /\ cli' = Accounted(cli, IDOf(now))
  /\ pkts' = Append(pkts, [ts |-> now, ports |-> cli'.ports,
                           last |-> cli'.last, run |-> restarts])
  /\ wire' = Append(wire, copies)
  /\ UNCHANGED <<now, restarts, registered, store, lastID, srv, proc, ticker,
                 reports, got>>

(***************************************************************************)
(* The client is stopped and started again; its sequence numbers go on     *)
(* from a new random one, so they never collide.  Restarts after which the *)
(* bounds leave nothing to send are left out.                              *)
(***************************************************************************)
RestartClient ==
  /\ restarts < MaxRestarts /\ cli.id # 0
  /\ now + Warmup <= LastSend /\ Len(pkts) < MaxProbes
  /\ restarts' = restarts + 1
  /\ cli' = FreshClient(now + Warmup)
  /\ UNCHANGED <<now, pkts, wire, registered, store, lastID, srv, proc, ticker,
                 reports, got>>

-----------------------------------------------------------------------------
(* the server's goroutines, one per port                                   *)

(***************************************************************************)
(* A bucket.  told is packetCount with the starting ports once they are    *)
(* fixed; told.sent = 0 stands for ~packetCountFixed, because a count of   *)
(* zero is never applied.  A request is "unset" (put, not yet received),   *)
(* "ack" (both) or "bare" (received, without ports).                       *)
(***************************************************************************)
NotTold == [sent |-> 0, start |-> NoPorts]

NewBucket(id) ==
  [id |-> id, requests |-> [s \in Seqs |-> "none"], fixed |-> FALSE,
   told |-> NotTold]

Inserted(id) == IF id \in DOMAIN bmap THEN heap ELSE Append(heap, NewBucket(id))

GetOrCreate(id) ==
  IF id \in DOMAIN bmap THEN UNCHANGED <<bmap, minID>>
  ELSE /\ bmap' = Insert(bmap, id, Len(heap) + 1)
       /\ minID' = MinAfterInsert(minID, id)

\* Variant: put always writes a new request.
AfterPutReset(status) == "unset"

(***************************************************************************)
(* bucket.put completes a request that is there, bucket.received marks it. *)
(***************************************************************************)
AfterPut(status) ==
  CASE status = "none" -> "unset" [] status = "bare" -> "ack" [] OTHER -> status

AfterReceived(status) ==
  CASE status = "none" -> "bare" [] status = "unset" -> "ack" [] OTHER -> status

IdleServer == [pc |-> "idle", seq |-> 0, ref |-> Nil]

IDInHand(p) == IDOf(pkts[srv[p].seq].ts)

(***************************************************************************)
(* readPackets(p) reads a valid probe and echoes it.                       *)
(***************************************************************************)
ReadPacket(p, s) ==
  /\ srv[p].pc = "idle"
  /\ wire[s] > 0 /\ pkts[s].ports[2] = p
  /\ wire' = [wire EXCEPT ![s] = @ - 1]
  /\ srv' = [srv EXCEPT ![p] = [pc |-> "stat", seq |-> s, ref |-> Nil]]
  /\ UNCHANGED <<now, client, registered, store, lastID, proc, ticker, reports,
                 got>>

(***************************************************************************)
(* getOrCreateStat: a look under the read lock ...                         *)
(***************************************************************************)
FindStat(p) ==
  /\ srv[p].pc = "stat"
  /\ srv' = [srv EXCEPT ![p].pc = IF registered > 0 THEN "lookup"
                                                    ELSE "register"]
  /\ UNCHANGED <<now, client, wire, registered, store, lastID, proc, ticker,
                 reports, got>>

\* Variant: no second look under the write lock.
RegisterAlways(p) ==
  /\ srv[p].pc = "register"
  /\ registered' = registered + 1
  /\ srv' = [srv EXCEPT ![p].pc = "lookup"]
  /\ UNCHANGED <<now, client, wire, store, lastID, proc, ticker, reports, got>>

(***************************************************************************)
(* ... and a second one under the write lock before the udpStat is made    *)
(* and handed to the Processor.                                            *)
(***************************************************************************)
RegisterStat(p) ==
  /\ srv[p].pc = "register"
  /\ registered' = IF registered > 0 THEN registered ELSE registered + 1
  /\ srv' = [srv EXCEPT ![p].pc = "lookup"]
  /\ UNCHANGED <<now, client, wire, store, lastID, proc, ticker, reports, got>>

\* Variant: the bucket made under the lock is not assigned to b.
PutLookupUnassigned(p) ==
  /\ srv[p].pc = "lookup"
  /\ heap' = Inserted(IDInHand(p))
  /\ GetOrCreate(IDInHand(p))
  /\ srv' = [srv EXCEPT ![p].pc = "store", ![p].ref = Lookup(bmap, IDInHand(p))]
  /\ UNCHANGED <<now, client, wire, registered, lastID, proc, ticker, reports,
                 got>>

(***************************************************************************)
(* buckets.put: get or create under the map's lock, store under the        *)
(* bucket's.                                                               *)
(***************************************************************************)
PutLookup(p) ==
  /\ srv[p].pc = "lookup"
  /\ heap' = Inserted(IDInHand(p))
  /\ GetOrCreate(IDInHand(p))
  /\ srv' = [srv EXCEPT ![p].pc = "store", ![p].ref = bmap'[IDInHand(p)]]
  /\ UNCHANGED <<now, client, wire, registered, lastID, proc, ticker, reports,
                 got>>

PutStore(p) ==
  /\ srv[p].pc = "store"
  /\ heap' = [heap EXCEPT ![srv[p].ref].requests[srv[p].seq] = AfterPut(@)]
  /\ srv' = [srv EXCEPT ![p].pc = "receive", ![p].ref = Nil]
  /\ UNCHANGED <<now, client, wire, registered, bmap, minID, lastID, proc,
                 ticker, reports, got>>

(***************************************************************************)
(* receivedAndFix, first section: get or create, mark the request, and     *)
(* find out whether this is the first probe of the window.                 *)
(***************************************************************************)
MarkReceived(p) ==
  LET id == IDInHand(p)
      base == Inserted(id)
      b == base[bmap'[id]]
  IN  /\ srv[p].pc = "receive"
      /\ GetOrCreate(id)
      /\ heap' = [base EXCEPT ![bmap'[id]] =
                    [b EXCEPT !.requests[srv[p].seq] = AfterReceived(@),
                              !.fixed = TRUE]]
      /\ srv' = [srv EXCEPT ![p] =
                   IF ~b.fixed /\ pkts[srv[p].seq].last.sent > 0
                   THEN [@ EXCEPT !.pc = "prev"] ELSE IdleServer]
      /\ got' = got \cup {srv[p].seq}
      /\ UNCHANGED <<now, client, wire, registered, lastID, proc, ticker,
                     reports>>

\* Variant: the count is applied to the probe's own window.
FindPrevSame(p) ==
  /\ srv[p].pc = "prev"
  /\ LET ref == Lookup(bmap, IDInHand(p))
     IN  srv' = [srv EXCEPT ![p] = IF ref = Nil THEN IdleServer
                                   ELSE [@ EXCEPT !.pc = "fix", !.ref = ref]]
  /\ UNCHANGED <<now, client, wire, registered, store, lastID, proc, ticker,
                 reports, got>>

(***************************************************************************)
(* Second section: the bucket of the window before, if there is one ...    *)
(***************************************************************************)
FindPrev(p) ==
  /\ srv[p].pc = "prev"
  /\ LET ref == Lookup(bmap, IDInHand(p) - 1)
     IN  srv' = [srv EXCEPT ![p] = IF ref = Nil THEN IdleServer
                                   ELSE [@ EXCEPT !.pc = "fix", !.ref = ref]]
  /\ UNCHANGED <<now, client, wire, registered, store, lastID, proc, ticker,
                 reports, got>>

(***************************************************************************)
(* ... and third: its count and starting ports are those the probe tells.  *)
(***************************************************************************)
FixPrev(p) ==
  /\ srv[p].pc = "fix"
  /\ heap' = [heap EXCEPT ![srv[p].ref].told = pkts[srv[p].seq].last]
  /\ srv' = [srv EXCEPT ![p] = IdleServer]
  /\ UNCHANGED <<now, client, wire, registered, bmap, minID, lastID, proc,
                 ticker, reports, got>>

-----------------------------------------------------------------------------
(* the Processor and statOnce on the server side                           *)

NoResult == [id |-> 0, requests |-> [s \in Seqs |-> "none"], told |-> NotTold]
IdleProc == [pc |-> "wait", ref |-> Nil, res |-> NoResult, told |-> NotTold]

(***************************************************************************)
(* runOnce calls statOnce of every udpStat there is.                       *)
(***************************************************************************)
RunOnce ==
  proc' = [IdleProc EXCEPT !.pc = IF registered > 0 THEN "oldest" ELSE "wait"]

Requests(set) == {s \in Seqs : proc.res.requests[s] \in set}

(***************************************************************************)
(* Processor.Run sleeps for the delay, starts the ticker and makes a first *)
(* call of runOnce ...                                                     *)
(***************************************************************************)
StartProcessor ==
  /\ proc.pc = "sleep" /\ now >= Start + Delay
  /\ ticker' = [ticker EXCEPT !.next = now + Span]
  /\ RunOnce
  /\ UNCHANGED <<now, client, wire, registered, store, lastID, srv, reports,
                 got>>

(***************************************************************************)
(* ... and every tick starts another.                                      *)
(***************************************************************************)
TakeTick ==
  /\ proc.pc = "wait" /\ ticker.ticks = 1
  /\ ticker' = [ticker EXCEPT !.ticks = 0]
  /\ RunOnce
  /\ UNCHANGED <<now, client, wire, registered, store, lastID, srv, reports,
                 got>>

FetchOldest ==
  /\ proc.pc \in {"oldest", "reload"}
  /\ proc' = [proc EXCEPT !.pc = IF @ = "oldest" THEN "check" ELSE "loop",
                          !.ref = Oldest(bmap, minID)]
  /\ UNCHANGED <<now, client, wire, registered, store, lastID, srv, ticker,
                 reports, got>>

TooYoung(id) == lastID > 0 /\ id > 0 /\ IDOf(now - Delay) < id

CheckAge ==
  /\ proc.pc = "check"
  /\ proc' = IF proc.ref # Nil /\ TooYoung(heap[proc.ref].id)
             THEN IdleProc ELSE [proc EXCEPT !.pc = "loop"]
  /\ UNCHANGED <<now, client, wire, registered, store, lastID, srv, ticker,
                 reports, got>>

Remove(id) ==
  /\ bmap' = Without(bmap, id)
  /\ minID' = MinAfterRemove(bmap, minID, id)
  /\ UNCHANGED heap

NothingToReport ==
  /\ proc.pc = "loop" /\ proc.ref = Nil
  /\ proc' = IdleProc
  /\ UNCHANGED <<now, client, wire, registered, store, lastID, srv, ticker,
                 reports, got>>

DiscardStale ==
  /\ proc.pc = "loop" /\ proc.ref # Nil /\ heap[proc.ref].id <= lastID
  /\ Remove(heap[proc.ref].id)
  /\ proc' = [proc EXCEPT !.pc = "reload"]
  /\ UNCHANGED <<now, client, wire, registered, lastID, srv, ticker, reports,
                 got>>

(***************************************************************************)
(* b.stat(): the requests and the count as one read lock sees them.        *)
(***************************************************************************)
TakeStat ==
  LET b == heap[proc.ref]
  IN  /\ proc.pc = "loop" /\ proc.ref # Nil /\ b.id > lastID
      /\ lastID' = b.id
      /\ proc' = [proc EXCEPT !.pc = "params",
                              !.res = [id |-> b.id, requests |-> b.requests,
                                       told |-> b.told]]
      /\ UNCHANGED <<now, client, wire, registered, store, srv, ticker,
                     reports, got>>

(***************************************************************************)
(* computeServerLossPorts reads the count and the starting ports under a   *)
(* read lock of its own ...                                                *)
(***************************************************************************)
ReadParams ==
  /\ proc.pc = "params"
  /\ proc' = [proc EXCEPT !.pc = "send", !.told = heap[proc.ref].told]
  /\ UNCHANGED <<now, client, wire, registered, store, lastID, srv, ticker,
                 reports, got>>

\* The n-th pair after start.
Replayed(start) ==
  LET pair[n \in Nat] ==
        IF n = 0 THEN start
        ELSE LET before == pair[n - 1]
             IN  GetNextPorts(before[1], before[2], ClientRange, ServerRange)
  IN  pair

(***************************************************************************)
(* The pairs expected more often than received, with the difference.       *)
(***************************************************************************)
LossPorts(told, requests) ==
  LET pair == Replayed(told.start)
      expected(pp) == Cardinality({i \in 1 .. told.sent : pair[i] = pp})
      received(pp) == Cardinality({s \in Seqs : requests[s] = "ack"
                                                /\ pkts[s].ports = pp})
      short == {pp \in Ports \X Ports : received(pp) < expected(pp)}
  IN  [pp \in short |-> expected(pp) - received(pp)]

(***************************************************************************)
(* serverStat: the client's count is the denominator once it is known,     *)
(* else the number of requests; an empty bucket counts nothing.            *)
(***************************************************************************)
SentCount ==
  IF Requests({"unset", "ack", "bare"}) = {} THEN 0
  ELSE IF proc.res.told.sent > 0 THEN proc.res.told.sent
  ELSE Cardinality(Requests({"unset", "ack", "bare"}))

ReceivedCount == Cardinality(Requests({"ack", "bare"}))

LossCount ==
  IF SentCount > ReceivedCount THEN SentCount - ReceivedCount ELSE 0

(***************************************************************************)
(* ... and the requests under another; then the result is sent.            *)
(***************************************************************************)
SendReport ==
  /\ proc.pc = "send"
  /\ reports' =
       Append(reports,
         [id |-> proc.res.id, fixed |-> proc.res.told.sent > 0,
          sent |-> SentCount, received |-> ReceivedCount, loss |-> LossCount,
          known |-> Requests({"unset", "ack", "bare"}),
          ports |-> IF proc.told.sent = 0 \/ proc.told.start = NoPorts THEN {}
                    ELSE DOMAIN LossPorts(proc.told, heap[proc.ref].requests)])
  /\ proc' = [proc EXCEPT !.pc = "remove"]
  /\ UNCHANGED <<now, client, wire, registered, store, lastID, srv, ticker, got>>

RemoveReported ==
  /\ proc.pc = "remove"
  /\ Remove(heap[proc.ref].id)
  /\ proc' = IdleProc
  /\ UNCHANGED <<now, client, wire, registered, lastID, srv, ticker, reports,
                 got>>

-----------------------------------------------------------------------------
(***************************************************************************)
(* The clock advances; the ticker's channel holds one tick.                *)
(***************************************************************************)
Tick ==
  /\ now < MaxTime
  /\ now' = now + 1
  /\ ticker' = IF proc.pc # "sleep" /\ ticker.next = now + 1
               THEN [next |-> now + 1 + Span, ticks |-> 1]
               ELSE ticker
  /\ UNCHANGED <<client, wire, registered, store, lastID, srv, proc, reports,
                 got>>

(***************************************************************************)
(* At the bound of the clock the ticker goes on firing.                    *)
(***************************************************************************)
LateTick ==
  /\ now = MaxTime /\ proc.pc # "sleep" /\ ticker.ticks = 0
  /\ ticker' = [ticker EXCEPT !.ticks = 1]
  /\ UNCHANGED <<now, client, wire, registered, store, lastID, srv, proc,
                 reports, got>>

(***************************************************************************)
(* udpStats made for the clients of the configuration.  sonar6 files them  *)
(* under the canonical form of the address, sonar as it is written.  For a *)
(* local address that cannot be parsed sonar6 makes no server, and the     *)
(* program ends there (cmd/bitflip6/main.go:145): Init is past that point. *)
(***************************************************************************)
New == IF Preconfigured THEN 1 ELSE 0

New6 == New

Init ==
  /\ now = Start
  /\ cli = FreshClient(Start) /\ restarts = 0 /\ pkts = << >> /\ wire = << >>
  /\ registered = IF V6 THEN New6 ELSE New
  /\ bmap = [id \in {} |-> Nil] /\ minID = NoMin /\ heap = << >>
  /\ lastID = 0
  /\ srv = [p \in ServerPorts |-> IdleServer]
  /\ proc = [IdleProc EXCEPT !.pc = "sleep"]
  /\ ticker = [next |-> 0, ticks |-> 0] /\ reports = << >> /\ got = {}

Client ==
  \/ \E copies \in 0 .. MaxCopies : SendProbe(copies)
  \/ RestartClient

readPackets(p) == \E s \in DOMAIN wire : ReadPacket(p, s)
readPackets6(p) == readPackets(p)

getOrCreateStat(p) == FindStat(p) \/ RegisterStat(p)
getOrCreateStat6(p) == getOrCreateStat(p)

Goroutine(p) ==
  \/ ~ V6 /\ (readPackets(p) \/ getOrCreateStat(p))
  \/ V6 /\ (readPackets6(p) \/ getOrCreateStat6(p))
  \/ PutLookup(p) \/ PutStore(p) \/ MarkReceived(p) \/ FindPrev(p)
  \/ FixPrev(p)

StatOnce ==
  \/ FetchOldest \/ CheckAge \/ NothingToReport \/ DiscardStale
  \/ TakeStat \/ ReadParams \/ SendReport \/ RemoveReported

Next ==
  \/ Client
  \/ \E p \in ServerPorts : Goroutine(p)
  \/ StartProcessor \/ TakeTick \/ StatOnce
  \/ Tick \/ LateTick

Spec == Init /\ [][Next]_vars

-----------------------------------------------------------------------------
(* properties                                                              *)

Windows == 0 .. IDOf(MaxTime)
Refs == 1 .. Len(heap)
Told == [sent : 0 .. MaxProbes + RateInSpan, start : Ports \X Ports]
RequestsType == [Seqs -> {"none", "unset", "ack", "bare"}]

ClientType ==
  /\ cli \in [ready : Nat, ports : Ports \X Ports, id : Windows,
              cur : Told, last : Told]
  /\ restarts \in 0 .. MaxRestarts
  /\ pkts \in Seq([ts : Start .. MaxTime, ports : Ports \X Ports, last : Told,
                   run : 0 .. MaxRestarts])
  /\ wire \in Seq(0 .. MaxCopies) /\ Len(wire) = Len(pkts)

StoreType ==
  /\ heap \in Seq([id : Windows, requests : RequestsType, fixed : BOOLEAN,
                   told : Told])
  /\ DOMAIN bmap \subseteq Windows /\ bmap \in [DOMAIN bmap -> Refs]
  /\ minID \in Windows \cup {NoMin} /\ lastID \in Windows

GoroutineType ==
  /\ registered \in Nat
  /\ srv \in [ServerPorts ->
               [pc : {"idle", "stat", "register", "lookup", "store", "receive",
                      "prev", "fix"},
                seq : 0 .. Len(pkts), ref : Refs \cup {Nil}]]
  /\ \A p \in ServerPorts :
       /\ srv[p].pc # "idle" => srv[p].seq # 0
       /\ srv[p].pc \in {"store", "fix"} => srv[p].ref # Nil

ProcType ==
  /\ proc \in [pc : {"sleep", "wait", "oldest", "check", "loop", "reload",
                     "params", "send", "remove"},
               ref : Refs \cup {Nil},
               res : [id : Windows, requests : RequestsType, told : Told],
               told : Told]
  /\ proc.pc \in {"params", "send", "remove"} => proc.ref # Nil

ClockType ==
  now \in Start .. MaxTime /\ ticker \in [next : Nat, ticks : 0 .. 1]

HistoryType ==
  /\ reports \in Seq([id : Windows, fixed : BOOLEAN, sent : Nat,
                      received : Nat, loss : Nat, known : SUBSET Seqs,
                      ports : SUBSET (Ports \X Ports)])
  /\ got \subseteq DOMAIN pkts

(***************************************************************************)
(* Types.  The goroutines of the server use a *bucket only after they have *)
(* found or made it.                                                       *)
(***************************************************************************)
TypeOK ==
  /\ ClientType /\ StoreType /\ GoroutineType
  /\ ProcType /\ ClockType /\ HistoryType

(***************************************************************************)
(* The probes the client made in a window, and whether one process made    *)
(* all of that window's and of the next one's: a restarted client knows    *)
(* nothing of what the process before it sent.                             *)
(***************************************************************************)
Made(k) == {s \in DOMAIN pkts : IDOf(pkts[s].ts) = k}

OneProcess(k) ==
  \A s, t \in Made(k) \cup Made(k + 1) : pkts[s].run = pkts[t].run

(***************************************************************************)
(* The denominator of the server's loss rate is the number of probes the   *)
(* client made in that window, although it travels in the probes of the    *)
(* next one, which may come late, reordered or twice, on several ports.    *)
(* Failed sends count as made (client.go:229 is not undone).               *)
(***************************************************************************)
FixedCountIsTrue ==
  \A i \in DOMAIN reports :
    reports[i].fixed /\ reports[i].known # {} /\ OneProcess(reports[i].id) =>
      reports[i].sent = Cardinality(Made(reports[i].id))

(***************************************************************************)
(* The server never reports more loss than there are probes of the window  *)
(* it has not finished processing.                                         *)
(***************************************************************************)
LossIsReal ==
  [][TakeStat /\ OneProcess(lastID') =>
       LossCount' <= Cardinality(Made(lastID') \ got)]_vars

(***************************************************************************)
(* Goroutines of two ports that meet the same unknown client make one      *)
(* udpStat between them, so its probes are not split over two.             *)
(***************************************************************************)
OneStatPerClient == registered <= 1

(***************************************************************************)
(* "the server can reconstruct every port pair from the previous span"     *)
(* (README.md:147): a window whose probes were all received has no loss    *)
(* ports.                                                                  *)
(***************************************************************************)
NoLossNoPorts ==
  \A i \in DOMAIN reports :
    reports[i].fixed /\ Made(reports[i].id) = reports[i].known
      /\ reports[i].loss = 0
      => reports[i].ports = {}

=============================================================================
