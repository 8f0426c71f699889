-------------------------------- MODULE Stat --------------------------------
(***************************************************************************)
(* One udpStat of the package stat and everything that touches it: the     *)
(* probe writer (Put, Delete), the goroutines that read the answers        *)
(* (Received, ReceivedRST), the network between them, the clock, and the   *)
(* Processor that reports one window per tick and removes it (statOnce).   *)
(* One action is one critical section: what the code does between taking   *)
(* a lock and releasing it, so every interleaving of the goroutines is a   *)
(* behaviour.                                                              *)
(*                                                                         *)
(* The tools use the package in two ways.  sonar, sonar6, kuiniu and evr   *)
(* record a probe, send it, and file the answer under the send time it     *)
(* echoes.  lidar, ping and ping6 send first, record afterwards, and file  *)
(* the answer under the time it was received.  SendThenPut and KeyByRecv   *)
(* choose between them.                                                    *)
(***************************************************************************)
EXTENDS Buckets, FiniteSets

CONSTANTS
  Seqs,         \* sequence numbers of the probes of one peer
  NoSeq,        \* no probe in hand
  Readers,      \* goroutines that read answers
  Kinds,        \* the answers there are: "ack" (echo, SYN-ACK), "rst"
  Span,         \* length of a window, in clock units
  Delay,        \* conf.Delay
  SendThenPut,  \* TRUE: lidar, ping;  FALSE: sonar, kuiniu, evr
  KeyByRecv,    \* TRUE: lidar, ping;  FALSE: sonar, kuiniu, evr
  Start,        \* the wall clock when the program starts
  LastSend,     \* bound: no probe is begun after this time
  MaxTime,      \* bound: the clock stops here, the ticker does not
  MaxCopies     \* bound: copies of an answer the network delivers (0: lost)

(***************************************************************************)
(* The wall clock counts from 1970, so windows have positive IDs and the   *)
(* age check never looks before the epoch.                                 *)
(***************************************************************************)
ASSUME StatConstants ==
  /\ Span \in Nat \ {0}
  /\ Delay \in Nat
  /\ Start \in Nat /\ Start >= Span /\ Start >= Delay
  /\ LastSend \in Nat
  /\ MaxTime \in Nat /\ MaxTime >= Start
  /\ MaxCopies \in Nat
  /\ SendThenPut \in BOOLEAN /\ KeyByRecv \in BOOLEAN
  /\ NoSeq \notin Seqs
  /\ Kinds \subseteq {"ack", "rst"}

VARIABLES
  now,        \* time.Now()
  bmap,       \* buckets.buckets: window ID -> reference
  minID,      \* buckets.minID
  heap,       \* the bucket objects, live or dropped; a reference is an index
  lastID,     \* udpStat.lastID
  wr,         \* the writer: what it does next, its probe, send time, *bucket
  sentTs,     \* the send time of each probe (0: not sent yet)
  wire,       \* copies of the answer to each probe still in the network
  rd,         \* per reader: next step, answer in hand, the *buckets it found
  proc,       \* the Processor: next step, *bucket in hand, last stale ID dropped
  ticker,     \* time.Ticker: when it fires next, ticks in its channel (0, 1)
  reports,    \* the StatResults sent, in order
  hist        \* history: probes whose Put, whose Received has returned

store == <<bmap, minID, heap>>
vars == <<now, bmap, minID, heap, lastID, wr, sentTs, wire, rd, proc, ticker,
          reports, hist>>

Status == {"none", "unset", "ack", "rst"}   \* "none": no such request
IDOf(ts) == ts \div Span
Windows == 0 .. IDOf(MaxTime)

-----------------------------------------------------------------------------
(* bucket objects                                                          *)

NewBucket(id) == [id |-> id, requests |-> [s \in Seqs |-> "none"]]

\* Variant for validating the properties: the lookup before the insert is
\* forgotten, so a live bucket is replaced by an empty one.
GetOrCreateBlind(id) ==
  /\ heap' = Append(heap, NewBucket(id))
  /\ bmap' = Insert(bmap, id, Len(heap) + 1)
  /\ minID' = MinAfterInsert(minID, id)

(***************************************************************************)
(* The get-or-create section of put, received and receivedRST.             *)
(***************************************************************************)
GetOrCreate(id) ==
  IF id \in DOMAIN bmap
  THEN UNCHANGED store
  ELSE /\ heap' = Append(heap, NewBucket(id))
       /\ bmap' = Insert(bmap, id, Len(heap) + 1)
       /\ minID' = MinAfterInsert(minID, id)

(***************************************************************************)
(* buckets.remove.                                                         *)
(***************************************************************************)
Remove(id) ==
  /\ bmap' = Without(bmap, id)
  /\ minID' = MinAfterRemove(bmap, minID, id)
  /\ UNCHANGED heap

Write(ref, s, status) == heap' = [heap EXCEPT ![ref].requests[s] = status]

Has(ref, s) == ref # Nil /\ heap[ref].requests[s] # "none"

(***************************************************************************)
(* bucket.put leaves an answer that came first in place.                   *)
(***************************************************************************)
AfterPut(status) == IF status = "none" THEN "unset" ELSE status

(***************************************************************************)
(* bucket.received and updateReceived set the RTT and leave isRst alone;   *)
(* the RST variants set both.                                              *)
(***************************************************************************)
AfterReceived(status, kind) ==
  IF kind = "rst" \/ status = "rst" THEN "rst" ELSE "ack"

-----------------------------------------------------------------------------
(* the writer: the send loop of a prober                                   *)

IdleWriter == [pc |-> "idle", seq |-> NoSeq, ts |-> 0, ref |-> Nil]

(***************************************************************************)
(* The loop takes the next sequence number and reads the clock.            *)
(***************************************************************************)
BeginProbe(s) ==
  /\ wr.pc = "idle" /\ sentTs[s] = 0 /\ now <= LastSend
  /\ wr' = [pc  |-> IF SendThenPut THEN "send" ELSE "lookup",
            seq |-> s, ts |-> now, ref |-> Nil]
  /\ sentTs' = [sentTs EXCEPT ![s] = now]
  /\ UNCHANGED <<now, store, lastID, wire, rd, proc, ticker, reports, hist>>

(***************************************************************************)
(* buckets.put, first half: the bucket of the send time, made if missing.  *)
(***************************************************************************)
PutLookup ==
  /\ wr.pc = "lookup"
  /\ GetOrCreate(IDOf(wr.ts))
  /\ wr' = [wr EXCEPT !.pc = "store", !.ref = bmap'[IDOf(wr.ts)]]
  /\ UNCHANGED <<now, lastID, sentTs, wire, rd, proc, ticker, reports, hist>>

(***************************************************************************)
(* bucket.put, on whatever object the first half found.                    *)
(***************************************************************************)
PutStore ==
  /\ wr.pc = "store"
  /\ Write(wr.ref, wr.seq, AfterPut(heap[wr.ref].requests[wr.seq]))
  /\ wr' = IF SendThenPut THEN IdleWriter
           ELSE [wr EXCEPT !.pc = "send", !.ref = Nil]
  /\ hist' = [hist EXCEPT !.put = @ \cup {wr.seq}]
  /\ UNCHANGED <<now, bmap, minID, lastID, sentTs, wire, rd, proc, ticker,
                 reports>>

(***************************************************************************)
(* WriteTo succeeds; the network will deliver some copies of the answer.   *)
(***************************************************************************)
SendOK(copies) ==
  /\ wr.pc = "send"
  /\ wire' = [wire EXCEPT ![wr.seq] = copies]
  /\ wr' = IF SendThenPut THEN [wr EXCEPT !.pc = "lookup"] ELSE IdleWriter
  /\ UNCHANGED <<now, store, lastID, sentTs, rd, proc, ticker, reports, hist>>

(***************************************************************************)
(* WriteTo fails: the record is deleted, or, where the probe is recorded   *)
(* after the send, never made.                                             *)
(***************************************************************************)
SendFails ==
  /\ wr.pc = "send"
  /\ wr' = IF SendThenPut THEN IdleWriter ELSE [wr EXCEPT !.pc = "delete"]
  /\ UNCHANGED <<now, store, lastID, sentTs, wire, rd, proc, ticker, reports,
                 hist>>

(***************************************************************************)
(* sonar only: SetDeadline fails and the loop goes on without a Delete.    *)
(***************************************************************************)
DeadlineFails ==
  /\ wr.pc = "send" /\ ~SendThenPut
  /\ wr' = IdleWriter
  /\ UNCHANGED <<now, store, lastID, sentTs, wire, rd, proc, ticker, reports,
                 hist>>

(***************************************************************************)
(* buckets.delete: look the bucket up, release the lock ...                *)
(***************************************************************************)
DeleteLookup ==
  /\ wr.pc = "delete"
  /\ LET ref == Lookup(bmap, IDOf(wr.ts))
     IN  wr' = IF ref = Nil THEN IdleWriter
               ELSE [wr EXCEPT !.pc = "erase", !.ref = ref]
  /\ UNCHANGED <<now, store, lastID, sentTs, wire, rd, proc, ticker, reports,
                 hist>>

(***************************************************************************)
(* ... and erase the request from the object found.                        *)
(***************************************************************************)
DeleteErase ==
  /\ wr.pc = "erase"
  /\ Write(wr.ref, wr.seq, "none")
  /\ hist' = [hist EXCEPT !.put = @ \ {wr.seq}]
  /\ wr' = IdleWriter
  /\ UNCHANGED <<now, bmap, minID, lastID, sentTs, wire, rd, proc, ticker,
                 reports>>

-----------------------------------------------------------------------------
(* the readers                                                             *)

IdleReader == [pc |-> "idle", seq |-> NoSeq, kind |-> "ack", id |-> 0,
               cur |-> Nil, prev |-> Nil, recorded |-> 0]

\* Variant: answers are always filed under the time they are read.
AnswerIDNow(s) == IDOf(now)

(***************************************************************************)
(* The window of an answer: that of the send time it echoes, or that of    *)
(* the time it was read.                                                   *)
(***************************************************************************)
AnswerID(s) == IDOf(IF KeyByRecv THEN now ELSE sentTs[s])

(***************************************************************************)
(* A reader takes an answer off its socket and computes its window.  The   *)
(* sockets split the local ports, so the answers to one probe all reach    *)
(* the same reader.                                                        *)
(***************************************************************************)
Receive(r, s, kind) ==
  /\ rd[r].pc = "idle" /\ wire[s] > 0
  /\ \A q \in Readers : rd[q].seq # s
  /\ wire' = [wire EXCEPT ![s] = @ - 1]
  /\ rd' = [rd EXCEPT ![r] =
              [pc |-> "find", seq |-> s, kind |-> kind,
               id |-> AnswerID(s),
               cur |-> Nil, prev |-> Nil,
               recorded |-> IF s \in hist.put THEN IDOf(sentTs[s]) ELSE 0]]
  /\ UNCHANGED <<now, store, lastID, wr, sentTs, proc, ticker, reports, hist>>

\* Variant: the window after the answer's is searched instead of the one before.
FindNext(r) ==
  /\ rd[r].pc = "find"
  /\ rd' = [rd EXCEPT ![r] = [@ EXCEPT !.pc = "update",
                                       !.cur = Lookup(bmap, rd[r].id),
                                       !.prev = Lookup(bmap, rd[r].id + 1)]]
  /\ UNCHANGED <<now, store, lastID, wr, sentTs, wire, proc, ticker, reports,
                 hist>>

(***************************************************************************)
(* received: both candidate buckets are fetched under the read lock.       *)
(***************************************************************************)
Find(r) ==
  /\ rd[r].pc = "find"
  /\ rd' = [rd EXCEPT ![r] = [@ EXCEPT !.pc = "update",
                                       !.cur = Lookup(bmap, rd[r].id),
                                       !.prev = Lookup(bmap, rd[r].id - 1)]]
  /\ UNCHANGED <<now, store, lastID, wr, sentTs, wire, proc, ticker, reports,
                 hist>>

(***************************************************************************)
(* The request is in the bucket ref: update it there and return.           *)
(***************************************************************************)
UpdateIn(r, ref) ==
  /\ Has(ref, rd[r].seq)
  /\ Write(ref, rd[r].seq,
           AfterReceived(heap[ref].requests[rd[r].seq], rd[r].kind))
  /\ hist' = [hist EXCEPT !.got = @ \cup {rd[r].seq}]
  /\ rd' = [rd EXCEPT ![r] = IdleReader]

(***************************************************************************)
(* The bucket of the answer's own window first ...                         *)
(***************************************************************************)
UpdateCur(r) ==
  /\ rd[r].pc = "update"
  /\ \/ UpdateIn(r, rd[r].cur)
     \/ /\ ~Has(rd[r].cur, rd[r].seq)
        /\ rd' = [rd EXCEPT ![r] = [@ EXCEPT !.pc = "updatePrev"]]
        /\ UNCHANGED <<heap, hist>>
  /\ UNCHANGED <<now, bmap, minID, lastID, wr, sentTs, wire, proc, ticker,
                 reports>>

(***************************************************************************)
(* ... then the window before it ...                                       *)
(***************************************************************************)
UpdatePrev(r) ==
  /\ rd[r].pc = "updatePrev"
  /\ \/ UpdateIn(r, rd[r].prev)
     \/ /\ ~Has(rd[r].prev, rd[r].seq)
        /\ rd' = [rd EXCEPT ![r] = [@ EXCEPT !.pc = "create"]]
        /\ UNCHANGED <<heap, hist>>
  /\ UNCHANGED <<now, bmap, minID, lastID, wr, sentTs, wire, proc, ticker,
                 reports>>

\* Variant: the bucket made under the lock is not assigned to b.
CreateUnassigned(r) ==
  /\ rd[r].pc = "create"
  /\ GetOrCreate(rd[r].id)
  /\ rd' = [rd EXCEPT ![r] = [@ EXCEPT !.pc = "insert"]]
  /\ UNCHANGED <<now, lastID, wr, sentTs, wire, proc, ticker, reports, hist>>

(***************************************************************************)
(* ... and if neither has it, a new entry in the answer's own window.      *)
(***************************************************************************)
CreateLookup(r) ==
  /\ rd[r].pc = "create"
  /\ GetOrCreate(rd[r].id)
  /\ rd' = [rd EXCEPT ![r] = [@ EXCEPT !.pc = "insert",
                                       !.cur = bmap'[rd[r].id]]]
  /\ UNCHANGED <<now, lastID, wr, sentTs, wire, proc, ticker, reports, hist>>

InsertReceived(r) ==
  /\ rd[r].pc = "insert"
  /\ Write(rd[r].cur, rd[r].seq,
           AfterReceived(heap[rd[r].cur].requests[rd[r].seq], rd[r].kind))
  /\ hist' = [hist EXCEPT !.got = @ \cup {rd[r].seq}]
  /\ rd' = [rd EXCEPT ![r] = IdleReader]
  /\ UNCHANGED <<now, bmap, minID, lastID, wr, sentTs, wire, proc, ticker,
                 reports>>

-----------------------------------------------------------------------------
(* the Processor and udpStat.statOnce                                      *)

IdleProc == [pc |-> "wait", ref |-> Nil, dropped |-> 0]

(***************************************************************************)
(* Processor.Run sleeps for the delay, starts the ticker and makes the     *)
(* first call of statOnce.                                                 *)
(***************************************************************************)
StartProcessor ==
  /\ proc.pc = "sleep" /\ now >= Start + Delay
  /\ ticker' = [ticker EXCEPT !.next = now + Span]
  /\ proc' = [IdleProc EXCEPT !.pc = "oldest"]
  /\ UNCHANGED <<now, store, lastID, wr, sentTs, wire, rd, reports, hist>>

(***************************************************************************)
(* A tick starts a call of statOnce.                                       *)
(***************************************************************************)
TakeTick ==
  /\ proc.pc = "wait" /\ ticker.ticks = 1
  /\ ticker' = [ticker EXCEPT !.ticks = 0]
  /\ proc' = [IdleProc EXCEPT !.pc = "oldest"]
  /\ UNCHANGED <<now, store, lastID, wr, sentTs, wire, rd, reports, hist>>

(***************************************************************************)
(* b := s.bkts.oldest()                                                    *)
(***************************************************************************)
FetchOldest ==
  /\ proc.pc = "oldest"
  /\ proc' = [proc EXCEPT !.pc = "check", !.ref = Oldest(bmap, minID)]
  /\ UNCHANGED <<now, store, lastID, wr, sentTs, wire, rd, ticker, reports,
                 hist>>

\* Variant: the delay check is off by one window.
TooYoungOff(id) == lastID > 0 /\ id > 0 /\ IDOf(now - Delay) < id - 1

(***************************************************************************)
(* The delay check.  The first call of all (lastID = 0) skips it.          *)
(***************************************************************************)
TooYoung(id) == lastID > 0 /\ id > 0 /\ IDOf(now - Delay) < id

CheckAge ==
  /\ proc.pc = "check"
  /\ proc' = IF proc.ref # Nil /\ TooYoung(heap[proc.ref].id)
             THEN IdleProc ELSE [proc EXCEPT !.pc = "loop"]
  /\ UNCHANGED <<now, store, lastID, wr, sentTs, wire, rd, ticker, reports,
                 hist>>

\* Variant: the window reported last does not count as reported.
StaleOff(id) == id < lastID

(***************************************************************************)
(* A window that was reported already, or was passed over by a report.     *)
(***************************************************************************)
Stale(id) == id <= lastID

NothingToReport ==
  /\ proc.pc = "loop" /\ proc.ref = Nil
  /\ proc' = IdleProc
  /\ UNCHANGED <<now, store, lastID, wr, sentTs, wire, rd, ticker, reports,
                 hist>>

(***************************************************************************)
(* The loop drops a window that was reported before and was made again by  *)
(* a late call ...                                                         *)
(***************************************************************************)
DiscardStale ==
  /\ proc.pc = "loop" /\ proc.ref # Nil /\ Stale(heap[proc.ref].id)
  /\ Remove(heap[proc.ref].id)
  /\ proc' = [proc EXCEPT !.pc = "reload", !.dropped = heap[proc.ref].id]
  /\ UNCHANGED <<now, lastID, wr, sentTs, wire, rd, ticker, reports, hist>>

(***************************************************************************)
(* ... and fetches the next oldest.                                        *)
(***************************************************************************)
ReloadOldest ==
  /\ proc.pc = "reload"
  /\ proc' = [proc EXCEPT !.pc = "loop", !.ref = Oldest(bmap, minID)]
  /\ UNCHANGED <<now, store, lastID, wr, sentTs, wire, rd, ticker, reports,
                 hist>>

(***************************************************************************)
(* bucket.stat, as the sets that the counts of a StatResult count.         *)
(***************************************************************************)
Counted(b, set) == {s \in Seqs : b.requests[s] \in set}

StatResult(b) ==
  [id        |-> b.id,
   sent      |-> Counted(b, {"unset", "ack", "rst"}),
   received  |-> Counted(b, {"ack", "rst"}),
   rst       |-> Counted(b, {"rst"}),
   at        |-> now,
   after     |-> lastID,
   dropped   |-> proc.dropped]

(***************************************************************************)
(* s.lastID = b.id, b.stat() under the bucket's read lock, Send.           *)
(***************************************************************************)
Report ==
  /\ proc.pc = "loop" /\ proc.ref # Nil /\ ~Stale(heap[proc.ref].id)
  /\ lastID' = heap[proc.ref].id
  /\ reports' = Append(reports, StatResult(heap[proc.ref]))
  /\ proc' = [proc EXCEPT !.pc = "remove"]
  /\ UNCHANGED <<now, store, wr, sentTs, wire, rd, ticker, hist>>

(***************************************************************************)
(* s.bkts.remove(b.id)                                                     *)
(***************************************************************************)
RemoveReported ==
  /\ proc.pc = "remove"
  /\ Remove(heap[proc.ref].id)
  /\ proc' = IdleProc
  /\ UNCHANGED <<now, lastID, wr, sentTs, wire, rd, ticker, reports, hist>>

-----------------------------------------------------------------------------
(* time                                                                    *)

(***************************************************************************)
(* The clock advances; a ticker whose period is over puts a tick in its    *)
(* channel, which holds one: a tick nobody took in time is dropped.        *)
(***************************************************************************)
Tick ==
  /\ now < MaxTime
  /\ now' = now + 1
  /\ ticker' = IF proc.pc # "sleep" /\ ticker.next = now + 1
               THEN [next |-> now + 1 + Span, ticks |-> 1]
               ELSE ticker
  /\ UNCHANGED <<store, lastID, wr, sentTs, wire, rd, proc, reports, hist>>

(***************************************************************************)
(* At the bound of the clock the ticker goes on firing.                    *)
(***************************************************************************)
LateTick ==
  /\ now = MaxTime /\ proc.pc # "sleep" /\ ticker.ticks = 0
  /\ ticker' = [ticker EXCEPT !.ticks = 1]
  /\ UNCHANGED <<now, store, lastID, wr, sentTs, wire, rd, proc, reports,
                 hist>>

-----------------------------------------------------------------------------
Init ==
  /\ now = Start
  /\ bmap = [id \in {} |-> Nil] /\ minID = NoMin /\ heap = << >>
  /\ lastID = 0
  /\ wr = IdleWriter
  /\ sentTs = [s \in Seqs |-> 0]
  /\ wire = [s \in Seqs |-> 0]
  /\ rd = [r \in Readers |-> IdleReader]
  /\ proc = [pc |-> "sleep", ref |-> Nil, dropped |-> 0]
  /\ ticker = [next |-> 0, ticks |-> 0]
  /\ reports = << >>
  /\ hist = [put |-> {}, got |-> {}]

Writer ==
  \/ \E s \in Seqs : BeginProbe(s)
  \/ PutLookup \/ PutStore
  \/ \E copies \in 0 .. MaxCopies : SendOK(copies)
  \/ SendFails \/ DeadlineFails
  \/ DeleteLookup \/ DeleteErase

Reader(r) ==
  \/ Find(r) \/ UpdateCur(r) \/ UpdatePrev(r)
  \/ CreateLookup(r) \/ InsertReceived(r)

StatOnce ==
  \/ FetchOldest \/ CheckAge \/ NothingToReport \/ DiscardStale
  \/ ReloadOldest \/ Report \/ RemoveReported

Processor == StartProcessor \/ TakeTick \/ StatOnce

Next ==
  \/ Writer
  \/ \E r \in Readers :
       \/ \E s \in Seqs, kind \in Kinds : Receive(r, s, kind)
       \/ Reader(r)
  \/ Processor
  \/ Tick \/ LateTick

Spec == Init /\ [][Next]_vars

(***************************************************************************)
(* The fairness of Go's scheduler and of the runtime's timers: a goroutine *)
(* that can run runs, the clock advances and the ticker fires.  Nothing is *)
(* assumed of the network or of the send loop.                             *)
(***************************************************************************)
FairSpec ==
  /\ Spec
  /\ WF_vars(Processor)
  /\ WF_vars(Tick \/ LateTick)
  /\ \A r \in Readers : WF_vars(Reader(r))

-----------------------------------------------------------------------------
(* properties                                                              *)

Refs == 1 .. Len(heap)

ReportType ==
  [id : Windows, sent : SUBSET Seqs, received : SUBSET Seqs,
   rst : SUBSET Seqs, at : Start .. MaxTime, after : Windows,
   dropped : Windows]

BucketType == [id : Windows, requests : [Seqs -> Status]]

StoreType ==
  /\ heap \in Seq(BucketType)
  /\ DOMAIN bmap \subseteq Windows /\ bmap \in [DOMAIN bmap -> Refs]
  /\ minID \in Windows \cup {NoMin}

WriterType ==
  /\ wr \in [pc : {"idle", "lookup", "store", "send", "delete", "erase"},
             seq : Seqs \cup {NoSeq}, ts : 0 .. MaxTime, ref : Refs \cup {Nil}]
  /\ wr.pc # "idle" => wr.seq \in Seqs
  /\ wr.pc \in {"store", "erase"} => wr.ref # Nil
  /\ sentTs \in [Seqs -> 0 .. MaxTime]

ReaderType ==
  /\ wire \in [Seqs -> 0 .. MaxCopies]
  /\ rd \in [Readers ->
               [pc : {"idle", "find", "update", "updatePrev", "create",
                      "insert"},
                seq : Seqs \cup {NoSeq}, kind : {"ack", "rst"}, id : Windows,
                cur : Refs \cup {Nil}, prev : Refs \cup {Nil},
                recorded : Windows]]
  /\ \A r \in Readers : /\ rd[r].pc # "idle" => rd[r].seq \in Seqs
                        /\ rd[r].pc = "insert" => rd[r].cur # Nil

ProcType ==
  /\ proc \in [pc : {"sleep", "wait", "oldest", "check", "loop", "reload",
                     "remove"},
               ref : Refs \cup {Nil}, dropped : Windows]
  /\ proc.pc = "remove" => proc.ref # Nil
  /\ lastID \in Windows

ClockType ==
  /\ now \in Start .. MaxTime
  /\ ticker \in [next : Nat, ticks : 0 .. 1]

HistoryType ==
  /\ reports \in Seq(ReportType)
  /\ hist \in [put : SUBSET Seqs, got : SUBSET Seqs]

(***************************************************************************)
(* Types.  The references that a goroutine holds always point to an object *)
(* that was made, and a Nil is held only where the code tests for it.      *)
(***************************************************************************)
TypeOK ==
  /\ StoreType /\ WriterType /\ ReaderType
  /\ ProcType /\ ClockType /\ HistoryType

(***************************************************************************)
(* buckets.minID is "smallest bucket ID currently stored" (bucket.go:32),  *)
(* through every interleaving of get-or-create and remove.  If it were not *)
(* a key of the map, oldest() would return nil and statOnce would report   *)
(* nothing for ever.                                                       *)
(***************************************************************************)
MinIDIsOldest ==
  IF DOMAIN bmap = {} THEN minID = NoMin
  ELSE minID \in DOMAIN bmap /\ \A j \in DOMAIN bmap : minID <= j

(***************************************************************************)
(* Every bucket in the map is filed under its own ID.                      *)
(***************************************************************************)
KeysMatch == \A k \in DOMAIN bmap : heap[bmap[k]].id = k

(***************************************************************************)
(* What a goroutine may rely on about a *bucket it looked up earlier under *)
(* id: it is an object of that window and, unless the window was reported  *)
(* meanwhile, still the one in the map.                                    *)
(***************************************************************************)
Held(ref, id) ==
  /\ ref \in Refs
  /\ heap[ref].id = id
  /\ id > lastID => id \in DOMAIN bmap /\ bmap[id] = ref

WriterHolds == wr.pc \in {"store", "erase"} => Held(wr.ref, IDOf(wr.ts))

HoldsCur(r) ==
  /\ rd[r].pc \in {"update", "updatePrev"} /\ rd[r].cur # Nil =>
       Held(rd[r].cur, rd[r].id)
  /\ rd[r].pc = "insert" => Held(rd[r].cur, rd[r].id)

HoldsPrev(r) ==
  rd[r].pc \in {"update", "updatePrev"} /\ rd[r].prev # Nil =>
    Held(rd[r].prev, rd[r].id - 1)

ReaderHolds == \A r \in Readers : HoldsCur(r) /\ HoldsPrev(r)

(***************************************************************************)
(* Only the Processor removes, so the bucket in its hand is in the map.    *)
(***************************************************************************)
ProcHolds ==
  /\ proc.pc \in {"check", "loop", "remove"} /\ proc.ref # Nil =>
       /\ heap[proc.ref].id \in DOMAIN bmap
       /\ bmap[heap[proc.ref].id] = proc.ref
  /\ proc.pc = "remove" => heap[proc.ref].id = lastID

(***************************************************************************)
(* The code releases the lock of the map between looking a bucket up and   *)
(* using it, so the map may change meanwhile (bucket.go:72, 102, 122).     *)
(* Still no goroutine ever works on a bucket that was replaced by another  *)
(* of the same window: an object that left the map belongs to a window     *)
(* that statOnce has reported or passed over.                              *)
(***************************************************************************)
BucketsInHand == KeysMatch /\ WriterHolds /\ ReaderHolds /\ ProcHolds

(***************************************************************************)
(* "Send is called once per time bucket" (stat.go:11): the windows of the  *)
(* reports strictly increase, although late calls keep making buckets for  *)
(* windows that were already reported and removed.                         *)
(***************************************************************************)
ReportsIncrease ==
  \A i, j \in DOMAIN reports : i < j => reports[i].id < reports[j].id

(***************************************************************************)
(* No probe is counted in two reports: neither by a duplicated or late     *)
(* answer nor by a Put that lands after its window was reported.  Holds    *)
(* where answers are filed under the send time (sonar, kuiniu, evr).       *)
(***************************************************************************)
CountedOnce ==
  \A i, j \in DOMAIN reports :
    i # j => reports[i].sent \cap reports[j].sent = {}

(***************************************************************************)
(* A report misses nothing that was completed before it: every probe of    *)
(* the window whose Put has returned and was not withdrawn is counted as   *)
(* sent, and every probe whose Received has returned is counted as         *)
(* received, so no loss is reported for an answer already processed.       *)
(***************************************************************************)
ReportComplete ==
  [][Report => \A s \in Seqs : IDOf(sentTs[s]) = lastID' /\ sentTs[s] > 0 =>
                 /\ s \in hist.put => s \in reports'[Len(reports')].sent
                 /\ s \in hist.got => s \in reports'[Len(reports')].received
    ]_vars

(***************************************************************************)
(* What the delay buys: a probe is declared lost only when more than       *)
(* Delay - Span has passed since it was sent, except by the first report   *)
(* of all, whose age is not checked, and by a call of statOnce that        *)
(* dropped a stale bucket after the age check and went on to the next one. *)
(***************************************************************************)
Waited(rep) ==
  \A s \in rep.sent \ rep.received : rep.at > sentTs[s] + Delay - Span

LossVerdictWaits ==
  \A i \in DOMAIN reports :
    Waited(reports[i]) \/ reports[i].after = 0 \/ reports[i].dropped # 0

(***************************************************************************)
(* "When the response crosses a span boundary (receive timestamp falls in  *)
(* the next bucket), the previous bucket is searched so the original send  *)
(* entry is updated instead of creating a duplicate" (bucket.go:92), as    *)
(* far as the code achieves it where answers are filed under the receive   *)
(* time: an answer taken off the socket after the Put of its probe         *)
(* returned, in the probe's window or the next one, makes no new entry as  *)
(* long as the probe's window is open.                                     *)
(***************************************************************************)
CrossingUpdatesOriginal ==
  [][\A r \in Readers :
       InsertReceived(r) /\ ~Has(rd[r].cur, rd[r].seq)
         => ~(rd[r].recorded > lastID /\ rd[r].id - rd[r].recorded \in {0, 1})
    ]_vars

(***************************************************************************)
(* Every bucket, whether it awaits its report or was made again by a late  *)
(* call, is removed in the end: the map does not grow without bound and no *)
(* window is kept from its report by stale ones in front of it.            *)
(***************************************************************************)
EveryWindowLeaves ==
  \A k \in IDOf(Start) .. IDOf(MaxTime) :
    (k \in DOMAIN bmap) ~> (k \notin DOMAIN bmap)

(***************************************************************************)
(* The promise of the package, met where probes are recorded before they   *)
(* are sent and answers are filed under the send time: each call takes     *)
(* effect at one step, reports close windows oldest first, and nothing     *)
(* recorded in an open window is skipped.                                  *)
(***************************************************************************)
OpenPairs(set) ==
  {p \in (DOMAIN bmap) \X Seqs :
     p[1] > lastID /\ heap[bmap[p[1]]].requests[p[2]] \in set}

WL == INSTANCE WindowLog WITH
        sent     <- OpenPairs({"unset", "ack", "rst"}),
        answered <- OpenPairs({"ack", "rst"}),
        closed   <- lastID,
        log      <- [i \in DOMAIN reports |->
                       [id |-> reports[i].id, sent |-> reports[i].sent,
                        received |-> reports[i].received]]

ImplementsWindowLog == WL!Spec
=============================================================================
