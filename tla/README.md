# nettools: a TLA+ verification project

nettools is a set of Go network probers that share one statistics engine:

* **sonar**, **sonar6** (UDP echo with bit-flip detection; commands `baize`, `bitflip`, `bitflip6`), **kuiniu**, **evr** (source-routed UDP);
* **lidar** (TCP SYN), **ping**, **ping6** (ICMP echo, `mping`, `mping6`);
* **traceroute**, **traceroute6**, with an enrichment of the hops by AS and location.

Every prober but traceroute sends probes at a fixed rate, groups them in time
windows ("spans"), waits a delay for late answers and reports, per window and
peer, how many probes were sent and lost. Whether that number can be trusted
depends on goroutines that share buckets under short locks, on clocks read at
different moments, and on a network that loses, duplicates and reorders; and
before a number is counted at all, a reply must have been matched to its probe
by what little of it comes back. This project models the statistics engine, the
probers around it and traceroute and checks them with TLC on small instances;
every safety property that holds is also proved with TLAPS, for all values of
the constants that the hypotheses of section 5 admit.

All line numbers refer to the repository's source; `PROJECT.json` maps every
definition to its lines.

## 1. Inventory

| component | state | operations | interacts with |
|---|---|---|---|
| `stat/bucket.go` | map from window ID to `*bucket`, `minID`; per bucket the requests, `sentFixed`, sent count and starting ports | put, delete, received, receivedRST, receivedAndFix, oldest, remove, stat | called by the send loop, by one goroutine per socket, and by the Processor, under two levels of locks |
| `stat/sender.go` | `udpStat.lastID` | statOnce, computeServerLossPorts | the Processor; a Sender that prints or ships the result |
| `stat/processor.go`, `stat/stat.go` | list of udpStats, ticker | NewStat, Run, GetNextPorts | time.Ticker, the wall clock |
| sonar client | per peer: packed ports, current and last window (ID, count, starting ports) | serveWrite, serveRead, detectBitflip, initPeers | stat, the network |
| sonar server | map from client address to udpStat | handlePacket, getOrCreateStat | stat, one goroutine per port |
| sonar configuration and codec | port ranges, packet layout, salts | ParsePortRange, GetNextPorts, Encode, Decode | client and server |
| sonar6, kuiniu, evr | as sonar, over IPv6, between pairs of GPUs with a server on the same sockets, over source routes | as sonar | as sonar |
| lidar, ping, ping6 | targets, sequence numbers, ports, counts, the socket, `stopCh` | send, receive, match a reply, Run and its shutdown | stat, raw sockets, signals |
| traceroute, traceroute6 | probes in flight, semaphore, hops | send, match a reply, update a hop, cut the path, look up names | raw sockets, enrichment, DNS |
| enrichment | caches, providers | Enrich, merge | DNS, HTTP |
| util/rotate_writer | open file, date; files and link on disk | Write, Close, clean | the file system, the clock, restarts |
| util/salts | constant tables | Salt | codecs |
| commands | none | flag parsing and wiring | all of the above |

What is hard here, and what makes each part correct:

* **Buckets.** Every operation looks a bucket up under the map's lock, releases
  it and works on the object later. `minID` caches the smallest key. Correct
  means: no goroutine works on an object that was replaced by another of the
  same window, and `minID` is always the smallest key.
* **statOnce and the Processor.** Late calls keep making buckets for windows
  that were reported; ticks are dropped. Correct means: each window is reported
  once and in order, a report misses no call that returned before it, no probe
  is counted twice, a loss is declared only after the delay, and every bucket is
  removed in the end.
* **Answers across a window boundary** (lidar, ping): the entry of the previous
  window must be found.
* **One-way loss** (sonar server): the client tells in each probe how many it
  sent in the previous window and from which ports. Correct means: the count
  applied to a window is the client's, a processed probe is never lost, and the
  lost ports are those of lost probes.
* **The port odometer**: `uint16` arithmetic; correct means that it stays in
  range and visits all pairs.
* **The rotating writer**: the clock is read twice in a Write, and restarts find
  old files. Correct means: recent lines are kept, the link names the open file,
  and a line lands in the file of its day.
* **Matching of replies** (all probers): raw sockets deliver the replies of other
  probes, targets and processes, late ones included. Correct means: a reply
  counts for the probe it answers, with the verdict it carries, or not at all,
  and none is dropped by a filter, a lookup or a race with Put. What the code
  compares does not always tell an answer from a packet that looks like one; the
  properties say exactly what else can count.
* **Limits and shutdown**: sender, readers, timers, sockets and signals stop each
  other. Correct means: sonar's count is exact, a run ends after a signal, no
  reader is left behind, sonar reads what is on its way before it closes its
  sockets, and a run that was merely stopped returns no error (ping's can, in one
  way that the property pins down).
* **kuiniu in role=both**: client and server see each other's packets. Correct
  means: no echo is echoed, no probe counts as an answer.
* **traceroute**: all hops are probed at once. Correct means: replies go to their
  hop, the path is cut at the first hop that was reached and not before it, names
  and metadata are complete whatever order the lookups finish in, and Run returns.

`PROJECT.json` lists the hazards one by one, with the line where each bites and
the properties that would catch it.

## 2. Modules

| module | models | kind |
|---|---|---|
| `Buckets` | the pure part of `buckets`: lookup, insert, remove, `minID` | operators |
| `Stat` | one udpStat with its writer, readers, network, clock and Processor | specification |
| `WindowLog` | what the package promises, without goroutines or objects | abstract specification |
| `StatProofs` | theorems about `Stat` | proofs |
| `Ports` | port ranges, GetNextPorts, packPorts and unpackPorts | operators |
| `PortWalk` | the send loop's walk over the pairs | specification |
| `PortProofs` | theorems about `PortWalk` | proofs |
| `SonarServer` | sonar's client accounting and the server's one-way loss; uses `Buckets` and `Ports` | specification |
| `SonarProofs` | theorems about `SonarServer` | proofs |
| `RotateWriter` | `util.RotateWriter` and its directory | specification |
| `RotateProofs` | theorems about `RotateWriter` | proofs |
| `Prober` | ping, ping6 and lidar: sender, receiver, matching, Run | specification |
| `ProberProofs` | theorems about `Prober` | proofs |
| `UdpClient` | sonar, sonar6, kuiniu (with its server) and evr: write loop, limits, readers, filters, answers; uses `Ports` | specification |
| `UdpProofs` | theorems about `UdpClient` | proofs |
| `Tracer` | the tracing part of traceroute and traceroute6 | actions |
| `Enrich` | names and metadata of the addresses found | actions |
| `Traceroute` | `Tracer.Run`: the composition of the two | specification |
| `TracerProofs`, `EnrichProofs` | theorems about `Traceroute`: the replies and the paths; the names and the metadata | proofs |
| `MCStat`, `MCPortWalk`, `MCSonarServer`, `MCProber`, `MCUdpClient`, `MCTraceroute` | constants and symmetry for TLC | instances |

Operators that start with "Variant" in their comment are not part of any
specification. Each is a plausible mistake in the definition that follows it;
substituting it must break a property, which shows that the property depends on
that code.

### Stat

One action is one critical section. `put` is `PutLookup` (get-or-create under
the map's lock) then `PutStore` (`bucket.put` on the object found);
`received` is `Find` (both candidate buckets under the read lock), `UpdateCur`,
`UpdatePrev`, and, when neither holds the request, `CreateLookup` and
`InsertReceived`; `delete` is `DeleteLookup` and `DeleteErase`. `statOnce` is
`FetchOldest`, `CheckAge`, the loop (`DiscardStale`, `ReloadOldest`,
`NothingToReport`), `Report` and `RemoveReported`. `heap` holds every bucket
object ever made and references are its indices, so an object that left the map
can still be written to, as in Go.

Two constants choose how a tool uses the package: `SendThenPut` (record before
or after the send) and `KeyByRecv` (file an answer under the echoed send time or
under the receive time). Both are `FALSE` for sonar, sonar6, kuiniu and evr, and
`TRUE` for lidar, ping and ping6.

Data is abstracted to what the properties distinguish: a request is absent,
unset, answered, or answered by a RST. RTT values, bit-flip flags and TOS are
carried along by the code and never decide anything here. `hist` is a history
variable: the probes whose Put and whose Received have returned. `reports`
records, besides the result, when it was made, the `lastID` before it and the
last stale window the same call dropped; only properties read these.

### SonarServer

The client's turn (`SendProbe`) advances the ports, opens a new window when the
clock has passed into one and stamps the probe with what it knows of the previous
window; a send that fails counts all the same and delivers no copy. `RestartClient` starts over with the
made-up values of `serveWrite`'s initialisation. Each server port is a goroutine:
`ReadPacket`, `FindStat`, `RegisterStat`, `PutLookup`, `PutStore`,
`MarkReceived`, `FindPrev`, `FixPrev`. The Processor reads the result
(`TakeStat`) and the parameters of the replay (`ReadParams`) under separate
locks, as the code does.

### RotateWriter

`Write` is `WriteSameDay`, `Rotate` or `OpenFails`, then `Clean`, then
`AppendLine`; the clock may advance in between. `NewRotateWriter` is a crash and
restart at any point, on whatever the directory holds. Errors of the symlink
calls are ignored by the code, so the link may be right, missing or left over.

### Prober

`tool` says which program runs; its own functions keep their names, with a `6`
for ping6 (`serveSend`, `serveSend6`, `Scan`; `handleEchoReply`,
`handleEchoReply6`, `processParsedPacket`). The sender is `SendStop` or
`SendTake`, then per target `SendProbe` and, when the probe went out,
`PutProbe`; after a limit or a signal it closes `stopCh`, sleeps for the delay
and closes the socket (`Finish`, `SendReturn`). The receiver is `RecvCheck`, then
`RecvPacket` or `RecvError`. In ping and ping6 both report to the channel that
Run reads once (`RunReturns`). A packet carries what the program sees (addresses,
identifiers, numbers, payload) and, for the properties, what it really is.
`timers` count down in ticks; a tick passes only when nobody has a step due, so
the delay and the read timeout keep their order. Answers are lost by never being
read. Sequence numbers start just below the end of their word.

Which reads time out (`TimesOut`) differs. All three programs set `SO_RCVTIMEO`.
ping6 reads its raw descriptor with `syscall.Recvmsg`, so the timeout comes back
as `EAGAIN` (ping6/pinger.go:282-294), and lidar's capture has one too. ping reads
through a `net.IPConn`: the runtime's poller keeps `EAGAIN` to itself and no
deadline is set, so the read ends with a packet, a failure or a closed socket,
and the Timeout branch (ping/pinger.go:275) is not taken.

The foreign packets (`EchoNoise`, `SynNoise`) include those the programs reject
(ICMP errors, other identifiers, other hosts, other ports) and those they cannot
tell from an answer: an echo reply of a target with its identifier, made for
another process; a SYN-ACK or RST of any host from the server port to a port of
the range, since lidar does not compare the source address. `strays` records the
foreign packets that were counted. lidar's number is a `uint64` in the program
(`LongWord`) and a `uint32` on the wire (`AckWord`).

### UdpClient

Again `tool` says which program runs. Run opens a socket per reader, each with a
filter on its share of the client ports (`serveRead`, `KuiniuReaders`,
`portRangeBPF`, `innerPortBPF`), and a packet is delivered to every reader whose
filter accepts it, as raw sockets do (`Arriving`). The write loop is `Take`, then
per peer `EncodeFails`, `StopAtLimit`, or `PutProbe` and `WriteProbe`. At the
limit sonar goes on reading for a grace period (`reachedLimit`, `LimitOver`) and
kuiniu ends at once. `Leave` closes the readers' sockets; a reader on a closed
socket ends after so many errors (`ReadFails`), kuiniu's with the context.
`ServeProbe` is kuiniu's server on the same machine; a reader of it that is in its
read when the context is cancelled takes one more packet (`serving`). The codecs
are modelled by which fields come back in the reply and which of them the
handlers compare.

`Noise` is what others send: packets of a stranger, packets without the magic
number, packets with another TOS, the peer's own probes, which come to a server
port (sonar's default ranges overlap, sonar/config/config.go:125-130), and the
answers to a second instance of the same program (`Twin`), which raw sockets show
to both. A packet that was counted leaves a record in `taken`. `PutProbe` keeps an
entry that such a packet made before it, as `bucket.put` does.

### Tracer, Enrich, Traceroute

Every probe of every hop is a goroutine: it waits for a slot (`SendProbe`), its
Sr1 finds the first packet its matcher accepts (`Capture`: a packet is seen by
all probes in flight) or times out, and the result goes to the hop
(`ProbeDone`). What a probe can meet is a choice among the replies of a router
or of the destination, in full or too short to parse. Ports and identifiers are
computed with the code's arithmetic (`ephemeralSrcPort`, `dstPort`,
`buildProbe`) from a process id at the end of its range. `Enrich` is one
goroutine per address shown (`Lookup`, `LookupAddr`) and one per provider
(`ResolveOne`), whose answers are a choice.

## 3. Runs

| run | result | shows |
|---|---|---|
| `stat_sonar` | pass | two probes, two readers, lost and duplicated answers, failing sends: types, `MinIDIsOldest`, `BucketsInHand`, `ReportsIncrease`, `CountedOnce`, `ReportComplete`, and that every behaviour is one of `WindowLog` |
| `stat_lidar` | pass | an answer read after its Put updates the original entry across one boundary; a loss is declared only after more than Delay - Span, but for the two exceptions of section 4 |
| `stat_drain` | pass | liveness: every bucket, stale ones made by late calls included, leaves the map |
| `port_walk` | pass | all ranges that end below the last port: in range, all pairs in one cycle |
| `sonar_count` | pass | with losses, reordering and a client that may restart: the fixed count is the client's and no processed probe is reported as lost, in every window that one process sent alone |
| `sonar_register` | pass | with duplicated probes of an unknown client: two goroutines make one udpStat, and a probe processed twice is not turned into a loss |
| `rotate_writer` | pass | retention, link and day of each line across midnights, failures and restarts |
| `prober` | pass | ping, ping6, lidar: what counts is an answer under the number it carries, or a foreign packet with all the marks of one; no answer that is read is lost before lidar's numbers wrap; a run ends after a signal, and returns an error without a failure only when ping closes the socket under its own read |
| `udp_client` | pass | sonar, sonar6, kuiniu, evr: every answer reaches one reader; a probe counts as answered only by a packet of its peer with its number, and a peer's own probe counts only in sonar with overlapping ranges; own echoes are left alone, failed sends are withdrawn, sonar's count is exact and it drains, readers end |
| `traceroute` | pass | ICMP and UDP traces: replies go to their hop, the path is whole, names and metadata are complete, Run returns |
| `sonar_loss_ports`, `traceroute_tcp` | violation | see section 4 |

**Bounds.** A time window needs at most three roles: reported, being reported,
and open; the clocks run over three to five windows so that all three exist at
once, a late call can reopen a reported window, and the ticker can fall behind
(`sonar_register`, the run with sonar6's server, runs over two, enough for a
count and the window it is about).
Two probes are enough for two windows to compete and for one probe to be lost
while another is not. Two readers are needed
for races between answers and suffice because they share only the map. Two
copies of an answer give a duplicate that arrives after its window is gone. A
word of 8 instead of 65536 gives `PortWalk` all shapes of ranges (one port, two,
many). `RotateWriter` has two clock units per day, so
that midnight can fall inside a Write, and four days, twice the retention; the
proofs show that only a retention of one day is different (section 4).
`Prober` has two targets, so that an answer can be credited to the wrong one, two
rounds, so that lidar's source port wraps, and a word of 8 in which the numbers
of ping start at the end and wrap; lidar's have four values on the wire, so that
its fourth probe wraps. One foreign packet waits on the socket and may be read at
any moment; those that pass for an answer carry the number 0.
`UdpClient` has three client ports on two readers (the last share is short), a
server port inside the client range, two peers and a limit that falls inside a
round; one failure per run, of any kind, at any point, and one packet of others,
which carries the number of a first probe. `Traceroute` keeps the
real word of 65536 and has two probes of two hops, or one probe of four, in
flight two at a time, to a destination at distance two, so that there are hops
before and behind it; two targets with the same address share the routers.
`stat_sonar` and `stat_lidar` use symmetry in the probes and in the readers, which
are used only as indices; they check safety and a refinement without liveness.

**Deadlock.** It is checked everywhere but in the two runs of `Traceroute`, where
the process ends; there `RunReturns` says that it ends in no other way. The
bounded clock of `Stat` stops, but the ticker does not: `LateTick` stands for the
time that goes on after the last probe. In `Prober` and `UdpClient` a process
whose Run has returned may stay as it is.

**Fairness.** `stat_drain` assumes weak fairness of the Processor, of the clock
with its ticker and of a reader's steps after it has taken an answer. `Prober`
assumes it of the sender, of the receiver, of Run and of time; `UdpClient` of the
write loop, of time, of reads that find a packet and of reads on a closed socket
(ping's read, which has no timeout, is fair only once its socket is closed);
`Traceroute` of its steps as a whole, since Sr1 and the lookups have timeouts of
their own and an unfair choice among finitely many steps cannot be repeated.
These are what the Go scheduler and the runtime's timers give to a goroutine
that can run. Nothing is assumed of the network (an answer may never come), of
failures, or of a user who might send a signal; in `Stat` the writer may stop
between any two steps.

## 4. Where the code and its comments part

Two of these are runs that TLC refutes, with the quotation in `PROJECT.json`:

1. `sonar_loss_ports` - the server replays pairs 2..n+1 of a window instead of
   1..n.
2. `traceroute_tcp` - with TCP probes any segment from the destination answers
   every probe in flight to it, so that a hop short of the destination counts as
   reached.

The others are described here; the models show them when the hypothesis named is
dropped:

* The age check of `statOnce` is made once, before the loop that drops stale
  buckets; the bucket behind a stale one is reported unchecked, although
  sender.go:107 says that buckets that have not aged are skipped
  (`LossVerdictWaits` leaves it out).
* In lidar and ping an answer read in the next window before Put ran makes a
  second entry for the probe (bucket.go:92 speaks of answers that come after
  Put; `CrossingUpdatesOriginal` does too).
* A port range that ends at 65535 wraps to 0: `serverPort++` on a `uint16` is not
  above the maximum (sonar/config/config.go:163; `PortWalk` is run and proved for
  ranges that end below the last port). evr's GetNextPort tests both ends and
  does not have this.
* A Write on the day of a Close fails, because Close leaves the date
  (rotate_writer.go:81 says that it will reopen; `AppendLine` has the case).

Further:

* the age check is guarded by `lastID > 0`, so the first report is sent whatever
  its age (`LossVerdictWaits` leaves it out);
* the count a client tells includes probes whose send failed, because `curSent`
  is not taken back (`FixedCountIsTrue` speaks of the probes made, not of those
  that left the machine);
* a restarted client tells made-up values for the window before its first one
  (`FixedCountIsTrue` and `LossIsReal` ask that one process sent both windows);
* lidar and ping close `stopCh` before they sleep for the delay, so the receiver
  is gone when late answers come (docs/lidar_design.md:197 says the delay waits
  for them); `NoAnswerLost` speaks of the answers that are read;
* when SetDeadline fails (sonar/client/client.go:247) the probe stays recorded
  though it was not sent (`UnsentNotCounted` leaves it out; evr withdraws it);
* an answer with a flipped bit is logged and not counted by sonar and kuiniu, so
  it becomes a loss, and in the first seconds of a run it counts as intact
  (`OnlyOwnAnswers` states both);
* sonar looks at the magic number and the remote address of a packet, not at its
  direction (sonar/client/client.go:351-372): where the port ranges overlap, as
  they do by default, a probe of the peer's own client counts as an answer. The
  answers to a second instance with the same peers and ports count in every tool,
  and sonar6 does not filter on the TOS. `OnlyOwnAnswers` names these packets and
  allows no others;
* ping and ping6 count the reply to another process that pings the same host with
  the same identifier, and lidar counts a SYN-ACK or RST of any host from the
  server port to its port range: the source address is not compared
  (lidar/scanner.go:217-231). `OnlyRealAnswers` and `NoAnswerLost` name
  them (`Resembles`);
* lidar's number goes out in 32 bits and is not widened again: from probe 2^32 on
  answers are filed under other numbers than their probes, and with a number of
  targets that does not divide 2^32 under other targets (`OnlyRealAnswers` says
  what they count for, `NoAnswerLost` stops there, `Unwrapped`);
* a lidar source range that ends at 65535 makes the `uint16` end of the range 0,
  and the capture filter drops every answer (lidar/scanner.go:157, 302-305), though
  lidar/scanner.go:271-272 says that ports below localPort + portCount pass;
  lidar/config.go does not exclude it (`NoAnswerLost` asks for `RangeBelowEnd`);
* with a retention of one day, `clean` can remove the file that was just opened:
  it reads the clock again (rotate_writer.go:98), so that a file of today last
  written in the first moments of the day and reopened by a restarted process in
  the last ones is pruned when midnight passes in between, though :12-14 says
  that the link points at the current file (`RetentionHolds` and `LinkIsCurrent`
  are proved for every other retention);
* a ping that was merely stopped can return "use of closed network connection": its
  read has no timeout, so unless a packet arrives during the final delay the
  receiver is still reading when the sender closes the socket, and its error may
  reach the channel first; a packet that does arrive ends the receiver, and Run,
  before the delay is over (ping/pinger.go:200-217). `StopIsClean` says that
  this is the only way. ping6 is free of it as long as its read timeout is
  shorter than the delay (the defaults are; `ReadTimeout < Delay`);
* the counts of mping and kuiniu are totals over all targets, although
  README.md:210 says "per target" and README.md:381 and cmd/kuiniu/main.go:52 say
  "per GPU pair" (`CountIsExact` is about sonar and sonar6, whose option promises a
  total);
* kuiniu's client returns at its limit without waiting for answers, and its
  readers spin on their closed sockets until the signal (`LimitDrains` is about
  sonar, `ReadersEnd` asks for the signal);
* bitflip, kuiniu and baize keep running after Run has failed; evr ends;
* traceroute: a Destination Unreachable from a router ends a UDP trace as
  reached (`PathIsWhole` asks for the distance of echo traces only); a quote
  without the 8 bytes that RFC 792 demands matches every probe to the address;
  with a fixed destination port and more than 16 probes per hop, or with both
  ports fixed, probes of several hops carry the same ports; the providers are
  merged in the order they finish, though the comment says that the first one
  configured wins (`MergeKeepsAll` allows either); Run that fails for one target
  returns while the others are still being traced.

## 5. Proofs

Every safety property of every passing run is also a theorem, for every value of
the constants that the named assumptions admit. Where a theorem has a hypothesis
of its own, the code does not have the property without it, and section 4 or the
text below says why. The invariants each proof is built on were checked by TLC on
the run's instance first.

**`StatProofs`**, from `StatConstants` (positive span, a clock that starts after
the epoch by at least a span and a delay):

* `TypeCorrect`: `[]TypeOK`. It includes that no nil `*bucket` is dereferenced.
* `OldestIsFound`: `[]MinIDIsOldest`; `BucketsHeld`: `[]BucketsInHand`;
  `InOrderOnce`: `[]ReportsIncrease`.
* `LossIsNotDeclaredEarly`: `[]LossVerdictWaits`.
* `CrossingIsSafe`: `CrossingUpdatesOriginal`.
* `NoProbeIsCountedTwice`: `[]CountedOnce`, and `ReportsMissNothing`:
  `ReportComplete`, where answers are filed under the send time (`~KeyByRecv`:
  sonar, sonar6, kuiniu, evr). Filed under the time of reading a probe can get a
  second entry (section 4).
* `StatImplementsWindowLog`: `ImplementsWindowLog`, if moreover Put comes before
  the send (`~SendThenPut`, sonar's mode). Otherwise an answer may be recorded
  for a probe that `WindowLog` has not seen.

Neither `MinIDIsOldest` nor `BucketsInHand` is inductive without the other and
the types: that a goroutine's bucket is still the map's depends on removals
touching only windows up to `lastID`, which depends on the Processor's own
bucket being in the map under its own ID (`ProcHolds`), which depends on every
bucket being filed under its ID (`KeysMatch`). The inductive invariant is
`HeapInv`, their conjunction. Its proof goes in three layers: what
get-or-create, remove and a write do to the store (`CreateEffect`,
`RemoveEffect`, `WriteEffect`); that every step of `Next` changes the store in
one of these ways (`StoreSteps`, `StoreChanges`) and therefore moves it forward
(`Evolution`: objects keep their IDs, `lastID` never falls, and only windows up
to it leave the map); and that what a goroutine holds survives such a step
(`HeldStable`), so that only its own steps remain to be looked at. The other
theorems stand on `HeapInv`. `InOrderOnce` adds `ReportsUpTo`, that the last
report is that of `lastID`. The loss verdict adds `DelayInv`: an unanswered entry
stands in the bucket of its send time (`UnsetInWindow`), and the bucket the
Processor holds is old enough or one of the two exceptions (`OldEnough`). `BySendTime`, an
entry stands only in the bucket of its send time, gives the single count;
`NoAnswerYet`, `PutRecorded` and `GotRecorded`, that what has returned is in the
bucket while its window is open, give completeness. The refinement maps the
entries of the unreported buckets to `WindowLog`'s; its proof goes action by
action (`RefinementStep`) from `PutFirst` (only a recorded probe is answered),
`YoungestInHand` (the probe in hand is the youngest, and every window is that of a
probe) and `OldestInHand` (no older window opens between the moment statOnce takes
the oldest bucket and its report).

**`PortProofs`** proves `WalkStaysInRange` (`[]PortsInRange`) and
`WalkCoversAllPairs` (`EveryPairInTurn`) for every word size and all ranges that
end below the last port (`BelowLastPort`), from the fact that unpacking inverts
packing (`UnpackPacked`) and that one step adds one to the position of the pair
modulo the number of pairs (`WalkStep`).

**`SonarProofs`**, for all port ranges, spans, delays, losses, copies, restarts
and both servers:

* `TypesHold`: `[]TypeOK`; `ClientsHaveOneStat`: `[]OneStatPerClient`.
* `DenominatorIsTrue`: `[]FixedCountIsTrue`.
* `NoLossIsInvented`: `LossIsReal`.

The denominator follows a count from the client to the report. `ClientInv`: what
the client holds and what each probe carries is the number of probes made in the
window before (`ClientCounts`, `ProbesTellTrue`), which can no longer grow
(`ProbesArePast`). `RefInv`: a bucket that someone holds has the ID it is used
for. `ToldInv` (`Learned`): a count in a bucket or in a goroutine's hands came
from such a probe. For the losses, `MarkInv` says that a request stands only in
the bucket of its probe's window (`RequestsInWindow`), that until a window is
reported the Processor's bucket for it is the map's (`BucketIsHeld`), and that
every probe that was processed is marked in it (`CountedIsMarked`); the number
of losses is then bounded by a cardinality argument over the probes of one
window.

**`RotateProofs`**: `RetentionHolds` (`[]RecentLinesKept`) and `LinkIsCurrent`
(`[]LinkNamesOpenFile`) for every retention but one day (`KeepsTwoDays`, see
section 4), and `LinesAreDated` (`[]LinesInTheirDay`) for every retention. The
invariant is `RotateInv`: the open file carries the writer's date
(`OpenFileIsDated`), a file was last written no earlier than its day
(`TouchedSinceItsDay`), the open file is in the directory (`OpenFileOnDisk`), and
a recent line is in a file that is still there and as young as it
(`LinesCovered`).

**`ProberProofs`**, for every number of targets, process id, first number, port
range and width of the numbers, and for any number of probes: `TypesHold`
(`[]TypeOK`), `CountedWasAnswered` (`[]OnlyRealAnswers`), `AnsweredIsCounted`
(`[]NoAnswerLost`, whose antecedents `RangeBelowEnd` and `Unwrapped` are part of
the property: section 4), and `StopErrsOnlyAtClose` (`[]StopIsClean`) if ping6's
read times out before the final delay is over (`ReadTimeout < Delay`). The numbers
of the probes depend on the random start, which no later state shows, so the
invariant is `\E s : ProberInv(s)`: the numbers and ports of the probes sent so far
are those that follow `s` (`TurnInv`, `SeqInv`, `PortInv`), every packet on its way
answers such a probe or is foreign (`NetInv`), and what arrived is no longer on its
way (`ArrivedInv`). That two probes differ in their numbers is
arithmetic modulo the word.

**`UdpProofs`**, for every number of peers and readers and all port ranges that
end below the last port (`BelowLastPort`): `TypesHold` (`[]TypeOK`),
`CountedWasAnswered` (`[]OnlyOwnAnswers`), `AnswersHaveOneReader`
(`[]OneReaderPerAnswer`), `NoEchoIsEchoed` (`[]NoEchoLoop`), `UnsentStaysDeleted`
(`[]UnsentNotCounted`), `CountIsKept` (`[]CountIsExact`) and
`LimitWaitsForAnswers` (`LimitDrains`). One invariant, `UdpInv`, holds them: what
is in the network is noise or answers a probe that was made, and waits only for
readers whose filter it passes (`NetInv`), a probe is recorded under the number it
was made with (`Fresh`), the number of probes agrees with the counters
(`CountInv`), and a client that has waited at its limit has an empty queue
(`Drained`). What a reader counts leaves evidence of what it was (`Evidence`,
`Counted`), which later steps do not erase.
`SubRangesPartition` shows that the readers' shares, with their rounded-up size,
cover the client ports and do not overlap.

**`TracerProofs`**: `RepliesGoToTheirHop`, `[](Numbered => AnswersMatchHop)`, for
every process id and every valid configuration whose probes carry different
numbers: ICMP, UDP with a moving destination port, or UDP with a source port of
its own and at most 16 probes per hop. The run `traceroute_tcp` shows that TCP
probes cannot be added, section 4 why the other UDP configurations cannot.
`MatchInv` says that the configuration is valid, that every packet in the network
was caused by a probe of its hop, and that an answer taken is such a packet.
`PathsAreWhole`: `[]PathIsWhole` for every configuration, from `PathInv`, which
follows the hops while the workers fill them (`Filling`) until they are complete
(`Whole`).

**`EnrichProofs`**: `LookupsAreShared` (`[]OneLookup`), `NamesAreShown`
(`[]NamesSettled`) and `NoProviderIsLost` (`[]MergeKeepsAll`), whatever the order
in which lookups and providers finish. `NamesInv` ties the state of each lookup to
the cache (`Keyed`, `CacheMarks`) and to the hops (`HostsFilled`); `MergeInv` says
that the merged fields are those of the providers that are done.

Only model-checked: the four liveness properties (`EveryWindowLeaves`,
`CancelEndsRun`, `ReadersEnd`, `RunReturns`), which are out of the prover's reach.
The two properties of section 4's runs are refuted and have no theorem, but for
`AnswersMatchHop` under `Numbered`.

## 6. Not modelled

* Cancellation of contexts and several udpStats in one Processor: the Processor
  handles them one after the other, and they share no state.
* Clock skew between machines and clocks that are set back: the code uses one
  wall clock per machine and takes no precaution.
* Hardware timestamps, output formatting, flag parsing, the checks of the
  configurations (traceroute's excepted): I/O and presentation.
* The layout of packets: BPF programs are modelled by the predicate they compute,
  codecs by the fields that come back.
* Bits flipped in the header of a payload (number, time, magic): only a flipped
  salt is a case of its own; the code would file such a packet under the changed
  number or drop it.
* RTT values, and the statistics of a traceroute hop, which are only displayed.
* The windows of the statistics inside `Prober` and `UdpClient`, where a probe has
  one entry: they are the subject of `Stat`. kuiniu's server fills its statistics
  with ReceivedAndFix and no Put, which `SonarServer` does not have as a mode.
* In `RotateWriter`, a Write that lasts a day or longer, and other programs that
  touch the directory.

## 7. Plan

The components the repository has are modelled as far as section 6 says. What
could still be added to the model: kuiniu's server statistics as a mode of
`SonarServer`; two udpStats in one Processor that is cancelled.

What the proofs could still say: for `Prober`, what counts after lidar's numbers
have wrapped, window by window of the statistics; the exact lidar case in which a
second entry appears, as a complement of `NoProbeIsCountedTwice`. Liveness stays
with TLC.
