----------------------------- MODULE StatProofs -----------------------------
(***************************************************************************)
(* Theorems about Stat, for every set of probes and readers, every span    *)
(* and delay and every bound.                                              *)
(***************************************************************************)
EXTENDS Stat, SequenceTheorems, WellFoundedInduction, TLAPS

-----------------------------------------------------------------------------
(* facts about the operators                                               *)

(***************************************************************************)
(* Every set of window IDs that is not empty has a least element.          *)
(***************************************************************************)
LEMMA LeastElement ==
  ASSUME NEW T, T \subseteq Nat, T # {}
  PROVE  \E i \in T : \A j \in T : i <= j
<1>1. PICK i \in T : \A j \in T : ~ (<<j, i>> \in OpToRel(<, Nat))
  <2>1. IsWellFoundedOn(OpToRel(<, Nat), Nat)
    BY NatLessThanWellFounded
  <2> QED BY <2>1, WFMin
<1>2. \A j \in T : ~ (j < i)
  BY <1>1 DEF OpToRel
<1> QED BY <1>2

(***************************************************************************)
(* SmallestID finds the minimum that buckets.remove searches for.          *)
(***************************************************************************)
LEMMA SmallestIDIsLeast ==
  ASSUME NEW map, DOMAIN map \subseteq Nat
  PROVE  /\ DOMAIN map = {} => SmallestID(map) = NoMin
         /\ DOMAIN map # {} => /\ SmallestID(map) \in DOMAIN map
                               /\ \A j \in DOMAIN map : SmallestID(map) <= j
<1>1. CASE DOMAIN map = {}
  BY <1>1 DEF SmallestID
<1>2. CASE DOMAIN map # {}
  <2>1. \E i \in DOMAIN map : \A j \in DOMAIN map : i <= j
    BY <1>2, LeastElement
  <2> QED BY <1>2, <2>1 DEF SmallestID
<1> QED BY <1>1, <1>2

(***************************************************************************)
(* Window IDs are natural numbers that grow with the time.                 *)
(***************************************************************************)
LEMMA IDOfNat == \A t \in Nat : IDOf(t) \in Nat
BY StatConstants DEF IDOf

(***************************************************************************)
(* Later times fall in the same or a later window.                         *)
(***************************************************************************)
LEMMA IDOfMonotonic == \A t, u \in Nat : t <= u => IDOf(t) <= IDOf(u)
BY StatConstants DEF IDOf

(***************************************************************************)
(* Every time of the model falls in a window of the model.                 *)
(***************************************************************************)
LEMMA IDOfWindows == \A t \in 0 .. MaxTime : IDOf(t) \in Windows
BY IDOfNat, IDOfMonotonic, StatConstants DEF Windows

(***************************************************************************)
(* Windows of the wall clock have positive IDs.                            *)
(***************************************************************************)
LEMMA PositiveIDs == \A t \in Nat : t >= Span => IDOf(t) > 0
BY StatConstants DEF IDOf

(***************************************************************************)
(* Zero, the lastID of a udpStat that has reported nothing, is a window.   *)
(***************************************************************************)
LEMMA ZeroWindow == 0 \in Windows
BY IDOfNat, StatConstants DEF Windows

-----------------------------------------------------------------------------
(* the types                                                               *)

(***************************************************************************)
(* The get-or-create section keeps the types of the store and returns an   *)
(* object.                                                                 *)
(***************************************************************************)
LEMMA GetOrCreateType ==
  ASSUME StoreType, NEW id \in Windows, GetOrCreate(id)
  PROVE  /\ StoreType'
         /\ Len(heap') >= Len(heap)
         /\ id \in DOMAIN bmap' /\ bmap'[id] \in Refs'
<1>1. CASE id \in DOMAIN bmap
  BY <1>1 DEF GetOrCreate, store, StoreType, Refs
<1>2. CASE id \notin DOMAIN bmap
  <2>1. NewBucket(id) \in BucketType
    BY DEF NewBucket, BucketType, Status
  <2>2. heap' \in Seq(BucketType) /\ Len(heap') = Len(heap) + 1
    BY <1>2, <2>1, AppendProperties DEF GetOrCreate, StoreType
  <2>3. Len(heap) \in Nat
    BY LenProperties DEF StoreType
  <2>4. minID' \in Windows \cup {NoMin}
    BY <1>2 DEF GetOrCreate, StoreType, MinAfterInsert
  <2>5. bmap' = Insert(bmap, id, Len(heap) + 1)
    BY <1>2 DEF GetOrCreate
  <2> QED BY <2>2, <2>3, <2>4, <2>5 DEF StoreType, Insert, Refs
<1> QED BY <1>1, <1>2

(***************************************************************************)
(* buckets.remove keeps the types of the store.                            *)
(***************************************************************************)
LEMMA RemoveType ==
  ASSUME StoreType, NEW id, Remove(id)
  PROVE  StoreType' /\ heap' = heap
<1>1. DOMAIN Without(bmap, id) \subseteq Windows
  BY DEF StoreType, Without
<1>2. SmallestID(Without(bmap, id)) \in Windows \cup {NoMin}
  <2>1. DOMAIN Without(bmap, id) \subseteq Nat
    BY <1>1 DEF Windows
  <2>2. \/ SmallestID(Without(bmap, id)) = NoMin
        \/ SmallestID(Without(bmap, id)) \in DOMAIN Without(bmap, id)
    BY <2>1, SmallestIDIsLeast
  <2> QED BY <1>1, <2>2
<1> QED BY <1>1, <1>2 DEF StoreType, Remove, Without, MinAfterRemove, Refs

(***************************************************************************)
(* Writing a request keeps the types of the store.                         *)
(***************************************************************************)
LEMMA WriteType ==
  ASSUME heap \in Seq(BucketType), NEW ref \in Refs, NEW s \in Seqs,
         NEW status \in Status, Write(ref, s, status)
  PROVE  /\ heap' \in Seq(BucketType)
         /\ Len(heap') = Len(heap)
<1> DEFINE b == [heap[ref] EXCEPT !.requests[s] = status]
<1>1. heap[ref] \in BucketType
  BY ElementOfSeq DEF Refs
<1>2. b \in BucketType
  BY <1>1 DEF BucketType
<1>3. heap' = [heap EXCEPT ![ref] = b]
  BY DEF Write
<1> QED BY <1>2, <1>3, ExceptSeq DEF Refs

(***************************************************************************)
(* Objects are never taken out of the heap: references stay valid.         *)
(***************************************************************************)
LEMMA RefsGrow ==
  ASSUME Len(heap) \in Nat, Len(heap') \in Nat, Len(heap') >= Len(heap)
  PROVE  Refs \subseteq Refs'
BY DEF Refs

(***************************************************************************)
(* A step that leaves a part of the state alone keeps its type.            *)
(***************************************************************************)
LEMMA StoreFrame ==
  StoreType /\ UNCHANGED store => StoreType' /\ Refs' = Refs
BY DEF StoreType, store, Refs

(***************************************************************************)
(* The writer is well typed as long as no object goes away.                *)
(***************************************************************************)
LEMMA WriterFrame ==
  WriterType /\ UNCHANGED <<wr, sentTs>> /\ Refs \subseteq Refs' => WriterType'
BY DEF WriterType

(***************************************************************************)
(* The readers are well typed as long as no object goes away.              *)
(***************************************************************************)
LEMMA ReaderFrame ==
  ReaderType /\ UNCHANGED <<wire, rd>> /\ Refs \subseteq Refs' => ReaderType'
BY DEF ReaderType

(***************************************************************************)
(* The Processor is well typed as long as no object goes away.             *)
(***************************************************************************)
LEMMA ProcFrame ==
  ProcType /\ UNCHANGED <<proc, lastID>> /\ Refs \subseteq Refs' => ProcType'
BY DEF ProcType

(***************************************************************************)
(* The clock is well typed if nothing touches it.                          *)
(***************************************************************************)
LEMMA ClockFrame == ClockType /\ UNCHANGED <<now, ticker>> => ClockType'
BY DEF ClockType

(***************************************************************************)
(* The reports are well typed if nothing touches them.                     *)
(***************************************************************************)
LEMMA HistoryFrame == HistoryType /\ UNCHANGED <<reports, hist>> => HistoryType'
BY DEF HistoryType

(***************************************************************************)
(* The program starts well typed.                                          *)
(***************************************************************************)
LEMMA TypeInit == Init => TypeOK
<1> SUFFICES ASSUME Init PROVE TypeOK
  OBVIOUS
<1>1. 0 \in Windows
  BY IDOfNat, StatConstants DEF Windows
<1>2. StoreType
  BY EmptySeq DEF Init, StoreType, NoMin
<1>3. WriterType
  BY StatConstants DEF Init, WriterType, IdleWriter
<1>4. ReaderType
  BY <1>1, StatConstants DEF Init, ReaderType, IdleReader
<1>5. ProcType
  BY <1>1 DEF Init, ProcType
<1>6. ClockType
  BY StatConstants DEF Init, ClockType
<1>7. HistoryType
  BY EmptySeq DEF Init, HistoryType
<1> QED BY <1>2, <1>3, <1>4, <1>5, <1>6, <1>7 DEF TypeOK

(***************************************************************************)
(* Every step of every goroutine preserves the types.                      *)
(***************************************************************************)
LEMMA TypeStep == TypeOK /\ [Next]_vars => TypeOK'
<1> SUFFICES ASSUME TypeOK, [Next]_vars PROVE TypeOK'
  OBVIOUS
<1> USE DEF TypeOK
<1>a. StoreType' /\ UNCHANGED store => Refs \subseteq Refs'
  BY DEF store, Refs
<1>n. Len(heap) \in Nat
  BY LenProperties DEF StoreType
<1>1. ASSUME NEW s \in Seqs, BeginProbe(s) PROVE TypeOK'
  <2>1. WriterType'
    BY <1>1, StatConstants
    DEF BeginProbe, WriterType, ClockType, store, Refs
  <2> QED BY <1>1, <2>1, StoreFrame, ReaderFrame, ProcFrame, ClockFrame,
             HistoryFrame DEF BeginProbe
<1>2. CASE PutLookup
  <2>1. IDOf(wr.ts) \in Windows
    BY IDOfWindows DEF WriterType
  <2>2. /\ StoreType' /\ Len(heap') >= Len(heap)
        /\ bmap'[IDOf(wr.ts)] \in Refs'
    BY <1>2, <2>1, GetOrCreateType DEF PutLookup
  <2>3. Refs \subseteq Refs'
    BY <1>n, <2>2, RefsGrow, LenProperties DEF StoreType
  <2>4. WriterType'
    <3> DEFINE ref == bmap'[IDOf(wr.ts)]
    <3>1. ref \in Refs' /\ ref # Nil
      BY <2>2 DEF Refs, Nil
    <3>2. wr' = [wr EXCEPT !.pc = "store", !.ref = ref] /\ sentTs' = sentTs
      BY <1>2 DEF PutLookup
    <3>3. wr.seq \in Seqs
      BY <1>2 DEF PutLookup, WriterType
    <3> HIDE DEF ref
    <3> QED BY <2>3, <3>1, <3>2, <3>3 DEF WriterType
  <2> QED BY <1>2, <2>2, <2>3, <2>4, ReaderFrame, ProcFrame, ClockFrame,
             HistoryFrame DEF PutLookup
<1>3. CASE PutStore
  <2>1. wr.ref \in Refs /\ wr.seq \in Seqs
    BY <1>3 DEF PutStore, WriterType
  <2>2. AfterPut(heap[wr.ref].requests[wr.seq]) \in Status
    <3>1. heap[wr.ref] \in BucketType
      BY <2>1, ElementOfSeq DEF StoreType, Refs
    <3> QED BY <2>1, <3>1 DEF AfterPut, Status, BucketType
  <2>3. heap' \in Seq(BucketType) /\ Len(heap') = Len(heap)
    BY <1>3, <2>1, <2>2, WriteType DEF PutStore, StoreType
  <2>4. Refs' = Refs /\ StoreType'
    BY <1>3, <2>3 DEF PutStore, StoreType, Refs
  <2>5. WriterType'
    <3>1. CASE SendThenPut
      BY <1>3, <2>4, <3>1, StatConstants DEF PutStore, WriterType, IdleWriter
    <3>2. CASE ~SendThenPut
      BY <1>3, <2>1, <2>4, <3>2 DEF PutStore, WriterType
    <3> QED BY <3>1, <3>2
  <2>6. HistoryType'
    BY <1>3, <2>1 DEF PutStore, HistoryType
  <2> QED BY <1>3, <2>4, <2>5, <2>6, ReaderFrame, ProcFrame, ClockFrame
          DEF PutStore
<1>4. ASSUME NEW n \in 0 .. MaxCopies, SendOK(n) PROVE TypeOK'
  <2>1. StoreType' /\ Refs' = Refs
    BY <1>4, StoreFrame DEF SendOK
  <2>2. WriterType'
    BY <1>4, <2>1, StatConstants DEF SendOK, WriterType, IdleWriter
  <2>3. ReaderType'
    BY <1>4, <2>1 DEF SendOK, ReaderType
  <2> QED BY <1>4, <2>1, <2>2, <2>3, ProcFrame, ClockFrame, HistoryFrame
          DEF SendOK
<1>5. CASE SendFails \/ DeadlineFails \/ DeleteLookup
  <2>1. StoreType' /\ Refs' = Refs
    BY <1>5, StoreFrame DEF SendFails, DeadlineFails, DeleteLookup
  <2>2. CASE SendFails \/ DeadlineFails
    <3>1. WriterType'
      BY <2>1, <2>2, StatConstants
      DEF SendFails, DeadlineFails, WriterType, IdleWriter
    <3> QED BY <2>1, <2>2, <3>1, ReaderFrame, ProcFrame, ClockFrame,
               HistoryFrame DEF SendFails, DeadlineFails
  <2>3. CASE DeleteLookup
    <3>1. Lookup(bmap, IDOf(wr.ts)) \in Refs \cup {Nil}
      BY DEF Lookup, StoreType
    <3>2. WriterType'
      <4> DEFINE ref == Lookup(bmap, IDOf(wr.ts))
      <4>1. CASE ref = Nil
        BY <2>1, <2>3, <4>1, StatConstants
        DEF DeleteLookup, WriterType, IdleWriter
      <4>2. CASE ref # Nil
        <5>1. /\ wr' = [wr EXCEPT !.pc = "erase", !.ref = ref]
              /\ sentTs' = sentTs /\ wr.seq \in Seqs
          BY <2>3, <4>2 DEF DeleteLookup, WriterType
        <5>2. ref \in Refs \cup {Nil}
          BY <3>1
        <5> HIDE DEF ref
        <5> QED BY <2>1, <4>2, <5>1, <5>2 DEF WriterType
      <4> QED BY <4>1, <4>2
    <3> QED BY <2>1, <2>3, <3>2, ReaderFrame, ProcFrame, ClockFrame,
               HistoryFrame DEF DeleteLookup
  <2> QED BY <1>5, <2>2, <2>3
<1>6. CASE DeleteErase
  <2>1. wr.ref \in Refs /\ wr.seq \in Seqs
    BY <1>6 DEF DeleteErase, WriterType
  <2>2. heap' \in Seq(BucketType) /\ Len(heap') = Len(heap)
    BY <1>6, <2>1, WriteType DEF DeleteErase, StoreType, Status
  <2>3. Refs' = Refs /\ StoreType'
    BY <1>6, <2>2 DEF DeleteErase, StoreType, Refs
  <2>4. WriterType'
    BY <1>6, <2>3, StatConstants DEF DeleteErase, WriterType, IdleWriter
  <2>5. HistoryType'
    BY <1>6 DEF DeleteErase, HistoryType
  <2> QED BY <1>6, <2>3, <2>4, <2>5, ReaderFrame, ProcFrame, ClockFrame
          DEF DeleteErase
<1>7. ASSUME NEW r \in Readers, NEW s \in Seqs, NEW kind \in Kinds,
             Receive(r, s, kind)
      PROVE  TypeOK'
  <2>1. StoreType' /\ Refs' = Refs
    BY <1>7, StoreFrame DEF Receive
  <2>2. AnswerID(s) \in Windows
    <3>1. now \in 0 .. MaxTime /\ sentTs[s] \in 0 .. MaxTime
      BY StatConstants DEF ClockType, WriterType
    <3> QED BY <3>1, IDOfWindows DEF AnswerID
  <2>3. kind \in {"ack", "rst"}
    BY StatConstants
  <2>4. ReaderType'
    <3> DEFINE rec == IF s \in hist.put THEN IDOf(sentTs[s]) ELSE 0
    <3>1. rec \in Windows
      BY IDOfWindows, ZeroWindow DEF WriterType
    <3>2. rd' = [rd EXCEPT ![r] =
                   [pc |-> "find", seq |-> s, kind |-> kind,
                    id |-> AnswerID(s), cur |-> Nil, prev |-> Nil,
                    recorded |-> rec]]
      BY <1>7 DEF Receive
    <3>3. wire' = [wire EXCEPT ![s] = @ - 1] /\ wire[s] > 0
      BY <1>7 DEF Receive
    <3> HIDE DEF rec
    <3>4. wire' \in [Seqs -> 0 .. MaxCopies]
      BY <3>3, StatConstants DEF ReaderType
    <3> QED BY <2>1, <2>2, <2>3, <3>1, <3>2, <3>4 DEF ReaderType
  <2> QED BY <1>7, <2>1, <2>4, WriterFrame, ProcFrame, ClockFrame, HistoryFrame
          DEF Receive
<1>8. ASSUME NEW r \in Readers, Find(r) PROVE TypeOK'
  <2>1. StoreType' /\ Refs' = Refs
    BY <1>8, StoreFrame DEF Find
  <2>2. \A id : Lookup(bmap, id) \in Refs \cup {Nil}
    BY DEF Lookup, StoreType
  <2>3. ReaderType'
    <3> DEFINE c == Lookup(bmap, rd[r].id)
               q == Lookup(bmap, rd[r].id - 1)
    <3>1. c \in Refs \cup {Nil} /\ q \in Refs \cup {Nil}
      BY <2>2
    <3>2. /\ rd' = [rd EXCEPT ![r] = [@ EXCEPT !.pc = "update", !.cur = c,
                                               !.prev = q]]
          /\ wire' = wire
      BY <1>8 DEF Find
    <3>3. rd[r].seq \in Seqs
      BY <1>8 DEF Find, ReaderType
    <3> HIDE DEF c, q
    <3>4. rd[r] \in [pc : {"idle", "find", "update", "updatePrev", "create",
                           "insert"},
                     seq : Seqs \cup {NoSeq}, kind : {"ack", "rst"},
                     id : Windows, cur : Refs \cup {Nil},
                     prev : Refs \cup {Nil}, recorded : Windows]
      BY DEF ReaderType
    <3>5. [rd[r] EXCEPT !.pc = "update", !.cur = c, !.prev = q]
            \in [pc : {"idle", "find", "update", "updatePrev", "create",
                       "insert"},
                 seq : Seqs \cup {NoSeq}, kind : {"ack", "rst"},
                 id : Windows, cur : Refs \cup {Nil},
                 prev : Refs \cup {Nil}, recorded : Windows]
      BY <3>1, <3>4
    <3> QED BY <2>1, <3>2, <3>3, <3>5 DEF ReaderType
  <2> QED BY <1>8, <2>1, <2>3, WriterFrame, ProcFrame, ClockFrame, HistoryFrame
          DEF Find
<1>9. ASSUME NEW r \in Readers, NEW ref \in Refs, rd[r].pc # "idle",
             Write(ref, rd[r].seq,
                   AfterReceived(heap[ref].requests[rd[r].seq], rd[r].kind)),
             hist' = [hist EXCEPT !.got = @ \cup {rd[r].seq}],
             rd' = [rd EXCEPT ![r] = IdleReader],
             UNCHANGED <<now, bmap, minID, lastID, wr, sentTs, wire, proc,
                         ticker, reports>>
      PROVE  TypeOK'
  <2>1. rd[r].seq \in Seqs
    BY <1>9 DEF ReaderType
  <2>2. AfterReceived(heap[ref].requests[rd[r].seq], rd[r].kind) \in Status
    BY DEF AfterReceived, Status
  <2>3. heap' \in Seq(BucketType) /\ Len(heap') = Len(heap)
    BY <1>9, <2>1, <2>2, WriteType DEF StoreType
  <2>4. Refs' = Refs /\ StoreType'
    BY <1>9, <2>3 DEF StoreType, Refs
  <2>5. IdleReader.id \in Windows
    BY IDOfNat, StatConstants DEF IdleReader, Windows
  <2>6. ReaderType'
    BY <1>9, <2>4, <2>5 DEF ReaderType, IdleReader
  <2>7. HistoryType'
    BY <1>9, <2>1 DEF HistoryType
  <2> QED BY <1>9, <2>4, <2>6, <2>7, WriterFrame, ProcFrame, ClockFrame
<1>10. ASSUME NEW r \in Readers, NEW pc \in {"updatePrev", "create"},
              rd[r].pc # "idle", rd' = [rd EXCEPT ![r] = [@ EXCEPT !.pc = pc]],
              UNCHANGED <<now, store, lastID, wr, sentTs, wire, proc, ticker,
                          reports, hist>>
       PROVE  TypeOK'
  <2>1. StoreType' /\ Refs' = Refs
    BY <1>10, StoreFrame
  <2>2. ReaderType'
    BY <1>10, <2>1 DEF ReaderType
  <2> QED BY <1>10, <2>1, <2>2, WriterFrame, ProcFrame, ClockFrame,
             HistoryFrame
<1>11. ASSUME NEW r \in Readers, UpdateCur(r) \/ UpdatePrev(r) PROVE TypeOK'
  <2>1. /\ rd[r].cur \in Refs \cup {Nil}
        /\ rd[r].prev \in Refs \cup {Nil}
    BY DEF ReaderType
  <2>2. ASSUME NEW ref \in Refs \cup {Nil}, rd[r].pc # "idle",
               UpdateIn(r, ref),
               UNCHANGED <<now, bmap, minID, lastID, wr, sentTs, wire, proc,
                           ticker, reports>>
        PROVE  TypeOK'
    BY <1>9, <2>2 DEF UpdateIn, Has
  <2>3. CASE UpdateCur(r)
    BY <1>10, <2>1, <2>2, <2>3 DEF UpdateCur, store
  <2>4. CASE UpdatePrev(r)
    BY <1>10, <2>1, <2>2, <2>4 DEF UpdatePrev, store
  <2> QED BY <1>11, <2>3, <2>4
<1>12. ASSUME NEW r \in Readers, CreateLookup(r) PROVE TypeOK'
  <2>1. rd[r].id \in Windows
    BY DEF ReaderType
  <2>2. StoreType' /\ Len(heap') >= Len(heap) /\ bmap'[rd[r].id] \in Refs'
    BY <1>12, <2>1, GetOrCreateType DEF CreateLookup
  <2>3. Refs \subseteq Refs'
    BY <1>n, <2>2, RefsGrow, LenProperties DEF StoreType
  <2>4. bmap'[rd[r].id] # Nil
    BY <2>2 DEF Refs, Nil
  <2>5. ReaderType'
    BY <1>12, <2>2, <2>3, <2>4 DEF CreateLookup, ReaderType
  <2> QED BY <1>12, <2>2, <2>3, <2>5, WriterFrame, ProcFrame, ClockFrame,
             HistoryFrame DEF CreateLookup
<1>13. ASSUME NEW r \in Readers, InsertReceived(r) PROVE TypeOK'
  <2>1. rd[r].cur \in Refs
    BY <1>13 DEF InsertReceived, ReaderType
  <2> QED BY <1>9, <1>13, <2>1 DEF InsertReceived
<1>14. CASE StartProcessor \/ TakeTick
  <2>1. StoreType' /\ Refs' = Refs
    BY <1>14, StoreFrame DEF StartProcessor, TakeTick
  <2>2. ProcType' /\ ClockType'
    BY <1>14, <2>1, ZeroWindow, StatConstants
    DEF StartProcessor, TakeTick, ProcType, ClockType, IdleProc
  <2> QED BY <1>14, <2>1, <2>2, WriterFrame, ReaderFrame, HistoryFrame
          DEF StartProcessor, TakeTick
<1>15. CASE FetchOldest \/ CheckAge \/ NothingToReport \/ ReloadOldest
  <2>1. StoreType' /\ Refs' = Refs
    BY <1>15, StoreFrame
    DEF FetchOldest, CheckAge, NothingToReport, ReloadOldest
  <2>2. Oldest(bmap, minID) \in Refs \cup {Nil}
    BY DEF Oldest, Lookup, StoreType
  <2>3. ProcType'
    <3>1. CASE FetchOldest
      BY <2>1, <2>2, <3>1 DEF FetchOldest, ProcType
    <3>2. CASE CheckAge
      BY <2>1, <3>2, ZeroWindow DEF CheckAge, ProcType, IdleProc
    <3>3. CASE NothingToReport
      BY <2>1, <3>3, ZeroWindow DEF NothingToReport, ProcType, IdleProc
    <3>4. CASE ReloadOldest
      BY <2>1, <2>2, <3>4 DEF ReloadOldest, ProcType
    <3> QED BY <1>15, <3>1, <3>2, <3>3, <3>4
  <2> QED BY <1>15, <2>1, <2>3, WriterFrame, ReaderFrame, ClockFrame,
             HistoryFrame
          DEF FetchOldest, CheckAge, NothingToReport, ReloadOldest
<1>16. CASE DiscardStale \/ RemoveReported
  <2>1. StoreType' /\ heap' = heap
    BY <1>16, RemoveType DEF DiscardStale, RemoveReported
  <2>2. Refs' = Refs
    BY <2>1 DEF Refs
  <2>3. ProcType'
    <3>1. proc.ref \in Refs
      BY <1>16 DEF DiscardStale, RemoveReported, ProcType
    <3>2. heap[proc.ref] \in BucketType
      BY <3>1, ElementOfSeq DEF StoreType, Refs
    <3>3. heap[proc.ref].id \in Windows
      BY <3>2 DEF BucketType
    <3>4. CASE DiscardStale
      BY <2>2, <3>3, <3>4 DEF DiscardStale, ProcType
    <3>5. CASE RemoveReported
      BY <2>2, <3>5, ZeroWindow DEF RemoveReported, ProcType, IdleProc
    <3> QED BY <1>16, <3>4, <3>5
  <2> QED BY <1>16, <2>1, <2>2, <2>3, WriterFrame, ReaderFrame, ClockFrame,
             HistoryFrame DEF DiscardStale, RemoveReported
<1>17. CASE Report
  <2>1. StoreType' /\ Refs' = Refs
    BY <1>17, StoreFrame DEF Report
  <2>2. heap[proc.ref] \in BucketType
    <3>1. proc.ref \in Refs
      BY <1>17 DEF Report, ProcType
    <3> QED BY <3>1, ElementOfSeq DEF StoreType, Refs
  <2>3. ProcType'
    BY <1>17, <2>1, <2>2 DEF Report, ProcType, BucketType
  <2>4. StatResult(heap[proc.ref]) \in ReportType
    <3>1. heap[proc.ref].id \in Windows
      BY <2>2 DEF BucketType
    <3>2. now \in Start .. MaxTime /\ proc.dropped \in Windows
      BY DEF ClockType, ProcType
    <3>3. lastID \in Windows
      BY DEF ProcType
    <3> QED BY <3>1, <3>2, <3>3 DEF StatResult, ReportType, Counted
  <2>5. HistoryType'
    BY <1>17, <2>4, AppendProperties DEF Report, HistoryType
  <2> QED BY <1>17, <2>1, <2>3, <2>5, WriterFrame, ReaderFrame, ClockFrame
          DEF Report
<1>18. CASE Tick \/ LateTick
  <2>1. StoreType' /\ Refs' = Refs
    BY <1>18, StoreFrame DEF Tick, LateTick
  <2>2. ClockType'
    BY <1>18, StatConstants DEF Tick, LateTick, ClockType
  <2> QED BY <1>18, <2>1, <2>2, WriterFrame, ReaderFrame, ProcFrame,
             HistoryFrame DEF Tick, LateTick
<1>19. CASE UNCHANGED vars
  <2>1. UNCHANGED store
    BY <1>19 DEF vars, store
  <2> QED BY <1>19, <2>1, StoreFrame, WriterFrame, ReaderFrame, ProcFrame,
             ClockFrame, HistoryFrame DEF vars
<1> QED
  BY <1>1, <1>2, <1>3, <1>4, <1>5, <1>6, <1>7, <1>8, <1>11, <1>12, <1>13,
     <1>14, <1>15, <1>16, <1>17, <1>18, <1>19
  DEF Next, Writer, Reader, Processor, StatOnce

(***************************************************************************)
(* Types: no goroutine of the package ever uses a nil *bucket or one that  *)
(* was never made.                                                         *)
(***************************************************************************)
THEOREM TypeCorrect == Spec => []TypeOK
BY TypeInit, TypeStep, PTL DEF Spec
-----------------------------------------------------------------------------
(* the store: what a step may do to the map and to the objects             *)

HeapInv == MinIDIsOldest /\ BucketsInHand

(***************************************************************************)
(* What the get-or-create section of put and received does to the map: the *)
(* window is there afterwards, no other entry changes, and the minimum     *)
(* stays right.                                                            *)
(***************************************************************************)
LEMMA CreateEffect ==
  ASSUME StoreType, NEW id \in Windows, GetOrCreate(id)
  PROVE  /\ DOMAIN bmap' = DOMAIN bmap \cup {id}
         /\ \A k \in DOMAIN bmap : bmap'[k] = bmap[k]
         /\ Refs \subseteq Refs'
         /\ \A i \in Refs : heap'[i] = heap[i]
         /\ \A i \in Refs' \ Refs : heap'[i] = NewBucket(id)
         /\ bmap'[id] \in Refs'
         /\ id \notin DOMAIN bmap => heap'[bmap'[id]] = NewBucket(id)
         /\ MinIDIsOldest => MinIDIsOldest'
<1>1. CASE id \in DOMAIN bmap
  BY <1>1 DEF GetOrCreate, store, StoreType, Refs, MinIDIsOldest
<1>2. CASE id \notin DOMAIN bmap
  <2>1. NewBucket(id) \in BucketType
    BY DEF NewBucket, BucketType, Status
  <2>2. /\ heap' = Append(heap, NewBucket(id))
        /\ bmap' = Insert(bmap, id, Len(heap) + 1)
        /\ minID' = MinAfterInsert(minID, id)
    BY <1>2 DEF GetOrCreate
  <2>3. /\ Len(heap') = Len(heap) + 1 /\ Len(heap) \in Nat
        /\ \A i \in 1 .. Len(heap) : heap'[i] = heap[i]
        /\ heap'[Len(heap) + 1] = NewBucket(id)
    BY <2>1, <2>2, AppendProperties, LenProperties DEF StoreType
  <2>4. /\ DOMAIN bmap' = DOMAIN bmap \cup {id}
        /\ \A k \in DOMAIN bmap : bmap'[k] = bmap[k]
        /\ bmap'[id] = Len(heap) + 1
    BY <1>2, <2>2 DEF Insert
  <2>5. MinIDIsOldest => MinIDIsOldest'
    <3>1. DOMAIN bmap \subseteq Nat /\ id \in Nat
      BY DEF StoreType, Windows
    <3> QED BY <2>2, <2>4, <3>1 DEF MinIDIsOldest, MinAfterInsert, NoMin
  <2> QED BY <1>2, <2>3, <2>4, <2>5 DEF Refs
<1> QED BY <1>1, <1>2

(***************************************************************************)
(* What buckets.remove does to the map: exactly one key goes, and the      *)
(* minimum stays right.                                                    *)
(***************************************************************************)
LEMMA RemoveEffect ==
  ASSUME StoreType, NEW id, Remove(id)
  PROVE  /\ DOMAIN bmap' = DOMAIN bmap \ {id}
         /\ \A k \in DOMAIN bmap' : bmap'[k] = bmap[k]
         /\ heap' = heap /\ Refs' = Refs
         /\ MinIDIsOldest => MinIDIsOldest'
<1>1. /\ DOMAIN bmap' = DOMAIN bmap \ {id}
      /\ \A k \in DOMAIN bmap' : bmap'[k] = bmap[k]
      /\ heap' = heap /\ Refs' = Refs
  BY DEF Remove, Without, Refs
<1>2. ASSUME MinIDIsOldest PROVE MinIDIsOldest'
  <2>1. DOMAIN bmap' \subseteq Nat /\ DOMAIN bmap \subseteq Nat
    BY <1>1 DEF StoreType, Windows
  <2>2. /\ DOMAIN bmap' = {} => SmallestID(bmap') = NoMin
        /\ DOMAIN bmap' # {} => /\ SmallestID(bmap') \in DOMAIN bmap'
                                /\ \A j \in DOMAIN bmap' : SmallestID(bmap') <= j
    BY <2>1, SmallestIDIsLeast
  <2>3. minID' = IF id = minID THEN SmallestID(bmap') ELSE minID
    BY DEF Remove, MinAfterRemove
  <2> QED BY <1>1, <1>2, <2>2, <2>3 DEF MinIDIsOldest
<1> QED BY <1>1, <1>2

(***************************************************************************)
(* What a write under the lock of a bucket does: one request of one object *)
(* changes.                                                                *)
(***************************************************************************)
LEMMA WriteEffect ==
  ASSUME StoreType, NEW ref \in Refs, NEW s \in Seqs, NEW status \in Status,
         Write(ref, s, status)
  PROVE  /\ Refs' = Refs
         /\ \A i \in Refs : heap'[i].id = heap[i].id
         /\ \A i \in Refs : i # ref => heap'[i].requests = heap[i].requests
         /\ \A t \in Seqs : heap'[ref].requests[t] =
                              IF t = s THEN status ELSE heap[ref].requests[t]
<1> DEFINE b == [heap[ref] EXCEPT !.requests[s] = status]
<1>1. heap[ref] \in BucketType
  BY ElementOfSeq DEF Refs, StoreType
<1>2. /\ b \in BucketType /\ b.id = heap[ref].id
      /\ b.requests = [heap[ref].requests EXCEPT ![s] = status]
  BY <1>1 DEF BucketType
<1>3. heap' = [heap EXCEPT ![ref] = b]
  BY DEF Write
<1>4. /\ Len(heap') = Len(heap)
      /\ \A j \in 1 .. Len(heap) : heap'[j] = IF j = ref THEN b ELSE heap[j]
  BY <1>2, <1>3, ExceptSeq DEF Refs, StoreType
<1>5. heap[ref].requests \in [Seqs -> Status]
  BY <1>1 DEF BucketType
<1> HIDE DEF b
<1> QED BY <1>2, <1>4, <1>5 DEF Refs

(***************************************************************************)
(* Every step does one of five things to the store.                        *)
(***************************************************************************)
Creates(id) == id \in Windows /\ GetOrCreate(id) /\ UNCHANGED <<proc, lastID>>

Writes(ref, s, status) ==
  /\ ref \in Refs /\ s \in Seqs /\ status \in Status
  /\ Write(ref, s, status)
  /\ UNCHANGED <<bmap, minID, proc, lastID>>

Removes ==
  /\ proc.ref # Nil
  /\ \/ DiscardStale
     \/ RemoveReported

(***************************************************************************)
(* Each step, with the way it touches the store.                           *)
(***************************************************************************)
LEMMA StoreSteps ==
  ASSUME TypeOK, [Next]_vars
  PROVE  \/ UNCHANGED store /\ UNCHANGED lastID
         \/ Report
         \/ PutLookup /\ Creates(IDOf(wr.ts))
         \/ \E r \in Readers : CreateLookup(r) /\ Creates(rd[r].id)
         \/ PutStore /\ Writes(wr.ref, wr.seq,
                               AfterPut(heap[wr.ref].requests[wr.seq]))
         \/ DeleteErase /\ Writes(wr.ref, wr.seq, "none")
         \/ \E r \in Readers : \E ref \in Refs :
              /\ \/ UpdateCur(r) /\ ref = rd[r].cur /\ UpdateIn(r, ref)
                 \/ UpdatePrev(r) /\ ref = rd[r].prev /\ UpdateIn(r, ref)
                 \/ InsertReceived(r) /\ ref = rd[r].cur
              /\ Writes(ref, rd[r].seq,
                        AfterReceived(heap[ref].requests[rd[r].seq],
                                      rd[r].kind))
         \/ Removes
<1> USE DEF TypeOK
<1>1. CASE PutLookup
  <2>1. IDOf(wr.ts) \in Windows
    BY IDOfWindows DEF WriterType
  <2> QED BY <1>1, <2>1 DEF PutLookup, Creates
<1>2. ASSUME NEW r \in Readers, CreateLookup(r)
      PROVE  Creates(rd[r].id)
  BY <1>2 DEF CreateLookup, Creates, ReaderType
<1>3. CASE PutStore
  <2>1. wr.ref \in Refs /\ wr.seq \in Seqs
    BY <1>3 DEF PutStore, WriterType
  <2>2. heap[wr.ref] \in BucketType
    BY <2>1, ElementOfSeq DEF StoreType, Refs
  <2>3. AfterPut(heap[wr.ref].requests[wr.seq]) \in Status
    BY <2>1, <2>2 DEF AfterPut, Status, BucketType
  <2> QED BY <1>3, <2>1, <2>3 DEF PutStore, Writes
<1>4. CASE DeleteErase
  BY <1>4 DEF DeleteErase, Writes, WriterType, Status
<1>5. ASSUME NEW r \in Readers, NEW ref \in Refs, rd[r].pc # "idle",
             Write(ref, rd[r].seq,
                   AfterReceived(heap[ref].requests[rd[r].seq], rd[r].kind)),
             UNCHANGED <<bmap, minID, proc, lastID>>
      PROVE  Writes(ref, rd[r].seq,
                    AfterReceived(heap[ref].requests[rd[r].seq], rd[r].kind))
  BY <1>5 DEF Writes, ReaderType, AfterReceived, Status
<1>6. ASSUME NEW r \in Readers, UpdateCur(r)
      PROVE  \/ UNCHANGED store /\ UNCHANGED lastID
             \/ /\ rd[r].cur \in Refs /\ UpdateIn(r, rd[r].cur)
                /\ Writes(rd[r].cur, rd[r].seq,
                          AfterReceived(heap[rd[r].cur].requests[rd[r].seq],
                                        rd[r].kind))
  <2>1. rd[r].cur \in Refs \cup {Nil}
    BY DEF ReaderType
  <2>2. CASE UpdateIn(r, rd[r].cur)
    <3>1. rd[r].cur \in Refs
      BY <2>1, <2>2 DEF UpdateIn, Has
    <3> QED BY <1>5, <1>6, <2>2, <3>1 DEF UpdateCur, UpdateIn
  <2>3. CASE ~UpdateIn(r, rd[r].cur)
    BY <1>6, <2>3 DEF UpdateCur, store
  <2> QED BY <2>2, <2>3
<1>7. ASSUME NEW r \in Readers, UpdatePrev(r)
      PROVE  \/ UNCHANGED store /\ UNCHANGED lastID
             \/ /\ rd[r].prev \in Refs /\ UpdateIn(r, rd[r].prev)
                /\ Writes(rd[r].prev, rd[r].seq,
                          AfterReceived(heap[rd[r].prev].requests[rd[r].seq],
                                        rd[r].kind))
  <2>1. rd[r].prev \in Refs \cup {Nil}
    BY DEF ReaderType
  <2>2. CASE UpdateIn(r, rd[r].prev)
    <3>1. rd[r].prev \in Refs
      BY <2>1, <2>2 DEF UpdateIn, Has
    <3> QED BY <1>5, <1>7, <2>2, <3>1 DEF UpdatePrev, UpdateIn
  <2>3. CASE ~UpdateIn(r, rd[r].prev)
    BY <1>7, <2>3 DEF UpdatePrev, store
  <2> QED BY <2>2, <2>3
<1>8. ASSUME NEW r \in Readers, InsertReceived(r)
      PROVE  /\ rd[r].cur \in Refs
             /\ Writes(rd[r].cur, rd[r].seq,
                       AfterReceived(heap[rd[r].cur].requests[rd[r].seq],
                                     rd[r].kind))
  <2>1. rd[r].cur \in Refs
    BY <1>8 DEF InsertReceived, ReaderType
  <2> QED BY <1>5, <1>8, <2>1 DEF InsertReceived
<1>9. CASE DiscardStale \/ RemoveReported
  BY <1>9 DEF Removes, DiscardStale, RemoveReported, ProcType
<1>10. \/ \E s \in Seqs : BeginProbe(s)
       \/ \E n \in 0 .. MaxCopies : SendOK(n)
       \/ SendFails \/ DeadlineFails \/ DeleteLookup
       \/ \E r \in Readers, s \in Seqs, kind \in Kinds : Receive(r, s, kind)
       \/ \E r \in Readers : Find(r)
       \/ StartProcessor \/ TakeTick \/ FetchOldest \/ CheckAge
       \/ NothingToReport \/ ReloadOldest \/ Tick \/ LateTick
       \/ UNCHANGED vars
       => UNCHANGED store /\ UNCHANGED lastID
  BY DEF BeginProbe, SendOK, SendFails, DeadlineFails, DeleteLookup, Receive,
         Find, StartProcessor, TakeTick, FetchOldest, CheckAge,
         NothingToReport, ReloadOldest, Tick, LateTick, vars, store
<1>11. \/ \E s \in Seqs : BeginProbe(s)
       \/ \E n \in 0 .. MaxCopies : SendOK(n)
       \/ SendFails \/ DeadlineFails \/ DeleteLookup
       \/ \E r \in Readers, s \in Seqs, kind \in Kinds : Receive(r, s, kind)
       \/ \E r \in Readers : Find(r)
       \/ StartProcessor \/ TakeTick \/ FetchOldest \/ CheckAge
       \/ NothingToReport \/ ReloadOldest \/ Tick \/ LateTick
       \/ UNCHANGED vars
       \/ PutLookup \/ PutStore \/ DeleteErase
       \/ \E r \in Readers : \/ UpdateCur(r) \/ UpdatePrev(r)
                             \/ CreateLookup(r) \/ InsertReceived(r)
       \/ DiscardStale \/ RemoveReported \/ Report
  BY DEF Next, Writer, Reader, Processor, StatOnce
<1> QED
  BY <1>1, <1>2, <1>3, <1>4, <1>6, <1>7, <1>8, <1>9, <1>10, <1>11

(***************************************************************************)
(* The same without the step that did it.                                  *)
(***************************************************************************)
LEMMA StoreChanges ==
  ASSUME TypeOK, [Next]_vars
  PROVE  \/ UNCHANGED store \/ Removes \/ Report
         \/ \E id : Creates(id)
         \/ \E ref, s, status : Writes(ref, s, status)
<1>1. PutLookup /\ Creates(IDOf(wr.ts)) => \E id : Creates(id)
  OBVIOUS
<1>2. (\E r \in Readers : CreateLookup(r) /\ Creates(rd[r].id))
        => \E id : Creates(id)
  OBVIOUS
<1>3. PutStore /\ Writes(wr.ref, wr.seq,
                         AfterPut(heap[wr.ref].requests[wr.seq]))
        => \E ref, s, status : Writes(ref, s, status)
  OBVIOUS
<1>4. DeleteErase /\ Writes(wr.ref, wr.seq, "none")
        => \E ref, s, status : Writes(ref, s, status)
  OBVIOUS
<1>5. ASSUME NEW r \in Readers, NEW ref \in Refs,
             Writes(ref, rd[r].seq,
                    AfterReceived(heap[ref].requests[rd[r].seq],
                                  rd[r].kind))
      PROVE  \E i, s, status : Writes(i, s, status)
  BY <1>5
<1> QED BY <1>1, <1>2, <1>3, <1>4, <1>5, StoreSteps

(***************************************************************************)
(* Across one step: objects keep their window, the last reported window    *)
(* never goes back, and a window that is not yet reported keeps its        *)
(* object.                                                                 *)
(***************************************************************************)
StoreEvolves ==
  /\ lastID' \in Windows /\ lastID <= lastID'
  /\ Refs \subseteq Refs'
  /\ \A i \in Refs : heap'[i].id = heap[i].id
  /\ \A k \in DOMAIN bmap :
       k > lastID' => k \in DOMAIN bmap' /\ bmap'[k] = bmap[k]

(***************************************************************************)
(* statOnce removes only windows that were reported or passed over.        *)
(***************************************************************************)
LEMMA RemovesOnlyReported ==
  ASSUME TypeOK, ProcHolds, Removes
  PROVE  /\ Remove(heap[proc.ref].id)
         /\ heap[proc.ref].id \in Windows /\ heap[proc.ref].id <= lastID
         /\ UNCHANGED lastID
<1>1. proc.ref \in Refs
  BY DEF Removes, TypeOK, ProcType
<1>2. heap[proc.ref] \in BucketType
  BY <1>1, ElementOfSeq DEF TypeOK, StoreType, Refs
<1>3. heap[proc.ref].id \in Windows /\ lastID \in Windows
  BY <1>2 DEF BucketType, TypeOK, ProcType
<1> QED BY <1>3 DEF Removes, DiscardStale, RemoveReported, ProcHolds, Stale,
                    Windows

(***************************************************************************)
(* Every step lets the store evolve in that way.                           *)
(***************************************************************************)
LEMMA Evolution ==
  ASSUME TypeOK, ProcHolds, [Next]_vars
  PROVE  StoreEvolves
<1>t. StoreType /\ lastID \in Windows /\ lastID \in Int
  BY DEF TypeOK, ProcType, Windows
<1>1. CASE UNCHANGED store /\ UNCHANGED lastID
  BY <1>1, <1>t DEF store, StoreEvolves, Refs
<1>2. CASE Report
  <2>1. proc.ref \in Refs
    BY <1>2 DEF Report, TypeOK, ProcType
  <2>2. heap[proc.ref] \in BucketType
    BY <2>1, ElementOfSeq, <1>t DEF StoreType, Refs
  <2>3. heap[proc.ref].id \in Windows
    BY <2>2 DEF BucketType
  <2> QED BY <1>2, <1>t, <2>3
          DEF Report, store, StoreEvolves, Refs, Stale, Windows
<1>3. ASSUME NEW id, Creates(id) PROVE StoreEvolves
  <2>1. id \in Windows /\ GetOrCreate(id) /\ lastID' = lastID
    BY <1>3 DEF Creates
  <2>2. /\ DOMAIN bmap' = DOMAIN bmap \cup {id}
        /\ \A k \in DOMAIN bmap : bmap'[k] = bmap[k]
        /\ Refs \subseteq Refs'
        /\ \A i \in Refs : heap'[i] = heap[i]
    BY <2>1, <1>t, CreateEffect
  <2> QED BY <2>1, <2>2, <1>t DEF StoreEvolves
<1>4. ASSUME NEW ref, NEW s, NEW status, Writes(ref, s, status)
      PROVE  StoreEvolves
  <2>1. /\ ref \in Refs /\ s \in Seqs /\ status \in Status
        /\ Write(ref, s, status) /\ bmap' = bmap /\ lastID' = lastID
    BY <1>4 DEF Writes
  <2>2. Refs' = Refs /\ \A i \in Refs : heap'[i].id = heap[i].id
    BY <2>1, <1>t, WriteEffect
  <2> QED BY <2>1, <2>2, <1>t DEF StoreEvolves
<1>5. CASE Removes
  <2> DEFINE id == heap[proc.ref].id
  <2>1. Remove(id) /\ id \in Windows /\ id <= lastID /\ lastID' = lastID
    BY <1>5, RemovesOnlyReported
  <2> HIDE DEF id
  <2>2. /\ DOMAIN bmap' = DOMAIN bmap \ {id}
        /\ \A k \in DOMAIN bmap' : bmap'[k] = bmap[k]
        /\ heap' = heap /\ Refs' = Refs
    BY <2>1, <1>t, RemoveEffect
  <2> QED BY <2>1, <2>2, <1>t DEF StoreEvolves, StoreType, Windows
<1>6. ASSUME NEW r \in Readers, CreateLookup(r) /\ Creates(rd[r].id)
      PROVE  StoreEvolves
  BY <1>3, <1>6
<1>7. CASE PutLookup /\ Creates(IDOf(wr.ts))
  BY <1>3, <1>7
<1>8. CASE PutStore /\ Writes(wr.ref, wr.seq,
                             AfterPut(heap[wr.ref].requests[wr.seq]))
  BY <1>4, <1>8
<1>9. CASE DeleteErase /\ Writes(wr.ref, wr.seq, "none")
  BY <1>4, <1>9
<1>10. ASSUME NEW r \in Readers, NEW ref \in Refs,
              Writes(ref, rd[r].seq,
                     AfterReceived(heap[ref].requests[rd[r].seq], rd[r].kind))
       PROVE  StoreEvolves
  BY <1>4, <1>10
<1> QED
  BY <1>1, <1>2, <1>5, <1>6, <1>7, <1>8, <1>9, <1>10, StoreSteps

(***************************************************************************)
(* What a goroutine relies on about its *bucket survives the steps of the  *)
(* others.                                                                 *)
(***************************************************************************)
LEMMA HeldStable ==
  ASSUME StoreEvolves, lastID \in Windows, NEW ref, NEW id \in Int,
         Held(ref, id)
  PROVE  Held(ref, id)'
BY DEF Held, StoreEvolves, Windows

(***************************************************************************)
(* A step is one of an actor, and an actor leaves the others alone.        *)
(***************************************************************************)
ReadersStep ==
  \E r \in Readers :
    \/ \E s \in Seqs, kind \in Kinds : Receive(r, s, kind)
    \/ Reader(r)

(***************************************************************************)
(* Every step is one of the writer, the readers, the Processor or time.    *)
(***************************************************************************)
LEMMA StepsByActor ==
  ASSUME [Next]_vars
  PROVE  Writer \/ ReadersStep \/ Processor \/ Tick \/ LateTick
           \/ UNCHANGED vars
BY DEF Next, ReadersStep

(***************************************************************************)
(* The send loop touches neither the readers nor the Processor.            *)
(***************************************************************************)
LEMMA WriterFrames ==
  ASSUME Writer
  PROVE  UNCHANGED <<now, rd, proc, lastID, ticker, reports>>
BY DEF Writer, BeginProbe, PutLookup, PutStore, SendOK, SendFails,
       DeadlineFails, DeleteLookup, DeleteErase

(***************************************************************************)
(* The readers touch neither the send loop nor the Processor.              *)
(***************************************************************************)
LEMMA ReadersFrame ==
  ASSUME ReadersStep
  PROVE  UNCHANGED <<now, wr, sentTs, proc, lastID, ticker, reports>>
BY DEF ReadersStep, Reader, Receive, Find, UpdateCur, UpdatePrev,
       CreateLookup, InsertReceived

(***************************************************************************)
(* The Processor touches neither the send loop nor the readers.            *)
(***************************************************************************)
LEMMA ProcessorFrame ==
  ASSUME Processor
  PROVE  UNCHANGED <<now, wr, sentTs, wire, rd, hist>>
BY DEF Processor, StatOnce, StartProcessor, TakeTick, FetchOldest, CheckAge,
       NothingToReport, DiscardStale, ReloadOldest, Report, RemoveReported

(***************************************************************************)
(* Time touches only the clock and the ticker.                             *)
(***************************************************************************)
LEMMA TimeFrame ==
  ASSUME Tick \/ LateTick \/ UNCHANGED vars
  PROVE  UNCHANGED <<store, lastID, wr, sentTs, wire, rd, proc, reports, hist>>
BY DEF Tick, LateTick, vars, store

(***************************************************************************)
(* The steps of the inductive invariant, one part each.                    *)
(***************************************************************************)
LEMMA MinAndKeysStep ==
  ASSUME TypeOK, HeapInv, [Next]_vars
  PROVE  MinIDIsOldest' /\ KeysMatch'
<1>t. StoreType /\ MinIDIsOldest /\ KeysMatch /\ ProcHolds
  BY DEF TypeOK, HeapInv, BucketsInHand
<1>0. \A k \in DOMAIN bmap : bmap[k] \in Refs
  BY <1>t DEF StoreType
<1>1. CASE UNCHANGED store
  BY <1>1, <1>t DEF store, MinIDIsOldest, KeysMatch
<1>2. ASSUME NEW id, Creates(id) PROVE MinIDIsOldest' /\ KeysMatch'
  <2>1. id \in Windows /\ GetOrCreate(id)
    BY <1>2 DEF Creates
  <2>2. /\ DOMAIN bmap' = DOMAIN bmap \cup {id}
        /\ \A k \in DOMAIN bmap : bmap'[k] = bmap[k]
        /\ \A i \in Refs : heap'[i] = heap[i]
        /\ id \notin DOMAIN bmap => heap'[bmap'[id]] = NewBucket(id)
        /\ MinIDIsOldest'
    BY <2>1, <1>t, CreateEffect
  <2>3. NewBucket(id).id = id
    BY DEF NewBucket
  <2> QED BY <2>2, <2>3, <1>t, <1>0 DEF KeysMatch
<1>3. ASSUME NEW ref, NEW s, NEW status, Writes(ref, s, status)
      PROVE  MinIDIsOldest' /\ KeysMatch'
  <2>1. /\ ref \in Refs /\ s \in Seqs /\ status \in Status
        /\ Write(ref, s, status) /\ bmap' = bmap /\ minID' = minID
    BY <1>3 DEF Writes
  <2>2. \A i \in Refs : heap'[i].id = heap[i].id
    BY <2>1, <1>t, WriteEffect
  <2> QED BY <2>1, <2>2, <1>t, <1>0 DEF MinIDIsOldest, KeysMatch
<1>4. CASE Removes
  <2> DEFINE id == heap[proc.ref].id
  <2>1. Remove(id)
    BY <1>4, <1>t, RemovesOnlyReported
  <2> HIDE DEF id
  <2>2. /\ DOMAIN bmap' = DOMAIN bmap \ {id}
        /\ \A k \in DOMAIN bmap' : bmap'[k] = bmap[k]
        /\ heap' = heap /\ MinIDIsOldest'
    BY <2>1, <1>t, RemoveEffect
  <2> QED BY <2>2, <1>t DEF KeysMatch
<1>5. Report => UNCHANGED store
  BY DEF Report
<1>6. \/ UNCHANGED store \/ Removes \/ Report
      \/ \E id : Creates(id)
      \/ \E ref, s, status : Writes(ref, s, status)
  BY StoreChanges
<1> QED BY <1>1, <1>2, <1>3, <1>4, <1>5, <1>6

(***************************************************************************)
(* Put and Delete use an object that is still the right one.               *)
(***************************************************************************)
LEMMA WriterHoldsStep ==
  ASSUME TypeOK, HeapInv, [Next]_vars
  PROVE  WriterHolds'
<1>t. /\ StoreType /\ WriterHolds /\ KeysMatch /\ StoreEvolves
      /\ lastID \in Windows
  BY Evolution DEF TypeOK, HeapInv, BucketsInHand, ProcType
<1>1. IDOf(wr.ts) \in Windows /\ IDOf(wr.ts) \in Int
  BY IDOfWindows DEF TypeOK, WriterType, Windows
<1>2. CASE PutLookup
  <2> DEFINE id == IDOf(wr.ts)
  <2>1. GetOrCreate(id) /\ wr'.ref = bmap'[id] /\ wr'.ts = wr.ts
        /\ lastID' = lastID
    BY <1>2 DEF PutLookup, TypeOK, WriterType
  <2>2. IDOf(wr'.ts) = id
    BY <2>1
  <2> HIDE DEF id
  <2>3. id \in DOMAIN bmap' /\ bmap'[id] \in Refs'
    BY <1>1, <1>t, <2>1, CreateEffect DEF id
  <2>4. KeysMatch'
    BY MinAndKeysStep
  <2> QED BY <2>1, <2>2, <2>3, <2>4 DEF WriterHolds, Held, KeysMatch
<1>3. CASE DeleteLookup
  <2> DEFINE id == IDOf(wr.ts)
  <2>1. CASE Lookup(bmap, id) = Nil
    BY <1>3, <2>1 DEF DeleteLookup, IdleWriter, WriterHolds
  <2>2. CASE Lookup(bmap, id) # Nil
    <3>1. /\ wr'.ref = Lookup(bmap, id) /\ wr'.ts = wr.ts
          /\ UNCHANGED <<bmap, heap, lastID>>
      BY <1>3, <2>2 DEF DeleteLookup, TypeOK, WriterType, store
    <3>2. IDOf(wr'.ts) = id
      BY <3>1
    <3> HIDE DEF id
    <3>3. id \in DOMAIN bmap /\ wr'.ref = bmap[id] /\ bmap[id] \in Refs
      BY <2>2, <3>1, <1>t DEF Lookup, StoreType
    <3> QED BY <3>1, <3>2, <3>3, <1>t DEF WriterHolds, Held, KeysMatch, Refs
  <2> QED BY <2>1, <2>2
<1>4. CASE wr'.pc \notin {"store", "erase"}
  BY <1>4 DEF WriterHolds
<1>5. CASE UNCHANGED wr
  <2>1. SUFFICES ASSUME wr.pc \in {"store", "erase"}
                 PROVE  Held(wr.ref, IDOf(wr.ts))'
    BY <1>5 DEF WriterHolds
  <2>2. Held(wr.ref, IDOf(wr.ts))
    BY <1>t, <2>1 DEF WriterHolds
  <2>3. IDOf(wr'.ts) = IDOf(wr.ts) /\ wr'.ref = wr.ref
    BY <1>5
  <2> QED BY <1>t, <1>1, <2>2, <2>3, HeldStable DEF Held
<1>6. \/ PutLookup \/ DeleteLookup \/ UNCHANGED wr
      \/ wr'.pc \notin {"store", "erase"}
  <2>1. wr \in [pc : {"idle", "lookup", "store", "send", "delete", "erase"},
               seq : Seqs \cup {NoSeq}, ts : 0 .. MaxTime,
               ref : Refs \cup {Nil}]
    BY DEF TypeOK, WriterType
  <2>2. CASE Writer
    <3>1. IdleWriter.pc = "idle"
      BY DEF IdleWriter
    <3>2. (\E s \in Seqs : BeginProbe(s)) => wr'.pc \in {"send", "lookup"}
      BY DEF BeginProbe
    <3>3. PutStore => wr'.pc \in {"idle", "send"}
      BY <2>1, <3>1 DEF PutStore
    <3>4. (\E n \in 0 .. MaxCopies : SendOK(n)) => wr'.pc \in {"idle", "lookup"}
      BY <2>1, <3>1 DEF SendOK
    <3>5. SendFails => wr'.pc \in {"idle", "delete"}
      BY <2>1, <3>1 DEF SendFails
    <3>6. DeadlineFails \/ DeleteErase => wr'.pc = "idle"
      BY <3>1 DEF DeadlineFails, DeleteErase
    <3> QED BY <2>2, <3>2, <3>3, <3>4, <3>5, <3>6 DEF Writer
  <2> QED BY <2>2, StepsByActor, ReadersFrame, ProcessorFrame, TimeFrame
<1> QED BY <1>2, <1>3, <1>4, <1>5, <1>6

(***************************************************************************)
(* A lookup under the lock yields an object that can be relied on.         *)
(***************************************************************************)
LEMMA LookupHeld ==
  ASSUME StoreType, KeysMatch, NEW id, Lookup(bmap, id) # Nil
  PROVE  Held(Lookup(bmap, id), id)
BY DEF Lookup, StoreType, KeysMatch, Held

(***************************************************************************)
(* What a step does to one reader.                                         *)
(***************************************************************************)
LEMMA OneReader ==
  ASSUME TypeOK, [Next]_vars, NEW r \in Readers
  PROVE  \/ rd'[r] = rd[r]
         \/ \E s \in Seqs, kind \in Kinds : Receive(r, s, kind)
         \/ Find(r)
         \/ /\ rd'[r] = [rd[r] EXCEPT !.pc = "updatePrev"] /\ rd[r].pc = "update"
            /\ ~ Has(rd[r].cur, rd[r].seq)
         \/ /\ rd'[r] = [rd[r] EXCEPT !.pc = "create"] /\ rd[r].pc = "updatePrev"
            /\ ~ Has(rd[r].prev, rd[r].seq)
         \/ CreateLookup(r)
         \/ rd'[r] = IdleReader
<1>1. DOMAIN rd = Readers
  BY DEF TypeOK, ReaderType
<1>2. CASE ReadersStep
  <2>1. PICK q \in Readers :
          \/ \E s \in Seqs, kind \in Kinds : Receive(q, s, kind)
          \/ Reader(q)
    BY <1>2 DEF ReadersStep
  <2>2. CASE q # r
    BY <1>1, <2>1, <2>2 DEF Reader, Receive, Find, UpdateCur, UpdatePrev,
                            CreateLookup, InsertReceived, UpdateIn
  <2>3. CASE q = r
    BY <1>1, <2>1, <2>3 DEF Reader, UpdateCur, UpdatePrev, InsertReceived,
                            UpdateIn
  <2> QED BY <2>2, <2>3
<1> QED BY <1>2, StepsByActor, WriterFrames, ProcessorFrame, TimeFrame

(***************************************************************************)
(* Received uses objects that are still the right ones.                    *)
(***************************************************************************)
LEMMA ReaderHoldsStep ==
  ASSUME TypeOK, HeapInv, [Next]_vars
  PROVE  ReaderHolds'
<1> SUFFICES ASSUME NEW r \in Readers PROVE HoldsCur(r)' /\ HoldsPrev(r)'
  BY DEF ReaderHolds
<1>t. /\ StoreType /\ HoldsCur(r) /\ HoldsPrev(r) /\ KeysMatch /\ StoreEvolves
      /\ lastID \in Windows
  BY Evolution DEF TypeOK, HeapInv, BucketsInHand, ProcType, ReaderHolds
<1>u. /\ rd \in [Readers ->
                 [pc : {"idle", "find", "update", "updatePrev", "create",
                        "insert"},
                  seq : Seqs \cup {NoSeq}, kind : {"ack", "rst"},
                  id : Windows,
                  cur : Refs \cup {Nil}, prev : Refs \cup {Nil},
                  recorded : Windows]]
      /\ rd[r].id \in Windows /\ rd[r].id \in Int /\ rd[r].id - 1 \in Int
  BY DEF TypeOK, ReaderType, Windows
<1>1. ASSUME rd'[r].cur = rd[r].cur, rd'[r].prev = rd[r].prev,
             rd'[r].id = rd[r].id,
             rd[r].pc \in {"update", "updatePrev"}
             \/ (rd[r].pc = "insert" /\ rd'[r].pc = "insert"),
             rd'[r].pc = "insert" => rd[r].pc = "insert"
      PROVE  HoldsCur(r)' /\ HoldsPrev(r)'
  <2>1. Held(rd[r].cur, rd[r].id) => Held(rd[r].cur, rd[r].id)'
    <3>1. SUFFICES ASSUME Held(rd[r].cur, rd[r].id)
                   PROVE  Held(rd[r].cur, rd[r].id)'
      OBVIOUS
    <3>2. DEFINE ref == rd[r].cur
                 id == rd[r].id
    <3>3. /\ ref \in Refs /\ heap[ref].id = id
          /\ id > lastID => id \in DOMAIN bmap /\ bmap[id] = ref
      BY <3>1 DEF Held
    <3>4. ref' = ref /\ id' = id
      BY <1>1
    <3>5. id \in Int
      BY <1>u
    <3> HIDE DEF ref, id
    <3>6. /\ ref \in Refs' /\ heap'[ref].id = id
          /\ id > lastID' => id \in DOMAIN bmap' /\ bmap'[id] = ref
      BY <1>t, <3>3, <3>5 DEF StoreEvolves, Windows
    <3> QED BY <3>4, <3>6 DEF Held, ref, id
  <2>2. Held(rd[r].prev, rd[r].id - 1) => Held(rd[r].prev, rd[r].id - 1)'
    <3>1. SUFFICES ASSUME Held(rd[r].prev, rd[r].id - 1)
                   PROVE  Held(rd[r].prev, rd[r].id - 1)'
      OBVIOUS
    <3>2. DEFINE ref == rd[r].prev
                 id == rd[r].id - 1
    <3>3. /\ ref \in Refs /\ heap[ref].id = id
          /\ id > lastID => id \in DOMAIN bmap /\ bmap[id] = ref
      BY <3>1 DEF Held
    <3>4. ref' = ref /\ id' = id
      BY <1>1
    <3>5. id \in Int
      BY <1>u
    <3> HIDE DEF ref, id
    <3>6. /\ ref \in Refs' /\ heap'[ref].id = id
          /\ id > lastID' => id \in DOMAIN bmap' /\ bmap'[id] = ref
      BY <1>t, <3>3, <3>5 DEF StoreEvolves, Windows
    <3> QED BY <3>4, <3>6 DEF Held, ref, id
  <2> QED BY <1>1, <1>t, <2>1, <2>2 DEF HoldsCur, HoldsPrev
<1>2. CASE rd'[r].pc \notin {"update", "updatePrev", "insert"}
  BY <1>2 DEF HoldsCur, HoldsPrev
<1>3. CASE rd'[r] = rd[r]
  BY <1>1, <1>2, <1>3
<1>4. CASE \E s \in Seqs, kind \in Kinds : Receive(r, s, kind)
  <2>1. rd'[r].pc = "find"
    BY <1>4, <1>u DEF Receive
  <2> QED BY <1>2, <2>1
<1>5. CASE Find(r)
  <2>1. /\ rd'[r].pc = "update" /\ rd'[r].id = rd[r].id
        /\ rd'[r].cur = Lookup(bmap, rd[r].id)
        /\ rd'[r].prev = Lookup(bmap, rd[r].id - 1)
        /\ UNCHANGED <<store, lastID>>
    BY <1>5, <1>u DEF Find
  <2>2. rd'[r].cur # Nil => Held(rd[r].cur, rd[r].id)'
    BY <1>t, <2>1, LookupHeld DEF Held, store, Refs
  <2>3. rd'[r].prev # Nil => Held(rd[r].prev, rd[r].id - 1)'
    BY <1>t, <2>1, LookupHeld DEF Held, store, Refs
  <2> QED BY <2>1, <2>2, <2>3 DEF HoldsCur, HoldsPrev
<1>6. CASE rd'[r] = [rd[r] EXCEPT !.pc = "updatePrev"] /\ rd[r].pc = "update"
  BY <1>1, <1>6, <1>u
<1>7. CASE rd'[r] = [rd[r] EXCEPT !.pc = "create"]
  BY <1>2, <1>7, <1>u
<1>8. CASE CreateLookup(r)
  <2> DEFINE id == rd[r].id
  <2>1. /\ GetOrCreate(id) /\ rd'[r].cur = bmap'[id] /\ rd'[r].id = id
        /\ lastID' = lastID /\ rd'[r].pc = "insert"
    BY <1>8, <1>u DEF CreateLookup
  <2>2. id \in Windows
    BY <1>u
  <2> HIDE DEF id
  <2>3. id \in DOMAIN bmap' /\ bmap'[id] \in Refs'
    BY <2>2, <1>t, <2>1, CreateEffect
  <2>4. KeysMatch'
    BY MinAndKeysStep
  <2> QED BY <2>1, <2>3, <2>4 DEF HoldsCur, HoldsPrev, Held, KeysMatch
<1>9. CASE rd'[r] = IdleReader
  BY <1>2, <1>9 DEF IdleReader
<1> QED BY <1>3, <1>4, <1>5, <1>6, <1>7, <1>8, <1>9, OneReader

(***************************************************************************)
(* statOnce keeps its bucket in the map until it removes it.               *)
(***************************************************************************)
LEMMA ProcHoldsStep ==
  ASSUME TypeOK, HeapInv, [Next]_vars
  PROVE  ProcHolds'
<1>t. /\ StoreType /\ ProcHolds /\ KeysMatch /\ MinIDIsOldest
      /\ proc.ref \in Refs \cup {Nil}
  BY DEF TypeOK, HeapInv, BucketsInHand, ProcType
<1>u. /\ proc \in [pc : {"sleep", "wait", "oldest", "check", "loop", "reload",
                        "remove"},
                   ref : Refs \cup {Nil}, dropped : Windows]
      /\ Refs = 1 .. Len(heap) /\ Nil = 0
  BY DEF TypeOK, ProcType, Refs, Nil
<1>0. \A k \in DOMAIN bmap : bmap[k] \in Refs
  BY <1>t DEF StoreType
<1>1. CASE UNCHANGED store /\ UNCHANGED lastID /\ UNCHANGED proc
  BY <1>1, <1>t DEF store, ProcHolds
<1>2. ASSUME NEW id, Creates(id) PROVE ProcHolds'
  <2>1. id \in Windows /\ GetOrCreate(id) /\ UNCHANGED <<proc, lastID>>
    BY <1>2 DEF Creates
  <2>2. /\ DOMAIN bmap' = DOMAIN bmap \cup {id}
        /\ \A k \in DOMAIN bmap : bmap'[k] = bmap[k]
        /\ \A i \in Refs : heap'[i] = heap[i]
    BY <2>1, <1>t, CreateEffect
  <2>3. proc.ref # Nil => proc.ref \in Refs
    BY <1>t
  <2>4. proc.pc = "remove" => proc.ref # Nil
    BY DEF TypeOK, ProcType
  <2> QED BY <2>1, <2>2, <2>3, <2>4, <1>t DEF ProcHolds
<1>3. ASSUME NEW ref, NEW s, NEW status, Writes(ref, s, status)
      PROVE  ProcHolds'
  <2>1. /\ ref \in Refs /\ s \in Seqs /\ status \in Status
        /\ Write(ref, s, status) /\ UNCHANGED <<bmap, proc, lastID>>
    BY <1>3 DEF Writes
  <2>2. \A i \in Refs : heap'[i].id = heap[i].id
    BY <2>1, <1>t, WriteEffect
  <2>3. proc.pc = "remove" => proc.ref # Nil
    BY DEF TypeOK, ProcType
  <2> QED BY <2>1, <2>2, <2>3, <1>t DEF ProcHolds
<1>4. CASE proc'.pc \notin {"check", "loop", "remove"}
  BY <1>4 DEF ProcHolds
<1>5. ASSUME proc'.ref = Oldest(bmap, minID), UNCHANGED <<store, lastID>>,
             proc'.pc \in {"check", "loop"}
      PROVE  ProcHolds'
  <2>1. proc'.ref # Nil => /\ minID \in DOMAIN bmap /\ proc'.ref = bmap[minID]
    BY <1>5 DEF Oldest, Lookup
  <2>2. proc'.ref # Nil => heap[proc'.ref].id = minID
    BY <2>1, <1>t DEF KeysMatch
  <2> QED BY <1>5, <2>1, <2>2 DEF ProcHolds, store
<1>6. CASE Processor
  <2>1. CASE StartProcessor \/ TakeTick
    <3>1. proc'.pc = "oldest"
      BY <2>1 DEF StartProcessor, TakeTick, IdleProc
    <3> QED BY <3>1, <1>4
  <2>2. CASE FetchOldest \/ ReloadOldest
    BY <2>2, <1>5, <1>u DEF FetchOldest, ReloadOldest
  <2>3. CASE CheckAge
    <3>1. CASE proc' = IdleProc
      BY <3>1, <1>4 DEF IdleProc
    <3>2. CASE proc' = [proc EXCEPT !.pc = "loop"]
      <4>1. /\ proc.pc = "check" /\ proc'.pc = "loop" /\ proc'.ref = proc.ref
            /\ UNCHANGED <<bmap, heap>>
        BY <2>3, <3>2, <1>u DEF CheckAge, store
      <4> QED BY <4>1, <1>t DEF ProcHolds
    <3> QED BY <2>3, <3>1, <3>2 DEF CheckAge
  <2>4. CASE NothingToReport \/ RemoveReported
    <3>1. proc'.pc = "wait"
      BY <2>4 DEF NothingToReport, RemoveReported, IdleProc
    <3> QED BY <3>1, <1>4
  <2>5. CASE DiscardStale
    <3>1. proc'.pc = "reload"
      BY <2>5, <1>u DEF DiscardStale
    <3> QED BY <3>1, <1>4
  <2>6. CASE Report
    <3>1. /\ proc.pc = "loop" /\ proc.ref # Nil /\ proc'.ref = proc.ref
          /\ lastID' = heap[proc.ref].id /\ UNCHANGED <<bmap, heap>>
      BY <2>6, <1>u DEF Report, store
    <3> QED BY <3>1, <1>t DEF ProcHolds
  <2> QED BY <1>6, <2>1, <2>2, <2>3, <2>4, <2>5, <2>6 DEF Processor, StatOnce
<1>7. CASE Tick \/ LateTick \/ UNCHANGED vars
  BY <1>1, <1>7, TimeFrame DEF store
<1>8. CASE Writer \/ ReadersStep
  <2>1. UNCHANGED <<proc, lastID>>
    BY <1>8, WriterFrames, ReadersFrame
  <2>2. \/ UNCHANGED store
        \/ \E id : Creates(id)
        \/ \E ref, s, status : Writes(ref, s, status)
    <3>1. \/ UNCHANGED store \/ Removes \/ Report
          \/ \E id : Creates(id)
          \/ \E ref, s, status : Writes(ref, s, status)
      BY StoreChanges
    <3>2. proc'.pc = proc.pc
      BY <2>1
    <3>3. Removes => proc'.pc # proc.pc
      <4>1. DiscardStale => proc.pc = "loop" /\ proc'.pc = "reload"
        BY <1>u DEF DiscardStale
      <4>2. RemoveReported => proc.pc = "remove" /\ proc'.pc = "wait"
        BY <1>u DEF RemoveReported, IdleProc
      <4> QED BY <4>1, <4>2 DEF Removes
    <3>4. Report => proc'.pc # proc.pc
      BY <1>u DEF Report
    <3> QED BY <3>1, <3>2, <3>3, <3>4
  <2> QED BY <1>1, <1>2, <1>3, <2>1, <2>2
<1> QED BY <1>6, <1>7, <1>8, StepsByActor

(***************************************************************************)
(* The empty store satisfies the inductive invariant.                      *)
(***************************************************************************)
LEMMA HeapInvInit == Init => HeapInv
BY DEF Init, HeapInv, BucketsInHand, MinIDIsOldest, KeysMatch, WriterHolds, ReaderHolds,
       HoldsCur, HoldsPrev, ProcHolds, IdleWriter, IdleReader

(***************************************************************************)
(* Every step preserves the inductive invariant.                           *)
(***************************************************************************)
LEMMA HeapInvStep == TypeOK /\ HeapInv /\ [Next]_vars => HeapInv'
BY MinAndKeysStep, WriterHoldsStep, ReaderHoldsStep, ProcHoldsStep
   DEF HeapInv, BucketsInHand

(***************************************************************************)
(* The inductive invariant of the store holds throughout.                  *)
(***************************************************************************)
THEOREM HeapInvariant == Spec => []HeapInv
BY HeapInvInit, HeapInvStep, TypeCorrect, PTL DEF Spec

(***************************************************************************)
(* buckets.minID is the smallest key of the map after every step of every  *)
(* goroutine, so oldest() returns nil only when there is no bucket.        *)
(***************************************************************************)
THEOREM OldestIsFound == Spec => []MinIDIsOldest
<1>1. HeapInv => MinIDIsOldest
  BY DEF HeapInv
<1> QED BY <1>1, HeapInvariant, PTL
(***************************************************************************)
(* No goroutine ever works on a bucket object that another one of the same *)
(* window has replaced: the gap between lookup and use that put, delete    *)
(* and received leave open loses nothing but what belongs to a window      *)
(* already reported.                                                       *)
(***************************************************************************)
THEOREM BucketsHeld == Spec => []BucketsInHand
<1>1. HeapInv => BucketsInHand
  BY DEF HeapInv
<1> QED BY <1>1, HeapInvariant, PTL
-----------------------------------------------------------------------------
(* reports in order                                                        *)

ReportsUpTo == \A i \in DOMAIN reports : reports[i].id <= lastID

(***************************************************************************)
(* The windows of the reports strictly increase: statOnce reports a window *)
(* at most once and never goes back, whatever late Puts and answers make   *)
(* again.                                                                  *)
(***************************************************************************)
THEOREM InOrderOnce == Spec => []ReportsIncrease
<1>1. Init => ReportsIncrease /\ ReportsUpTo
  BY DEF Init, ReportsIncrease, ReportsUpTo
<1>2. TypeOK /\ TypeOK' /\ ReportsIncrease /\ ReportsUpTo /\ [Next]_vars
        => ReportsIncrease' /\ ReportsUpTo'
  <2> SUFFICES ASSUME TypeOK, TypeOK', ReportsIncrease, ReportsUpTo,
                      [Next]_vars
               PROVE  ReportsIncrease' /\ ReportsUpTo'
    OBVIOUS
  <2>1. CASE Report
    <3>1. /\ reports \in Seq(ReportType) /\ lastID \in Windows
          /\ lastID' \in Windows
      BY DEF TypeOK, HistoryType, ProcType
    <3> DEFINE res == StatResult(heap[proc.ref])
    <3>2. reports' = Append(reports, res) /\ res.id = lastID'
      BY <2>1 DEF Report, StatResult
    <3>3. lastID' > lastID
      BY <2>1, <3>1 DEF Report, Stale, Windows
    <3>4. reports' \in Seq(ReportType)
      BY DEF TypeOK, HistoryType
    <3> HIDE DEF res
    <3>5. /\ Len(reports) \in Nat /\ DOMAIN reports = 1 .. Len(reports)
          /\ DOMAIN reports' = 1 .. (Len(reports) + 1)
          /\ \A i \in 1 .. Len(reports) : reports'[i] = reports[i]
          /\ reports'[Len(reports) + 1] = res
      BY <3>1, <3>2
    <3>6. \A i \in 1 .. Len(reports) : reports[i].id \in Nat
      <4>1. ASSUME NEW i \in 1 .. Len(reports) PROVE reports[i] \in ReportType
        BY <3>1, ElementOfSeq
      <4> QED BY <4>1 DEF ReportType, Windows
    <3> QED BY <3>1, <3>2, <3>3, <3>5, <3>6
            DEF ReportsIncrease, ReportsUpTo, Windows
  <2>2. CASE UNCHANGED <<reports, lastID>>
    BY <2>2 DEF ReportsIncrease, ReportsUpTo
  <2>3. Report \/ UNCHANGED <<reports, lastID>>
    <3>1. Processor => Report \/ UNCHANGED <<reports, lastID>>
      BY DEF Processor, StatOnce, StartProcessor, TakeTick, FetchOldest,
             CheckAge, NothingToReport, DiscardStale, ReloadOldest,
             RemoveReported
    <3> QED BY <3>1, StepsByActor, WriterFrames, ReadersFrame, TimeFrame
  <2> QED BY <2>1, <2>2, <2>3
<1> QED BY <1>1, <1>2, TypeCorrect, PTL DEF Spec

-----------------------------------------------------------------------------
(* the entries of the buckets and where they come from                     *)

(***************************************************************************)
(* A reader marks the request of its answer in the object i.               *)
(***************************************************************************)
Marks(r, i) ==
  \/ UpdateCur(r) /\ i = rd[r].cur /\ UpdateIn(r, i)
  \/ UpdatePrev(r) /\ i = rd[r].prev /\ UpdateIn(r, i)
  \/ InsertReceived(r) /\ i = rd[r].cur

(***************************************************************************)
(* What a step does to one request of one object.                          *)
(***************************************************************************)
LEMMA RequestSteps ==
  ASSUME TypeOK, HeapInv, [Next]_vars, NEW i \in Refs', NEW s \in Seqs
  PROVE  \/ i \in Refs /\ heap'[i].requests[s] = heap[i].requests[s]
         \/ i \notin Refs /\ heap'[i].requests[s] = "none"
         \/ /\ PutStore /\ i = wr.ref /\ i \in Refs /\ s = wr.seq
            /\ heap'[i].requests[s] = AfterPut(heap[i].requests[s])
         \/ /\ DeleteErase /\ i = wr.ref /\ i \in Refs /\ s = wr.seq
            /\ heap'[i].requests[s] = "none"
         \/ \E r \in Readers :
              /\ Marks(r, i) /\ i \in Refs /\ s = rd[r].seq
              /\ heap'[i].requests[s] =
                   AfterReceived(heap[i].requests[s], rd[r].kind)
<1>t. StoreType /\ ProcHolds
  BY DEF TypeOK, HeapInv, BucketsInHand
<1>1. CASE heap' = heap
  BY <1>1 DEF Refs
<1>2. ASSUME NEW id, Creates(id)
      PROVE  \/ i \in Refs /\ heap'[i].requests[s] = heap[i].requests[s]
             \/ i \notin Refs /\ heap'[i].requests[s] = "none"
  <2>1. /\ \A j \in Refs : heap'[j] = heap[j]
        /\ \A j \in Refs' \ Refs : heap'[j] = NewBucket(id)
    BY <1>2, <1>t, CreateEffect DEF Creates
  <2>2. NewBucket(id).requests[s] = "none"
    BY DEF NewBucket
  <2> QED BY <2>1, <2>2
<1>3. ASSUME NEW ref, NEW t, NEW status, Writes(ref, t, status)
      PROVE  /\ i \in Refs /\ ref \in Refs
             /\ \/ heap'[i].requests[s] = heap[i].requests[s]
                \/ i = ref /\ s = t /\ heap'[i].requests[s] = status
  <2>1. ref \in Refs /\ t \in Seqs /\ status \in Status /\ Write(ref, t, status)
    BY <1>3 DEF Writes
  <2>2. /\ Refs' = Refs
        /\ \A j \in Refs : j # ref => heap'[j].requests = heap[j].requests
        /\ \A u \in Seqs : heap'[ref].requests[u] =
                             IF u = t THEN status ELSE heap[ref].requests[u]
    BY <2>1, <1>t, WriteEffect
  <2> QED BY <2>1, <2>2
<1>4. CASE PutStore /\ Writes(wr.ref, wr.seq, AfterPut(heap[wr.ref].requests[wr.seq]))
  BY <1>3, <1>4
<1>5. CASE DeleteErase /\ Writes(wr.ref, wr.seq, "none")
  BY <1>3, <1>5
<1>6. ASSUME NEW r \in Readers, NEW ref \in Refs, Marks(r, ref),
             Writes(ref, rd[r].seq,
                    AfterReceived(heap[ref].requests[rd[r].seq], rd[r].kind))
      PROVE  \/ i \in Refs /\ heap'[i].requests[s] = heap[i].requests[s]
             \/ /\ Marks(r, i) /\ i \in Refs /\ s = rd[r].seq
                /\ heap'[i].requests[s] =
                     AfterReceived(heap[i].requests[s], rd[r].kind)
  BY <1>3, <1>6
<1>7. Removes => heap' = heap
  BY <1>t, RemovesOnlyReported DEF Remove
<1>8. (UNCHANGED store \/ Report) => heap' = heap
  BY DEF store, Report
<1>9. \/ heap' = heap
      \/ \E id : Creates(id)
      \/ PutStore /\ Writes(wr.ref, wr.seq, AfterPut(heap[wr.ref].requests[wr.seq]))
      \/ DeleteErase /\ Writes(wr.ref, wr.seq, "none")
      \/ \E r \in Readers, ref \in Refs :
           /\ Marks(r, ref)
           /\ Writes(ref, rd[r].seq,
                     AfterReceived(heap[ref].requests[rd[r].seq], rd[r].kind))
  BY <1>7, <1>8, StoreSteps DEF Marks
<1> QED BY <1>1, <1>2, <1>4, <1>5, <1>6, <1>9

(***************************************************************************)
(* An object is made for the probe at hand, by Put or by Received.         *)
(***************************************************************************)
LEMMA NewObjects ==
  ASSUME TypeOK, HeapInv, [Next]_vars, NEW i \in Refs', i \notin Refs
  PROVE  \/ PutLookup /\ heap'[i].id = IDOf(wr.ts) /\ IDOf(wr.ts) \notin DOMAIN bmap
         \/ \E r \in Readers : /\ CreateLookup(r) /\ heap'[i].id = rd[r].id
                               /\ rd[r].id \notin DOMAIN bmap
<1>t. StoreType /\ ProcHolds
  BY DEF TypeOK, HeapInv, BucketsInHand
<1>1. ASSUME NEW id, Creates(id) PROVE heap'[i].id = id /\ id \notin DOMAIN bmap
  <2>1. \A j \in Refs' \ Refs : heap'[j] = NewBucket(id)
    BY <1>1, <1>t, CreateEffect DEF Creates
  <2>2. id \in DOMAIN bmap => heap' = heap
    BY <1>1 DEF Creates, GetOrCreate, store
  <2> QED BY <2>1, <2>2 DEF NewBucket, Refs
<1>2. ASSUME NEW ref, NEW s, NEW status, Writes(ref, s, status) PROVE FALSE
  <2>1. ref \in Refs /\ s \in Seqs /\ status \in Status /\ Write(ref, s, status)
    BY <1>2 DEF Writes
  <2>2. Refs' = Refs
    BY <2>1, <1>t, WriteEffect
  <2> QED BY <2>2
<1>3. heap' # heap
  BY DEF Refs
<1>4. Removes => heap' = heap
  BY <1>t, RemovesOnlyReported DEF Remove
<1>5. (UNCHANGED store \/ Report) => heap' = heap
  BY DEF store, Report
<1>6. ASSUME NEW r \in Readers, NEW ref \in Refs,
             Writes(ref, rd[r].seq,
                    AfterReceived(heap[ref].requests[rd[r].seq], rd[r].kind))
      PROVE  FALSE
  BY <1>2, <1>6
<1>7. ASSUME PutStore,
             Writes(wr.ref, wr.seq, AfterPut(heap[wr.ref].requests[wr.seq]))
      PROVE  FALSE
  BY <1>2, <1>7
<1>8. ASSUME DeleteErase, Writes(wr.ref, wr.seq, "none") PROVE FALSE
  BY <1>2, <1>8
<1>9. CASE PutLookup /\ Creates(IDOf(wr.ts))
  BY <1>1, <1>9
<1>10. CASE \E r \in Readers : CreateLookup(r) /\ Creates(rd[r].id)
  <2>1. PICK r \in Readers : CreateLookup(r) /\ Creates(rd[r].id)
    BY <1>10
  <2>2. heap'[i].id = rd[r].id /\ rd[r].id \notin DOMAIN bmap
    BY <1>1, <2>1
  <2> QED BY <2>1, <2>2
<1> QED BY <1>3, <1>4, <1>5, <1>6, <1>7, <1>8, <1>9, <1>10, StoreSteps

(***************************************************************************)
(* What a step does to the send loop, to a reader, to the history and to   *)
(* the answers under way.                                                  *)
(***************************************************************************)
LEMMA WriterMoves ==
  ASSUME TypeOK, [Next]_vars
  PROVE  \/ wr' = wr /\ sentTs' = sentTs
         \/ \E s \in Seqs : BeginProbe(s)
         \/ wr' = IdleWriter /\ sentTs' = sentTs
         \/ /\ wr.pc # "idle" /\ sentTs' = sentTs
            /\ wr'.seq = wr.seq /\ wr'.ts = wr.ts
<1>1. wr \in [pc : {"idle", "lookup", "store", "send", "delete", "erase"},
              seq : Seqs \cup {NoSeq}, ts : 0 .. MaxTime, ref : Refs \cup {Nil}]
  BY DEF TypeOK, WriterType
<1>2. CASE Writer
  BY <1>1, <1>2 DEF Writer, PutLookup, PutStore, SendOK, SendFails, DeadlineFails,
                    DeleteLookup, DeleteErase
<1> QED BY <1>2, StepsByActor, ReadersFrame, ProcessorFrame, TimeFrame

LEMMA ReaderMoves ==
  ASSUME TypeOK, [Next]_vars, NEW r \in Readers
  PROVE  \/ rd'[r] = rd[r] \/ rd'[r] = IdleReader
         \/ \E s \in Seqs, kind \in Kinds : Receive(r, s, kind)
         \/ /\ rd[r].pc # "idle" /\ rd'[r].pc # "idle"
            /\ rd'[r].seq = rd[r].seq /\ rd'[r].id = rd[r].id
            /\ rd'[r].recorded = rd[r].recorded
<1>1. rd \in [Readers ->
               [pc : {"idle", "find", "update", "updatePrev", "create", "insert"},
                seq : Seqs \cup {NoSeq}, kind : {"ack", "rst"}, id : Windows,
                cur : Refs \cup {Nil}, prev : Refs \cup {Nil},
                recorded : Windows]]
  BY DEF TypeOK, ReaderType
<1> QED BY <1>1, OneReader DEF Find, CreateLookup

LEMMA MarkedObject ==
  ASSUME TypeOK, NEW r \in Readers, NEW i, Marks(r, i)
  PROVE  i \in Refs /\ rd[r].pc # "idle" /\ rd[r].seq \in Seqs
<1>1. /\ rd[r].cur \in Refs \cup {Nil} /\ rd[r].prev \in Refs \cup {Nil}
      /\ rd[r].pc # "idle" => rd[r].seq \in Seqs
      /\ rd[r].pc = "insert" => rd[r].cur # Nil
  BY DEF TypeOK, ReaderType
<1> QED BY <1>1 DEF Marks, UpdateCur, UpdatePrev, InsertReceived, UpdateIn, Has

LEMMA HistMoves ==
  ASSUME TypeOK, [Next]_vars
  PROVE  \/ hist' = hist
         \/ /\ PutStore /\ hist'.put = hist.put \cup {wr.seq}
            /\ hist'.got = hist.got
         \/ /\ DeleteErase /\ hist'.put = hist.put \ {wr.seq}
            /\ hist'.got = hist.got
         \/ \E r \in Readers : \E i \in Refs :
              /\ Marks(r, i)
              /\ hist'.put = hist.put /\ hist'.got = hist.got \cup {rd[r].seq}
<1>1. hist \in [put : SUBSET Seqs, got : SUBSET Seqs]
  BY DEF TypeOK, HistoryType
<1>2. CASE Writer
  BY <1>1, <1>2 DEF Writer, BeginProbe, PutLookup, PutStore, SendOK, SendFails,
                    DeadlineFails, DeleteLookup, DeleteErase
<1>3. CASE ReadersStep
  <2>1. PICK r \in Readers : \/ \E s \in Seqs, kind \in Kinds : Receive(r, s, kind)
                             \/ Reader(r)
    BY <1>3 DEF ReadersStep
  <2>2. ASSUME NEW i, Marks(r, i), hist' = [hist EXCEPT !.got = @ \cup {rd[r].seq}]
        PROVE  \E q \in Readers : \E j \in Refs :
                 /\ Marks(q, j)
                 /\ hist'.put = hist.put /\ hist'.got = hist.got \cup {rd[q].seq}
    <3>1. i \in Refs
      BY <2>2, MarkedObject
    <3> QED BY <1>1, <2>2, <3>1
  <2>3. CASE UpdateCur(r)
    BY <2>2, <2>3 DEF UpdateCur, UpdateIn, Marks
  <2>4. CASE UpdatePrev(r)
    BY <2>2, <2>4 DEF UpdatePrev, UpdateIn, Marks
  <2>5. CASE InsertReceived(r)
    BY <2>2, <2>5 DEF InsertReceived, Marks
  <2> QED BY <2>1, <2>3, <2>4, <2>5 DEF Reader, Receive, Find, CreateLookup
<1> QED BY <1>2, <1>3, StepsByActor, ProcessorFrame, TimeFrame DEF Tick, LateTick

LEMMA WireMoves ==
  ASSUME TypeOK, [Next]_vars, NEW s \in Seqs
  PROVE  \/ wire'[s] <= wire[s] /\ wire'[s] \in Nat /\ wire[s] \in Nat
         \/ wr.pc = "send" /\ s = wr.seq /\ (~ SendThenPut => wr' = IdleWriter)
<1>1. wire \in [Seqs -> Nat]
  BY StatConstants DEF TypeOK, ReaderType
<1>2. CASE wire' = wire
  BY <1>1, <1>2
<1>3. CASE \E n \in 0 .. MaxCopies : SendOK(n)
  BY <1>1, <1>3 DEF SendOK
<1>4. CASE \E r \in Readers, t \in Seqs, kind \in Kinds : Receive(r, t, kind)
  BY <1>1, <1>4 DEF Receive
<1>5. Writer => wire' = wire \/ \E n \in 0 .. MaxCopies : SendOK(n)
  BY DEF Writer, BeginProbe, PutLookup, PutStore, SendFails, DeadlineFails,
         DeleteLookup, DeleteErase
<1>6. ReadersStep => \/ wire' = wire
                     \/ \E r \in Readers, t \in Seqs, kind \in Kinds : Receive(r, t, kind)
  BY DEF ReadersStep, Reader, Find, UpdateCur, UpdatePrev, CreateLookup,
         InsertReceived
<1> QED BY <1>2, <1>3, <1>4, <1>5, <1>6, StepsByActor, ProcessorFrame, TimeFrame

LEMMA ClockMoves ==
  ASSUME TypeOK, [Next]_vars
  PROVE  now \in Nat /\ now' \in Nat /\ now <= now' /\ now >= Start
<1>1. now \in Nat /\ now >= Start
  BY StatConstants DEF TypeOK, ClockType
<1>2. now' = now \/ now' = now + 1
  BY StepsByActor, WriterFrames, ReadersFrame, ProcessorFrame DEF Tick, LateTick, vars
<1> QED BY <1>1, <1>2

-----------------------------------------------------------------------------
(* the send times                                                          *)

(***************************************************************************)
(* Whatever bears the number of a probe comes after its send time was      *)
(* taken, and no window is older than the program.                         *)
(***************************************************************************)
DatedWriter == wr.pc # "idle" => sentTs[wr.seq] = wr.ts /\ wr.ts >= Start

DatedProbes ==
  \A s \in Seqs : /\ sentTs[s] # 0 => sentTs[s] >= Start /\ sentTs[s] <= now
                  /\ wire[s] > 0 => sentTs[s] # 0
                  /\ s \in hist.put \cup hist.got => sentTs[s] # 0

DatedReaders ==
  \A r \in Readers :
    /\ rd[r].pc = "idle" => rd[r].seq = NoSeq
    /\ rd[r].pc # "idle" => sentTs[rd[r].seq] # 0 /\ rd[r].id > 0

DatedHeap ==
  \A i \in Refs :
    /\ heap[i].id > 0
    /\ \A s \in Seqs : heap[i].requests[s] # "none" => sentTs[s] # 0

Dated == DatedWriter /\ DatedProbes /\ DatedReaders /\ DatedHeap

LEMMA WriterInHand ==
  ASSUME TypeOK, DatedWriter, wr.pc # "idle"
  PROVE  /\ wr.seq \in Seqs /\ wr.ts \in Nat /\ sentTs[wr.seq] = wr.ts
         /\ sentTs[wr.seq] # 0 /\ IDOf(wr.ts) > 0
<1>1. wr.seq \in Seqs /\ wr.ts \in Nat
  BY StatConstants DEF TypeOK, WriterType
<1>2. sentTs[wr.seq] = wr.ts /\ wr.ts >= Start
  BY DEF DatedWriter
<1>3. Start >= Span /\ Start \in Nat /\ Span \in Nat /\ Span > 0
  BY StatConstants
<1> QED BY <1>1, <1>2, <1>3, PositiveIDs

(***************************************************************************)
(* A send time is taken once.                                              *)
(***************************************************************************)
LEMMA SentStays ==
  ASSUME TypeOK, [Next]_vars, NEW s \in Seqs, sentTs[s] # 0
  PROVE  sentTs'[s] = sentTs[s]
<1>1. ASSUME NEW t \in Seqs, BeginProbe(t) PROVE sentTs'[s] = sentTs[s]
  BY <1>1 DEF BeginProbe, TypeOK, WriterType
<1> QED BY <1>1, WriterMoves

LEMMA DatedInit == Init => Dated
BY DEF Init, Dated, DatedWriter, DatedProbes, DatedReaders, DatedHeap, IdleWriter,
       IdleReader, Refs

LEMMA DatedStep ==
  ASSUME TypeOK, HeapInv, Dated, [Next]_vars
  PROVE  Dated'
<1>0. /\ sentTs \in [Seqs -> Nat] /\ wire \in [Seqs -> Nat] /\ DOMAIN rd = Readers
      /\ Start \in Nat /\ Start >= Span /\ Start > 0 /\ NoSeq \notin Seqs
  BY StatConstants DEF TypeOK, WriterType, ReaderType
<1>d. DatedWriter /\ DatedProbes /\ DatedReaders /\ DatedHeap
  BY DEF Dated
<1>n. now \in Nat /\ now' \in Nat /\ now <= now' /\ now >= Start
  BY ClockMoves
<1>s. \A s \in Seqs : sentTs[s] # 0 => sentTs'[s] # 0
  BY SentStays
<1>1. DatedWriter'
  <2>1. CASE \E s \in Seqs : BeginProbe(s)
    BY <1>0, <1>n, <2>1 DEF BeginProbe, DatedWriter
  <2>2. CASE wr' = IdleWriter
    BY <2>2 DEF DatedWriter, IdleWriter
  <2> QED BY <1>d, <2>1, <2>2, WriterMoves DEF DatedWriter
<1>2. ASSUME NEW s \in Seqs
      PROVE  /\ sentTs'[s] # 0 => sentTs'[s] >= Start /\ sentTs'[s] <= now'
             /\ wire'[s] > 0 => sentTs'[s] # 0
             /\ s \in hist'.put \cup hist'.got => sentTs'[s] # 0
  <2>1. sentTs'[s] = sentTs[s] \/ sentTs'[s] = now
    BY <1>0, WriterMoves DEF BeginProbe
  <2>2. sentTs'[s] # 0 => sentTs'[s] >= Start /\ sentTs'[s] <= now'
    BY <1>0, <1>d, <1>n, <2>1 DEF DatedProbes
  <2>3. wire'[s] > 0 => sentTs[s] # 0
    <3>1. CASE wr.pc = "send" /\ s = wr.seq
      BY <1>d, <3>1, WriterInHand
    <3> QED BY <1>d, <3>1, WireMoves DEF DatedProbes
  <2>4. s \in hist'.put \cup hist'.got => sentTs[s] # 0
    <3>1. CASE PutStore /\ s = wr.seq
      BY <1>d, <3>1, WriterInHand DEF PutStore
    <3>2. ASSUME NEW r \in Readers, NEW i \in Refs, Marks(r, i), s = rd[r].seq
          PROVE  sentTs[s] # 0
      BY <1>d, <3>2, MarkedObject DEF DatedReaders
    <3> QED BY <1>d, <3>1, <3>2, HistMoves DEF DatedProbes
  <2> QED BY <1>s, <2>2, <2>3, <2>4
<1>3. ASSUME NEW r \in Readers
      PROVE  /\ rd'[r].pc = "idle" => rd'[r].seq = NoSeq
             /\ rd'[r].pc # "idle" => sentTs'[rd'[r].seq] # 0 /\ rd'[r].id > 0
  <2>0. rd[r].pc # "idle" => rd[r].seq \in Seqs
    BY DEF TypeOK, ReaderType
  <2>1. CASE \E s \in Seqs, kind \in Kinds : Receive(r, s, kind)
    <3>1. PICK s \in Seqs, kind \in Kinds : Receive(r, s, kind)
      BY <2>1
    <3>2. rd'[r].pc = "find" /\ rd'[r].seq = s /\ rd'[r].id = AnswerID(s)
      BY <1>0, <3>1 DEF Receive
    <3>3. sentTs[s] # 0 /\ sentTs[s] >= Start
      BY <1>d, <3>1 DEF Receive, DatedProbes
    <3>4. IDOf(now) > 0 /\ IDOf(sentTs[s]) > 0
      <4>1. sentTs[s] \in Nat /\ sentTs[s] >= Span /\ now >= Span
        BY <1>0, <1>n, <3>3, StatConstants
      <4> QED BY <1>n, <4>1, PositiveIDs
    <3> QED BY <1>s, <3>2, <3>3, <3>4 DEF AnswerID
  <2>2. CASE rd'[r] = IdleReader
    BY <2>2 DEF IdleReader
  <2> QED BY <1>d, <1>s, <2>0, <2>1, <2>2, ReaderMoves DEF DatedReaders
<1>4. ASSUME NEW i \in Refs'
      PROVE  /\ heap'[i].id > 0
             /\ \A s \in Seqs : heap'[i].requests[s] # "none" => sentTs'[s] # 0
  <2>1. heap'[i].id > 0
    <3>1. CASE i \in Refs
      <4>1. heap'[i].id = heap[i].id
        BY <3>1, Evolution DEF StoreEvolves, HeapInv, BucketsInHand
      <4> QED BY <1>d, <3>1, <4>1 DEF DatedHeap
    <3>2. CASE i \notin Refs
      <4>1. PutLookup => IDOf(wr.ts) > 0
        BY <1>d, WriterInHand DEF PutLookup
      <4>2. \A r \in Readers : CreateLookup(r) => rd[r].id > 0
        BY <1>d DEF DatedReaders, CreateLookup
      <4> QED BY <3>2, <4>1, <4>2, NewObjects
    <3> QED BY <3>1, <3>2
  <2>2. ASSUME NEW s \in Seqs, heap'[i].requests[s] # "none"
        PROVE  sentTs[s] # 0
    <3>1. CASE PutStore /\ s = wr.seq
      BY <1>d, <3>1, WriterInHand DEF PutStore
    <3>2. ASSUME NEW r \in Readers, Marks(r, i), s = rd[r].seq
          PROVE  sentTs[s] # 0
      BY <1>d, <3>2, MarkedObject DEF DatedReaders
    <3> QED BY <1>d, <2>2, <3>1, <3>2, RequestSteps DEF DatedHeap
  <2> QED BY <1>s, <2>1, <2>2
<1> QED BY <1>1, <1>2, <1>3, <1>4 DEF Dated, DatedProbes, DatedReaders, DatedHeap

-----------------------------------------------------------------------------
(* the delay                                                               *)

(***************************************************************************)
(* A request without an answer lies in the window of its send time.        *)
(***************************************************************************)
UnsetInWindow ==
  \A i \in Refs, s \in Seqs :
    heap[i].requests[s] = "unset" => IDOf(sentTs[s]) = heap[i].id

(***************************************************************************)
(* statOnce goes on with a bucket that was old enough, unless it has       *)
(* reported nothing yet or has dropped a stale one in this call.           *)
(***************************************************************************)
OldEnough ==
  /\ proc.pc = "reload" => proc.dropped # 0
  /\ proc.pc = "loop" /\ proc.ref # Nil /\ lastID > 0 /\ proc.dropped = 0 =>
       IDOf(now - Delay) >= heap[proc.ref].id

(***************************************************************************)
(* A loss in a report is a probe whose send time was taken.                *)
(***************************************************************************)
LossesDated ==
  \A i \in DOMAIN reports : \A s \in reports[i].sent \ reports[i].received :
    sentTs[s] # 0

DelayInv == UnsetInWindow /\ OldEnough /\ LossesDated /\ LossVerdictWaits

LEMMA UnsetStep ==
  ASSUME TypeOK, HeapInv, Dated, UnsetInWindow, [Next]_vars
  PROVE  UnsetInWindow'
<1>h. WriterHolds /\ StoreEvolves
  BY Evolution DEF HeapInv, BucketsInHand
<1>1. SUFFICES ASSUME NEW i \in Refs', NEW s \in Seqs, heap'[i].requests[s] = "unset"
               PROVE  IDOf(sentTs'[s]) = heap'[i].id
  BY DEF UnsetInWindow
<1>2. ASSUME i \in Refs, heap[i].requests[s] = "unset"
      PROVE  IDOf(sentTs'[s]) = heap'[i].id
  <2>1. sentTs[s] # 0 /\ IDOf(sentTs[s]) = heap[i].id
    BY <1>2 DEF Dated, DatedHeap, UnsetInWindow
  <2>2. sentTs'[s] = sentTs[s]
    BY <2>1, SentStays
  <2> QED BY <1>2, <1>h, <2>1, <2>2 DEF StoreEvolves
<1>3. CASE PutStore /\ i = wr.ref /\ i \in Refs /\ s = wr.seq
  <2>1. sentTs[s] = wr.ts /\ sentTs[s] # 0
    BY <1>3, WriterInHand DEF Dated, PutStore
  <2>2. heap[i].id = IDOf(wr.ts)
    BY <1>h, <1>3 DEF WriterHolds, PutStore, Held
  <2>3. sentTs'[s] = sentTs[s] /\ heap'[i].id = heap[i].id
    BY <1>3, <1>h, <2>1, SentStays DEF StoreEvolves
  <2> QED BY <2>1, <2>2, <2>3
<1>4. \A st, k : AfterReceived(st, k) # "unset"
  BY DEF AfterReceived
<1> QED BY <1>1, <1>2, <1>3, <1>4, RequestSteps

LEMMA OldEnoughStep ==
  ASSUME TypeOK, HeapInv, Dated, OldEnough, [Next]_vars
  PROVE  OldEnough'
<1>0. /\ proc \in [pc : {"sleep", "wait", "oldest", "check", "loop", "reload",
                         "remove"},
                   ref : Refs \cup {Nil}, dropped : Windows]
      /\ lastID \in Windows
  BY DEF TypeOK, ProcType
<1>h. StoreEvolves /\ StoreType
  BY Evolution DEF HeapInv, BucketsInHand, TypeOK
<1>n. /\ now - Delay \in Nat /\ now' - Delay \in Nat /\ now - Delay <= now' - Delay
      /\ IDOf(now - Delay) <= IDOf(now' - Delay)
      /\ IDOf(now - Delay) \in Nat /\ IDOf(now' - Delay) \in Nat
  <2>1. now - Delay \in Nat /\ now' - Delay \in Nat /\ now - Delay <= now' - Delay
    BY ClockMoves, StatConstants
  <2> QED BY <2>1, IDOfMonotonic, IDOfNat
<1>1. ASSUME NEW i \in Refs PROVE heap'[i].id = heap[i].id /\ heap[i].id \in Nat
  <2>1. heap[i] \in BucketType
    BY <1>h, ElementOfSeq DEF StoreType, Refs
  <2> QED BY <1>h, <2>1 DEF StoreEvolves, BucketType, Windows
<1>2. CASE UNCHANGED <<proc, lastID>>
  <2>1. SUFFICES ASSUME proc.pc = "loop", proc.ref # Nil, lastID > 0, proc.dropped = 0
                 PROVE  IDOf(now' - Delay) >= heap'[proc.ref].id
    BY <1>2 DEF OldEnough
  <2>2. IDOf(now - Delay) >= heap[proc.ref].id /\ proc.ref \in Refs
    BY <1>0, <2>1 DEF OldEnough
  <2> QED BY <1>1, <1>n, <2>2
<1>3. CASE CheckAge
  <2>0. proc'.pc # "reload"
    BY <1>0, <1>3 DEF CheckAge, IdleProc
  <2>1. SUFFICES ASSUME proc'.pc = "loop", proc'.ref # Nil, lastID' > 0
                 PROVE  IDOf(now' - Delay) >= heap'[proc'.ref].id
    BY <2>0 DEF OldEnough
  <2>2. proc'.ref = proc.ref /\ ~ TooYoung(heap[proc.ref].id) /\ lastID' = lastID
    BY <1>0, <1>3, <2>1 DEF CheckAge, IdleProc
  <2>3. proc.ref \in Refs
    BY <1>0, <2>1, <2>2
  <2>4. IDOf(now - Delay) >= heap[proc.ref].id
    BY <1>1, <1>n, <2>1, <2>2, <2>3 DEF TooYoung
  <2> QED BY <1>1, <1>n, <2>2, <2>3, <2>4
<1>4. CASE ReloadOldest
  BY <1>0, <1>4 DEF ReloadOldest, OldEnough
<1>5. CASE DiscardStale
  <2>1. proc.ref \in Refs
    BY <1>0, <1>5 DEF DiscardStale
  <2>2. heap[proc.ref].id # 0
    BY <1>1, <2>1 DEF Dated, DatedHeap
  <2>3. proc'.pc = "reload" /\ proc'.dropped = heap[proc.ref].id
    BY <1>0, <1>5 DEF DiscardStale
  <2> QED BY <2>2, <2>3 DEF OldEnough
<1>6. Processor => \/ CheckAge \/ ReloadOldest \/ DiscardStale
                   \/ proc'.pc \notin {"loop", "reload"}
  <2>1. StartProcessor \/ TakeTick => proc'.pc = "oldest"
    BY DEF StartProcessor, TakeTick, IdleProc
  <2>2. NothingToReport \/ RemoveReported => proc'.pc = "wait"
    BY DEF NothingToReport, RemoveReported, IdleProc
  <2>3. FetchOldest => proc'.pc = "check"
    BY <1>0 DEF FetchOldest
  <2>4. Report => proc'.pc = "remove"
    BY <1>0 DEF Report
  <2> QED BY <2>1, <2>2, <2>3, <2>4 DEF Processor, StatOnce
<1>7. proc'.pc \notin {"loop", "reload"} => OldEnough'
  BY DEF OldEnough
<1> QED BY <1>2, <1>3, <1>4, <1>5, <1>6, <1>7, StepsByActor, WriterFrames,
           ReadersFrame, TimeFrame

(***************************************************************************)
(* A step sends a report or leaves the reports alone.                      *)
(***************************************************************************)
LEMMA ReportSteps ==
  ASSUME [Next]_vars
  PROVE  Report \/ UNCHANGED <<reports, lastID>>
<1>1. Processor => Report \/ UNCHANGED <<reports, lastID>>
  BY DEF Processor, StatOnce, StartProcessor, TakeTick, FetchOldest, CheckAge,
         NothingToReport, DiscardStale, ReloadOldest, RemoveReported
<1> QED BY <1>1, StepsByActor, WriterFrames, ReadersFrame, TimeFrame

LEMMA AppendedReport ==
  ASSUME TypeOK, Report
  PROVE  /\ DOMAIN reports' = DOMAIN reports \cup {Len(reports) + 1}
         /\ Len(reports) + 1 \notin DOMAIN reports
         /\ \A i \in DOMAIN reports : reports'[i] = reports[i]
         /\ reports'[Len(reports) + 1] = StatResult(heap[proc.ref])
         /\ proc.ref \in Refs /\ heap[proc.ref] \in BucketType
<1>1. reports \in Seq(ReportType)
  BY DEF TypeOK, HistoryType
<1>2. proc.ref \in Refs /\ heap[proc.ref] \in BucketType
  <2>1. proc.ref \in Refs
    BY DEF Report, TypeOK, ProcType
  <2> QED BY <2>1, ElementOfSeq DEF TypeOK, StoreType, Refs
<1> DEFINE res == StatResult(heap[proc.ref])
<1>3. reports' = Append(reports, res)
  BY DEF Report
<1> HIDE DEF res
<1>4. /\ Len(reports) \in Nat /\ DOMAIN reports = 1 .. Len(reports)
      /\ DOMAIN reports' = 1 .. (Len(reports) + 1)
      /\ \A i \in 1 .. Len(reports) : reports'[i] = reports[i]
      /\ reports'[Len(reports) + 1] = res
  BY <1>1, <1>3
<1> QED BY <1>2, <1>4 DEF res

(***************************************************************************)
(* A time in the same or a later window is less than a span behind.        *)
(***************************************************************************)
LEMMA WithinSpan ==
  ASSUME NEW t \in Nat, NEW u \in Nat, IDOf(t) <= IDOf(u)
  PROVE  t < u + Span
<1>1. Span \in Nat /\ Span > 0
  BY StatConstants
<1>2. PICK q \in Int, x \in 0 .. Span - 1 : q * Span + x = t /\ t \div Span = q
  BY <1>1, Z3
<1>3. PICK k \in Int, y \in 0 .. Span - 1 : k * Span + y = u /\ u \div Span = k
  BY <1>1, Z3
<1>4. q <= k
  BY <1>2, <1>3 DEF IDOf
<1>5. q * Span <= k * Span
  BY <1>1, <1>4
<1> QED BY <1>1, <1>2, <1>3, <1>5

LEMMA VerdictStep ==
  ASSUME TypeOK, HeapInv, Dated, DelayInv, [Next]_vars
  PROVE  LossesDated' /\ LossVerdictWaits'
<1>1. ASSUME NEW i \in DOMAIN reports, reports'[i] = reports[i]
      PROVE  /\ \A s \in reports'[i].sent \ reports'[i].received : sentTs'[s] # 0
             /\ \/ Waited(reports[i])'
                \/ reports'[i].after = 0 \/ reports'[i].dropped # 0
  <2>0. reports[i] \in ReportType
    BY ElementOfSeq DEF TypeOK, HistoryType
  <2>1. \A s \in reports[i].sent \ reports[i].received :
          s \in Seqs /\ sentTs[s] # 0
    BY <2>0 DEF DelayInv, LossesDated, ReportType
  <2>2. \A s \in reports[i].sent \ reports[i].received : sentTs'[s] = sentTs[s]
    BY <2>1, SentStays
  <2> QED BY <1>1, <2>1, <2>2 DEF DelayInv, LossVerdictWaits, Waited
<1>2. CASE UNCHANGED <<reports, lastID>>
  BY <1>1, <1>2 DEF LossesDated, LossVerdictWaits
<1>3. CASE Report
  <2> DEFINE b == heap[proc.ref]
             res == StatResult(b)
  <2>1. /\ proc.ref \in Refs /\ b \in BucketType
        /\ proc.pc = "loop" /\ proc.ref # Nil /\ sentTs' = sentTs
    BY <1>3, AppendedReport, ProcessorFrame DEF Report
  <2>2. \A s \in res.sent \ res.received : s \in Seqs /\ b.requests[s] = "unset"
    BY DEF StatResult, Counted
  <2>3. \A s \in res.sent \ res.received : sentTs[s] # 0 /\ IDOf(sentTs[s]) = b.id
    BY <2>1, <2>2 DEF Dated, DatedHeap, DelayInv, UnsetInWindow
  <2>4. res.at = now /\ res.after = lastID /\ res.dropped = proc.dropped
    BY DEF StatResult
  <2>5. ASSUME res.after # 0, res.dropped = 0, NEW s \in res.sent \ res.received
        PROVE  res.at > sentTs[s] + Delay - Span
    <3>1. lastID > 0
      BY <2>4, <2>5 DEF TypeOK, ProcType, Windows
    <3>2. IDOf(now - Delay) >= b.id
      BY <2>1, <2>4, <2>5, <3>1 DEF DelayInv, OldEnough
    <3>3. /\ sentTs[s] \in Nat /\ now - Delay \in Nat /\ now \in Nat
          /\ Delay \in Nat /\ Span \in Nat
      BY <2>2, <2>5, ClockMoves, StatConstants DEF TypeOK, WriterType
    <3>4. b.id \in Nat /\ IDOf(now - Delay) \in Nat
      BY <2>1, <3>3, IDOfNat DEF BucketType, Windows
    <3>5. IDOf(sentTs[s]) <= IDOf(now - Delay)
      BY <2>3, <2>5, <3>2, <3>4
    <3>6. sentTs[s] < (now - Delay) + Span
      BY <3>3, <3>5, WithinSpan
    <3> QED BY <2>4, <3>3, <3>6
  <2>6. /\ DOMAIN reports' = DOMAIN reports \cup {Len(reports) + 1}
        /\ \A i \in DOMAIN reports : reports'[i] = reports[i]
        /\ reports'[Len(reports) + 1] = res
    BY <1>3, AppendedReport
  <2> HIDE DEF res
  <2>7. PICK x : x = res
    OBVIOUS
  <2>8. Waited(x)' \/ x.after = 0 \/ x.dropped # 0
    BY <2>1, <2>5, <2>7 DEF Waited
  <2>9. \A s \in x.sent \ x.received : sentTs'[s] # 0
    BY <2>1, <2>3, <2>7
  <2>10. /\ DOMAIN reports' = DOMAIN reports \cup {Len(reports) + 1}
         /\ \A i \in DOMAIN reports : reports'[i] = reports[i]
         /\ reports'[Len(reports) + 1] = x
    BY <2>6, <2>7
  <2>11. LossesDated'
    BY <1>1, <2>9, <2>10 DEF LossesDated
  <2>12. LossVerdictWaits'
    BY <1>1, <2>8, <2>10 DEF LossVerdictWaits, Waited
  <2> QED BY <2>11, <2>12
<1> QED BY <1>2, <1>3, ReportSteps

LEMMA DelayInit == Init => DelayInv
BY DEF Init, DelayInv, UnsetInWindow, OldEnough, LossesDated, LossVerdictWaits, Refs

(***************************************************************************)
(* Whoever wrote an entry, its probe had been begun.                       *)
(***************************************************************************)
LEMMA AlwaysDated == Spec => []Dated
<1>1. TypeOK /\ HeapInv /\ Dated /\ [Next]_vars => Dated'
  BY DatedStep
<1> QED BY <1>1, DatedInit, TypeCorrect, HeapInvariant, PTL DEF Spec

(***************************************************************************)
(* A probe is declared lost only when more than Delay - Span has passed    *)
(* since it was sent, for every span, delay and schedule, but for the two  *)
(* cases the property names (statOnce).                                    *)
(***************************************************************************)
THEOREM LossIsNotDeclaredEarly == Spec => []LossVerdictWaits
<1>1. TypeOK /\ HeapInv /\ Dated /\ DelayInv /\ [Next]_vars => DelayInv'
  BY UnsetStep, OldEnoughStep, VerdictStep DEF DelayInv
<1>2. DelayInv => LossVerdictWaits
  BY DEF DelayInv
<1> QED BY <1>1, <1>2, DelayInit, AlwaysDated, TypeCorrect, HeapInvariant, PTL
        DEF Spec

-----------------------------------------------------------------------------
(* answers filed under the send time                                       *)

(***************************************************************************)
(* sonar, kuiniu and evr: readers and buckets agree on the window of a     *)
(* probe, and so do the reports.                                           *)
(***************************************************************************)
BySendTime ==
  /\ \A r \in Readers : rd[r].pc # "idle" => rd[r].id = IDOf(sentTs[rd[r].seq])
  /\ \A i \in Refs, s \in Seqs :
       heap[i].requests[s] # "none" => IDOf(sentTs[s]) = heap[i].id
  /\ \A i \in DOMAIN reports : \A s \in reports[i].sent :
       sentTs[s] # 0 /\ IDOf(sentTs[s]) = reports[i].id

LEMMA BySendTimeStep ==
  ASSUME ~ KeyByRecv, TypeOK, HeapInv, Dated, BySendTime, [Next]_vars
  PROVE  BySendTime'
<1>h. WriterHolds /\ ReaderHolds /\ StoreEvolves
  BY Evolution DEF HeapInv, BucketsInHand
<1>d. DatedWriter /\ DatedProbes /\ DatedReaders /\ DatedHeap
  BY DEF Dated
<1>0. DOMAIN rd = Readers /\ \A r \in Readers : rd[r].pc # "idle" => rd[r].seq \in Seqs
  BY DEF TypeOK, ReaderType
<1>1. ASSUME NEW r \in Readers, rd'[r].pc # "idle"
      PROVE  rd'[r].id = IDOf(sentTs'[rd'[r].seq])
  <2>1. CASE \E s \in Seqs, kind \in Kinds : Receive(r, s, kind)
    <3>1. PICK s \in Seqs, kind \in Kinds : Receive(r, s, kind)
      BY <2>1
    <3>2. rd'[r].seq = s /\ rd'[r].id = IDOf(sentTs[s]) /\ sentTs' = sentTs
      BY <1>0, <3>1 DEF Receive, AnswerID
    <3> QED BY <3>2
  <2>2. ASSUME rd[r].pc # "idle", rd'[r].seq = rd[r].seq, rd'[r].id = rd[r].id
        PROVE  rd'[r].id = IDOf(sentTs'[rd'[r].seq])
    <3>1. sentTs'[rd[r].seq] = sentTs[rd[r].seq]
      BY <1>0, <1>d, <2>2, SentStays DEF DatedReaders
    <3> QED BY <2>2, <3>1 DEF BySendTime
  <2>3. rd'[r] # IdleReader
    BY <1>1 DEF IdleReader
  <2> QED BY <1>1, <2>1, <2>2, <2>3, ReaderMoves
<1>2. ASSUME NEW i \in Refs', NEW s \in Seqs, heap'[i].requests[s] # "none"
      PROVE  IDOf(sentTs'[s]) = heap'[i].id
  <2>1. ASSUME i \in Refs, heap[i].requests[s] # "none"
        PROVE  IDOf(sentTs'[s]) = heap'[i].id
    <3>1. sentTs[s] # 0 /\ IDOf(sentTs[s]) = heap[i].id
      BY <1>d, <2>1 DEF DatedHeap, BySendTime
    <3>2. sentTs'[s] = sentTs[s] /\ heap'[i].id = heap[i].id
      BY <1>h, <2>1, <3>1, SentStays DEF StoreEvolves
    <3> QED BY <3>1, <3>2
  <2>2. CASE PutStore /\ i = wr.ref /\ i \in Refs /\ s = wr.seq
    <3>1. sentTs[s] = wr.ts /\ sentTs[s] # 0 /\ heap[i].id = IDOf(wr.ts)
      BY <1>h, <1>d, <2>2, WriterInHand DEF PutStore, WriterHolds, Held
    <3>2. sentTs'[s] = sentTs[s] /\ heap'[i].id = heap[i].id
      BY <1>h, <2>2, <3>1, SentStays DEF StoreEvolves
    <3> QED BY <3>1, <3>2
  <2>3. ASSUME NEW r \in Readers, Marks(r, i), i \in Refs, s = rd[r].seq
        PROVE  IDOf(sentTs'[s]) = heap'[i].id
    <3>1. CASE Has(i, s)
      BY <2>1, <2>3, <3>1 DEF Has
    <3>2. CASE InsertReceived(r) /\ i = rd[r].cur
      <4>1. heap[i].id = rd[r].id /\ rd[r].id = IDOf(sentTs[s]) /\ sentTs[s] # 0
        BY <1>h, <1>d, <2>3, <3>2
        DEF ReaderHolds, HoldsCur, Held, InsertReceived, BySendTime, DatedReaders
      <4>2. sentTs'[s] = sentTs[s] /\ heap'[i].id = heap[i].id
        BY <1>h, <2>3, <4>1, SentStays DEF StoreEvolves
      <4> QED BY <4>1, <4>2
    <3> QED BY <2>3, <3>1, <3>2 DEF Marks, UpdateIn
  <2> QED BY <1>2, <2>1, <2>2, <2>3, RequestSteps
<1>3. ASSUME NEW i \in DOMAIN reports, reports'[i] = reports[i], NEW s \in reports[i].sent
      PROVE  sentTs'[s] # 0 /\ IDOf(sentTs'[s]) = reports[i].id
  <2>1. reports[i] \in ReportType
    BY ElementOfSeq DEF TypeOK, HistoryType
  <2>2. s \in Seqs /\ sentTs[s] # 0 /\ IDOf(sentTs[s]) = reports[i].id
    BY <1>3, <2>1 DEF BySendTime, ReportType
  <2> QED BY <2>2, SentStays
<1>4. \A i \in DOMAIN reports' : \A s \in reports'[i].sent :
        sentTs'[s] # 0 /\ IDOf(sentTs'[s]) = reports'[i].id
  <2>1. CASE UNCHANGED <<reports, lastID>>
    BY <1>3, <2>1
  <2>2. CASE Report
    <3>1. PICK x : x = StatResult(heap[proc.ref])
      OBVIOUS
    <3>2. /\ DOMAIN reports' = DOMAIN reports \cup {Len(reports) + 1}
          /\ \A i \in DOMAIN reports : reports'[i] = reports[i]
          /\ reports'[Len(reports) + 1] = x
          /\ proc.ref \in Refs /\ sentTs' = sentTs
      BY <2>2, <3>1, AppendedReport, ProcessorFrame DEF Report
    <3>3. x.id = heap[proc.ref].id
          /\ \A s \in x.sent : s \in Seqs /\ heap[proc.ref].requests[s] # "none"
      BY <3>1 DEF StatResult, Counted
    <3>4. \A s \in x.sent : sentTs[s] # 0 /\ IDOf(sentTs[s]) = x.id
      BY <1>d, <3>2, <3>3 DEF BySendTime, DatedHeap
    <3> QED BY <1>3, <3>2, <3>4
  <2> QED BY <2>1, <2>2, ReportSteps
<1> QED BY <1>1, <1>2, <1>4 DEF BySendTime

LEMMA BySendTimeInit == Init => BySendTime
BY DEF Init, BySendTime, IdleReader, Refs

LEMMA AlwaysBySendTime == ASSUME ~ KeyByRecv PROVE Spec => []BySendTime
<1>1. TypeOK /\ HeapInv /\ Dated /\ BySendTime /\ [Next]_vars => BySendTime'
  BY BySendTimeStep
<1> QED BY <1>1, BySendTimeInit, AlwaysDated, TypeCorrect, HeapInvariant, PTL DEF Spec

(***************************************************************************)
(* Where answers are filed under the send time no probe is counted twice,  *)
(* whatever is duplicated, late or made again after its report (received). *)
(***************************************************************************)
THEOREM NoProbeIsCountedTwice == ASSUME ~ KeyByRecv PROVE Spec => []CountedOnce
<1>1. TypeOK /\ ReportsIncrease /\ BySendTime => CountedOnce
  <2> SUFFICES ASSUME TypeOK, ReportsIncrease, BySendTime,
                      NEW i \in DOMAIN reports, NEW j \in DOMAIN reports, i # j,
                      NEW s \in reports[i].sent \cap reports[j].sent
               PROVE  FALSE
    BY DEF CountedOnce
  <2>1. reports[i].id = reports[j].id
    BY DEF BySendTime
  <2>2. reports[i] \in ReportType /\ reports[j] \in ReportType
    BY ElementOfSeq DEF TypeOK, HistoryType
  <2>3. reports[i].id \in Nat /\ reports[j].id \in Nat
    BY <2>2 DEF ReportType, Windows
  <2>4. i \in Nat /\ j \in Nat
    BY LenProperties DEF TypeOK, HistoryType
  <2>5. i < j \/ j < i
    BY <2>4
  <2> QED BY <2>1, <2>3, <2>5 DEF ReportsIncrease
<1> QED BY <1>1, AlwaysBySendTime, InOrderOnce, TypeCorrect, PTL

-----------------------------------------------------------------------------
(* what a report may not miss                                              *)

(***************************************************************************)
(* Where a probe is recorded before it is sent, no answer to it is under   *)
(* way while the send loop still has it in hand; only such a loop deletes. *)
(***************************************************************************)
NoAnswerYet ==
  /\ wr.pc \in {"delete", "erase"} => ~ SendThenPut
  /\ ~ SendThenPut /\ wr.pc # "idle" =>
       /\ wire[wr.seq] = 0 /\ wr.seq \notin hist.got
       /\ \A r \in Readers : rd[r].seq # wr.seq

LEMMA NoAnswerYetStep ==
  ASSUME TypeOK, HeapInv, Dated, NoAnswerYet, [Next]_vars
  PROVE  NoAnswerYet'
<1>d. DatedWriter /\ DatedProbes /\ DatedReaders
  BY DEF Dated
<1>0. /\ wire \in [Seqs -> Nat] /\ DOMAIN rd = Readers /\ NoSeq \notin Seqs
      /\ hist \in [put : SUBSET Seqs, got : SUBSET Seqs]
  BY StatConstants DEF TypeOK, ReaderType, HistoryType
<1>1. wr'.pc \in {"delete", "erase"} => ~ SendThenPut
  <2>0. wr \in [pc : {"idle", "lookup", "store", "send", "delete", "erase"},
               seq : Seqs \cup {NoSeq}, ts : 0 .. MaxTime, ref : Refs \cup {Nil}]
    BY DEF TypeOK, WriterType
  <2>1. CASE Writer
    <3>1. (\E s \in Seqs : BeginProbe(s)) => wr'.pc \notin {"delete", "erase"}
      BY DEF BeginProbe
    <3>0. IdleWriter.pc = "idle"
      BY DEF IdleWriter
    <3>2. PutStore => wr'.pc \in {"idle", "send"}
      BY <2>0, <3>0 DEF PutStore
    <3>7. DeadlineFails \/ DeleteErase => wr'.pc = "idle"
      BY DEF DeadlineFails, DeleteErase, IdleWriter
    <3>6. PutLookup => wr'.pc = "store"
      BY <2>0 DEF PutLookup
    <3>3. (\E n \in 0 .. MaxCopies : SendOK(n)) => wr'.pc \notin {"delete", "erase"}
      BY <2>0 DEF SendOK, IdleWriter
    <3>4. SendFails /\ SendThenPut => wr'.pc = "idle"
      BY DEF SendFails, IdleWriter
    <3>5. DeleteLookup => ~ SendThenPut
      BY DEF DeleteLookup, NoAnswerYet
    <3> QED BY <2>1, <3>1, <3>2, <3>3, <3>4, <3>5, <3>6, <3>7 DEF Writer
  <2> QED BY <2>1, StepsByActor, ReadersFrame, ProcessorFrame, TimeFrame DEF NoAnswerYet
<1>2. ASSUME ~ SendThenPut, NEW s \in Seqs, wr.pc # "idle", wr.seq = s,
             wr'.pc # "idle", wr'.seq = s
      PROVE  /\ wire'[s] = 0 /\ s \notin hist'.got
             /\ \A r \in Readers : rd'[r].seq # s
  <2>1. wire[s] = 0 /\ s \notin hist.got /\ \A r \in Readers : rd[r].seq # s
    BY <1>2 DEF NoAnswerYet
  <2>2. wire'[s] = 0
    BY <1>0, <1>2, <2>1, WireMoves DEF IdleWriter
  <2>3. s \notin hist'.got
    BY <2>1, HistMoves
  <2>4. ASSUME NEW r \in Readers PROVE rd'[r].seq # s
    <3>1. ASSUME NEW t \in Seqs, NEW kind \in Kinds, Receive(r, t, kind)
          PROVE  rd'[r].seq # s
      BY <1>0, <2>1, <3>1 DEF Receive
    <3> QED BY <1>0, <2>1, <3>1, ReaderMoves DEF IdleReader
  <2> QED BY <2>2, <2>3, <2>4
<1>3. ASSUME NEW s \in Seqs, BeginProbe(s)
      PROVE  /\ wire'[s] = 0 /\ s \notin hist'.got
             /\ \A r \in Readers : rd'[r].seq # s
             /\ wr'.seq = s
  <2>1. sentTs[s] = 0 /\ wire' = wire /\ hist' = hist /\ rd' = rd /\ wr'.seq = s
    BY <1>3 DEF BeginProbe
  <2>2. wire[s] = 0 /\ s \notin hist.got
    BY <1>d, <1>0, <2>1 DEF DatedProbes
  <2>3. \A r \in Readers : rd[r].seq # s
    BY <1>d, <1>0, <2>1 DEF DatedReaders
  <2> QED BY <2>1, <2>2, <2>3
<1>4. wr.pc # "idle" => wr.seq \in Seqs
  BY DEF TypeOK, WriterType
<1>5. ASSUME ~ SendThenPut, wr'.pc # "idle"
      PROVE  /\ wire'[wr'.seq] = 0 /\ wr'.seq \notin hist'.got
             /\ \A r \in Readers : rd'[r].seq # wr'.seq
  BY <1>2, <1>3, <1>4, <1>5, WriterMoves DEF IdleWriter
<1> QED BY <1>1, <1>5 DEF NoAnswerYet

(***************************************************************************)
(* Until its window is reported, a probe whose Put has returned has an     *)
(* entry in the bucket that the map holds for that window.                 *)
(***************************************************************************)
PutRecorded ==
  \A s \in hist.put :
    IDOf(sentTs[s]) > lastID =>
      /\ IDOf(sentTs[s]) \in DOMAIN bmap
      /\ heap[bmap[IDOf(sentTs[s])]].requests[s] # "none"

LEMMA PutRecordedStep ==
  ASSUME TypeOK, HeapInv, Dated, PutRecorded, [Next]_vars
  PROVE  PutRecorded'
<1>h. WriterHolds /\ StoreEvolves /\ lastID \in Int
  BY Evolution DEF HeapInv, BucketsInHand, TypeOK, ProcType, Windows
<1>d. DatedWriter /\ DatedProbes
  BY DEF Dated
<1>0. /\ hist \in [put : SUBSET Seqs, got : SUBSET Seqs]
      /\ \A k \in DOMAIN bmap : bmap[k] \in Refs
  BY DEF TypeOK, HistoryType, StoreType
<1> SUFFICES ASSUME NEW s \in hist'.put, NEW k \in Int, k = IDOf(sentTs'[s]), k > lastID'
             PROVE  k \in DOMAIN bmap' /\ heap'[bmap'[k]].requests[s] # "none"
  <2>1. \A s \in hist'.put : IDOf(sentTs'[s]) \in Int
    <3>1. TypeOK'
      BY TypeStep
    <3>2. \A s \in hist'.put : sentTs'[s] \in Nat
      BY <3>1, StatConstants DEF TypeOK, HistoryType, WriterType
    <3> QED BY <3>2, IDOfNat
  <2> QED BY <2>1 DEF PutRecorded
<1>1. lastID' \in Int /\ lastID <= lastID'
  BY <1>h DEF StoreEvolves, Windows
<1>2. CASE s \in hist.put
  <2>1. s \in Seqs /\ sentTs'[s] = sentTs[s]
    BY <1>0, <1>2, <1>d, SentStays DEF DatedProbes
  <2>2. k > lastID /\ k \in DOMAIN bmap /\ heap[bmap[k]].requests[s] # "none"
    BY <1>h, <1>1, <1>2, <2>1 DEF PutRecorded
  <2>3. PICK i \in Refs : i = bmap[k]
    BY <1>0, <2>2
  <2>4. k \in DOMAIN bmap' /\ bmap'[k] = i /\ i \in Refs'
    BY <1>h, <2>2, <2>3 DEF StoreEvolves
  <2>5. DeleteErase => s # wr.seq
    BY <1>0 DEF DeleteErase
  <2>6. heap'[i].requests[s] # "none"
    BY <2>1, <2>2, <2>3, <2>4, <2>5, RequestSteps DEF AfterPut, AfterReceived
  <2> QED BY <2>4, <2>6
<1>3. CASE s \notin hist.put
  <2>1. PutStore /\ s = wr.seq
    BY <1>3, HistMoves
  <2>2. sentTs' = sentTs /\ s \in Seqs /\ sentTs[s] = wr.ts /\ bmap' = bmap
    BY <1>d, <2>1, WriterInHand DEF PutStore
  <2>3. Held(wr.ref, k)
    BY <1>h, <2>1, <2>2 DEF WriterHolds, PutStore
  <2>4. k \in DOMAIN bmap' /\ bmap'[k] = wr.ref /\ wr.ref \in Refs
    BY <1>h, <1>1, <2>2, <2>3 DEF Held
  <2>5. heap[wr.ref] \in BucketType
    BY <2>4, ElementOfSeq DEF TypeOK, StoreType, Refs
  <2>6. AfterPut(heap[wr.ref].requests[s]) \in Status /\ AfterPut(heap[wr.ref].requests[s]) # "none"
    BY <2>2, <2>5 DEF BucketType, AfterPut, Status
  <2>7. heap'[wr.ref].requests[s] = AfterPut(heap[wr.ref].requests[s])
    BY <2>1, <2>2, <2>4, <2>6, WriteEffect DEF PutStore, TypeOK
  <2> QED BY <2>4, <2>6, <2>7
<1> QED BY <1>2, <1>3

LEMMA AlwaysNoAnswerYet == Spec => []NoAnswerYet
<1>1. Init => NoAnswerYet
  BY DEF Init, NoAnswerYet, IdleWriter
<1>2. TypeOK /\ HeapInv /\ Dated /\ NoAnswerYet /\ [Next]_vars => NoAnswerYet'
  BY NoAnswerYetStep
<1> QED BY <1>1, <1>2, AlwaysDated, TypeCorrect, HeapInvariant, PTL DEF Spec

LEMMA AlwaysPutRecorded == Spec => []PutRecorded
<1>1. Init => PutRecorded
  BY DEF Init, PutRecorded
<1>2. TypeOK /\ HeapInv /\ Dated /\ PutRecorded /\ [Next]_vars => PutRecorded'
  BY PutRecordedStep
<1> QED BY <1>1, <1>2, AlwaysDated, TypeCorrect, HeapInvariant, PTL DEF Spec

(***************************************************************************)
(* The object that Received marks is that of its window.                   *)
(***************************************************************************)
LEMMA MarksHeld ==
  ASSUME TypeOK, HeapInv, NEW r \in Readers, NEW i, Marks(r, i)
  PROVE  Held(i, heap[i].id)
<1>1. HoldsCur(r) /\ HoldsPrev(r)
  BY DEF HeapInv, BucketsInHand, ReaderHolds
<1>2. CASE UpdateCur(r) /\ i = rd[r].cur /\ UpdateIn(r, i)
  BY <1>1, <1>2 DEF UpdateCur, UpdateIn, Has, HoldsCur, Held
<1>3. CASE UpdatePrev(r) /\ i = rd[r].prev /\ UpdateIn(r, i)
  BY <1>1, <1>3 DEF UpdatePrev, UpdateIn, Has, HoldsPrev, Held
<1>4. CASE InsertReceived(r) /\ i = rd[r].cur
  BY <1>1, <1>4 DEF InsertReceived, HoldsCur, Held
<1> QED BY <1>2, <1>3, <1>4 DEF Marks

(***************************************************************************)
(* Where answers are filed under the send time: until its window is        *)
(* reported, a probe whose Received has returned is marked as answered in  *)
(* the bucket that the map holds for that window.                          *)
(***************************************************************************)
GotRecorded ==
  \A s \in hist.got :
    IDOf(sentTs[s]) > lastID =>
      /\ IDOf(sentTs[s]) \in DOMAIN bmap
      /\ heap[bmap[IDOf(sentTs[s])]].requests[s] \in {"ack", "rst"}

(***************************************************************************)
(* The marked object is that of the send time.                             *)
(***************************************************************************)
LEMMA MarksInWindow ==
  ASSUME TypeOK, HeapInv, BySendTime, NEW r \in Readers, NEW i, Marks(r, i)
  PROVE  heap[i].id = IDOf(sentTs[rd[r].seq])
<1>0. i \in Refs /\ rd[r].pc # "idle" /\ rd[r].seq \in Seqs
  BY MarkedObject
<1>1. CASE Has(i, rd[r].seq)
  BY <1>0, <1>1 DEF Has, BySendTime
<1>2. CASE InsertReceived(r) /\ i = rd[r].cur
  <2>1. heap[i].id = rd[r].id
    BY <1>2 DEF InsertReceived, HeapInv, BucketsInHand, ReaderHolds, HoldsCur, Held
  <2> QED BY <1>0, <2>1 DEF BySendTime
<1> QED BY <1>1, <1>2 DEF Marks, UpdateIn

LEMMA GotRecordedStep ==
  ASSUME TypeOK, HeapInv, Dated, BySendTime, NoAnswerYet, GotRecorded, [Next]_vars
  PROVE  GotRecorded'
<1>h. StoreEvolves /\ lastID \in Int
  BY Evolution DEF HeapInv, BucketsInHand, TypeOK, ProcType, Windows
<1>d. DatedProbes /\ DatedReaders
  BY DEF Dated
<1>0. /\ hist \in [put : SUBSET Seqs, got : SUBSET Seqs]
      /\ \A k \in DOMAIN bmap : bmap[k] \in Refs
  BY DEF TypeOK, HistoryType, StoreType
<1>g. DeleteErase => wr.seq \notin hist.got
  BY DEF DeleteErase, NoAnswerYet
<1> SUFFICES ASSUME NEW s \in hist'.got, NEW k \in Int, k = IDOf(sentTs'[s]), k > lastID'
             PROVE  k \in DOMAIN bmap' /\ heap'[bmap'[k]].requests[s] \in {"ack", "rst"}
  <2>1. \A s \in hist'.got : IDOf(sentTs'[s]) \in Int
    <3>1. TypeOK'
      BY TypeStep
    <3>2. \A s \in hist'.got : sentTs'[s] \in Nat
      BY <3>1, StatConstants DEF TypeOK, HistoryType, WriterType
    <3> QED BY <3>2, IDOfNat
  <2> QED BY <2>1 DEF GotRecorded
<1>1. lastID' \in Int /\ lastID <= lastID'
  BY <1>h DEF StoreEvolves, Windows
<1>a. \A x, kind : AfterReceived(x, kind) \in {"ack", "rst"}
  BY DEF AfterReceived
<1>2. CASE s \in hist.got
  <2>1. s \in Seqs /\ sentTs'[s] = sentTs[s]
    BY <1>0, <1>2, <1>d, SentStays DEF DatedProbes
  <2>2. k > lastID /\ k \in DOMAIN bmap /\ heap[bmap[k]].requests[s] \in {"ack", "rst"}
    BY <1>h, <1>1, <1>2, <2>1 DEF GotRecorded
  <2>3. PICK i \in Refs : i = bmap[k]
    BY <1>0, <2>2
  <2>4. k \in DOMAIN bmap' /\ bmap'[k] = i /\ i \in Refs'
    BY <1>h, <2>2, <2>3 DEF StoreEvolves
  <2>6. heap'[i].requests[s] \in {"ack", "rst"}
    BY <1>a, <1>g, <1>2, <2>1, <2>2, <2>3, <2>4, RequestSteps DEF AfterPut
  <2> QED BY <2>4, <2>6
<1>3. CASE s \notin hist.got
  <2>1. PICK r \in Readers, i \in Refs : Marks(r, i) /\ s = rd[r].seq
    BY <1>3, HistMoves
  <2>2. s \in Seqs /\ sentTs' = sentTs /\ bmap' = bmap /\ lastID' = lastID
    BY <2>1, MarkedObject DEF Marks, UpdateCur, UpdatePrev, InsertReceived
  <2>3. Held(i, k)
    BY <2>1, <2>2, MarksHeld, MarksInWindow
  <2>4. k \in DOMAIN bmap' /\ bmap'[k] = i /\ i \in Refs
    BY <2>2, <2>3 DEF Held
  <2>5. heap[i] \in BucketType
    BY <2>4, ElementOfSeq DEF TypeOK, StoreType, Refs
  <2>6. PICK x : x = AfterReceived(heap[i].requests[s], rd[r].kind)
    OBVIOUS
  <2>7. x \in Status /\ x \in {"ack", "rst"}
    BY <1>a, <2>6 DEF Status
  <2>8. Write(i, s, x)
    BY <2>1, <2>6 DEF Marks, UpdateCur, UpdatePrev, InsertReceived, UpdateIn
  <2>9. heap'[i].requests[s] = x
    BY <2>2, <2>4, <2>7, <2>8, WriteEffect DEF TypeOK
  <2> QED BY <2>4, <2>7, <2>9
<1> QED BY <1>2, <1>3

(***************************************************************************)
(* A report misses no Put and no Received that returned before it, where   *)
(* answers are filed under the send time (statOnce, received, put): its    *)
(* denominator is complete and no answer already processed is counted as   *)
(* a loss, whatever the goroutines are in the middle of.                   *)
(***************************************************************************)
THEOREM ReportsMissNothing == ASSUME ~ KeyByRecv PROVE Spec => ReportComplete
<1> DEFINE Complete ==
      Report => \A s \in Seqs : IDOf(sentTs[s]) = lastID' /\ sentTs[s] > 0 =>
                  /\ s \in hist.put => s \in reports'[Len(reports')].sent
                  /\ s \in hist.got => s \in reports'[Len(reports')].received
<1>1. Init => GotRecorded
  BY DEF Init, GotRecorded
<1>2. TypeOK /\ HeapInv /\ Dated /\ BySendTime /\ NoAnswerYet /\ GotRecorded /\ [Next]_vars
        => GotRecorded'
  BY GotRecordedStep
<1>3. TypeOK /\ HeapInv /\ PutRecorded /\ GotRecorded /\ [Next]_vars => [Complete]_vars
  <2> SUFFICES ASSUME TypeOK, HeapInv, PutRecorded, GotRecorded, Report,
                      NEW s \in Seqs, IDOf(sentTs[s]) = lastID'
               PROVE  /\ s \in hist.put => s \in reports'[Len(reports')].sent
                      /\ s \in hist.got => s \in reports'[Len(reports')].received
    OBVIOUS
  <2>1. PICK x : x = StatResult(heap[proc.ref])
    OBVIOUS
  <2>2. reports'[Len(reports')] = x
    <3>1. reports \in Seq(ReportType) /\ reports' = Append(reports, x)
      BY <2>1 DEF Report, TypeOK, HistoryType
    <3> QED BY <3>1
  <2>3. PICK b \in Refs : b = proc.ref /\ heap[b] \in BucketType
    BY AppendedReport
  <2>4. /\ lastID' = heap[b].id /\ heap[b].id > lastID
        /\ heap[b].id \in DOMAIN bmap /\ bmap[heap[b].id] = b
    BY <2>3 DEF Report, Stale, HeapInv, BucketsInHand, ProcHolds, TypeOK, ProcType,
                BucketType, Windows
  <2>5. s \in hist.put => heap[b].requests[s] # "none"
    BY <2>4 DEF PutRecorded
  <2>6. s \in hist.got => heap[b].requests[s] \in {"ack", "rst"}
    BY <2>4 DEF GotRecorded
  <2>7. heap[b].requests[s] \in Status
    BY <2>3 DEF BucketType
  <2> QED BY <2>1, <2>2, <2>3, <2>5, <2>6, <2>7 DEF StatResult, Counted, Status
<1> QED BY <1>1, <1>2, <1>3, AlwaysPutRecorded, AlwaysNoAnswerYet, AlwaysBySendTime,
           AlwaysDated, TypeCorrect, HeapInvariant, PTL DEF Spec, ReportComplete

-----------------------------------------------------------------------------
(* answers that cross a boundary                                           *)

(***************************************************************************)
(* What Received knows of an answer read after the Put of its probe, as    *)
(* long as the window of that Put is open: the entry is there and lies     *)
(* ahead in one of the two buckets, so that no bucket is left to be made   *)
(* when both were searched.                                                *)
(***************************************************************************)
StillAhead(r) ==
  LET k == rd[r].recorded
  IN  /\ rd[r].pc # "idle" /\ rd[r].seq \in hist.put /\ k = IDOf(sentTs[rd[r].seq])
      /\ k > lastID /\ rd[r].pc = "update" =>
           (rd[r].id = k => rd[r].cur # Nil) /\ (rd[r].id - 1 = k => rd[r].prev # Nil)
      /\ k > lastID /\ rd[r].pc = "updatePrev" =>
           rd[r].id # k /\ (rd[r].id - 1 = k => rd[r].prev # Nil)
      /\ k > lastID /\ rd[r].pc \in {"create", "insert"} => rd[r].id - k \notin {0, 1}

Crossing == \A r \in Readers : rd[r].recorded # 0 => StillAhead(r)

LEMMA CrossingStep ==
  ASSUME TypeOK, HeapInv, Dated, NoAnswerYet, PutRecorded, Crossing, [Next]_vars
  PROVE  Crossing'
<1>h. ReaderHolds /\ StoreEvolves
  BY Evolution DEF HeapInv, BucketsInHand
<1>d. DatedProbes /\ DatedReaders
  BY DEF Dated
<1>0. /\ rd \in [Readers ->
               [pc : {"idle", "find", "update", "updatePrev", "create", "insert"},
                seq : Seqs \cup {NoSeq}, kind : {"ack", "rst"}, id : Windows,
                cur : Refs \cup {Nil}, prev : Refs \cup {Nil},
                recorded : Windows]]
      /\ hist \in [put : SUBSET Seqs, got : SUBSET Seqs]
      /\ \A k \in DOMAIN bmap : bmap[k] \in Refs
      /\ lastID \in Nat /\ lastID' \in Nat /\ lastID <= lastID'
  BY <1>h DEF TypeOK, ReaderType, HistoryType, StoreType, ProcType, StoreEvolves, Windows
<1> SUFFICES ASSUME NEW r \in Readers, rd'[r].recorded # 0
             PROVE  StillAhead(r)'
  BY DEF Crossing
<1>1. CASE \E s \in Seqs, kind \in Kinds : Receive(r, s, kind)
  <2>1. PICK s \in Seqs, kind \in Kinds : Receive(r, s, kind)
    BY <1>1
  <2>2. /\ rd'[r].pc = "find" /\ rd'[r].seq = s
        /\ rd'[r].recorded = (IF s \in hist.put THEN IDOf(sentTs[s]) ELSE 0)
        /\ hist' = hist /\ sentTs' = sentTs
    BY <1>0, <2>1 DEF Receive
  <2> QED BY <2>2 DEF StillAhead
<1>2. CASE rd'[r] = IdleReader
  BY <1>2 DEF IdleReader
<1>3. ASSUME rd[r].recorded # 0
      PROVE  /\ rd[r].seq \in hist'.put
             /\ rd[r].recorded = IDOf(sentTs'[rd[r].seq])
  <2>1. /\ rd[r].pc # "idle" /\ rd[r].seq \in hist.put /\ rd[r].seq \in Seqs
        /\ rd[r].recorded = IDOf(sentTs[rd[r].seq])
    BY <1>0, <1>3 DEF Crossing, StillAhead
  <2>2. sentTs'[rd[r].seq] = sentTs[rd[r].seq]
    BY <1>d, <2>1, SentStays DEF DatedReaders
  <2>3. DeleteErase => rd[r].seq # wr.seq
    BY DEF DeleteErase, NoAnswerYet
  <2> QED BY <2>1, <2>2, <2>3, HistMoves
<1>4. ASSUME rd[r].recorded # 0, rd[r].recorded > lastID
      PROVE  /\ rd[r].recorded \in DOMAIN bmap /\ bmap[rd[r].recorded] \in Refs
             /\ heap[bmap[rd[r].recorded]].requests[rd[r].seq] # "none"
  BY <1>0, <1>4 DEF Crossing, StillAhead, PutRecorded
<1>5. CASE rd'[r] = rd[r]
  <2>1. rd[r].recorded # 0 /\ StillAhead(r)
    BY <1>5 DEF Crossing
  <2>2. rd[r].recorded \in Nat /\ (rd[r].recorded > lastID' => rd[r].recorded > lastID)
    BY <1>0 DEF Windows
  <2> QED BY <1>3, <1>5, <2>1, <2>2 DEF StillAhead
<1> DEFINE k == rd[r].recorded
<1>k. k \in Nat /\ rd[r].id \in Nat /\ (k > lastID' => k > lastID)
  BY <1>0 DEF Windows
<1>6. CASE Find(r)
  <2>1. /\ rd'[r] = [rd[r] EXCEPT !.pc = "update", !.cur = Lookup(bmap, rd[r].id),
                                  !.prev = Lookup(bmap, rd[r].id - 1)]
    BY <1>0, <1>6 DEF Find
  <2>2. /\ rd'[r].pc = "update" /\ rd'[r].seq = rd[r].seq /\ rd'[r].id = rd[r].id
        /\ rd'[r].recorded = k /\ rd'[r].cur = Lookup(bmap, rd[r].id)
        /\ rd'[r].prev = Lookup(bmap, rd[r].id - 1)
    BY <1>0, <2>1
  <2>3. k > lastID => Lookup(bmap, k) # Nil
    BY <1>4, <2>2 DEF Lookup, Nil, Refs
  <2> QED BY <1>3, <1>k, <2>2, <2>3 DEF StillAhead
<1>7. CASE /\ rd'[r] = [rd[r] EXCEPT !.pc = "updatePrev"] /\ rd[r].pc = "update"
           /\ ~ Has(rd[r].cur, rd[r].seq)
  <2>1. /\ rd'[r].pc = "updatePrev" /\ rd'[r].seq = rd[r].seq /\ rd'[r].id = rd[r].id
        /\ rd'[r].recorded = k /\ rd'[r].prev = rd[r].prev
    BY <1>0, <1>7
  <2>2. StillAhead(r)
    BY <2>1 DEF Crossing
  <2>3. ASSUME k > lastID PROVE rd[r].id # k
    <3>1. SUFFICES ASSUME rd[r].id = k PROVE FALSE
      OBVIOUS
    <3>2. rd[r].cur # Nil
      BY <1>7, <2>2, <2>3, <3>1 DEF StillAhead
    <3>3. bmap[k] = rd[r].cur
      BY <1>h, <1>7, <2>3, <3>1, <3>2 DEF ReaderHolds, HoldsCur, Held
    <3> QED BY <1>4, <1>7, <2>1, <2>3, <3>2, <3>3 DEF Has
  <2> QED BY <1>3, <1>k, <1>7, <2>1, <2>2, <2>3 DEF StillAhead
<1>8. CASE /\ rd'[r] = [rd[r] EXCEPT !.pc = "create"] /\ rd[r].pc = "updatePrev"
           /\ ~ Has(rd[r].prev, rd[r].seq)
  <2>1. /\ rd'[r].pc = "create" /\ rd'[r].seq = rd[r].seq /\ rd'[r].id = rd[r].id
        /\ rd'[r].recorded = k
    BY <1>0, <1>8
  <2>2. StillAhead(r)
    BY <2>1 DEF Crossing
  <2>3. ASSUME k > lastID PROVE rd[r].id - 1 # k
    <3>1. SUFFICES ASSUME rd[r].id - 1 = k PROVE FALSE
      OBVIOUS
    <3>2. rd[r].prev # Nil
      BY <1>8, <2>2, <2>3, <3>1 DEF StillAhead
    <3>3. bmap[k] = rd[r].prev
      BY <1>h, <1>8, <2>3, <3>1, <3>2 DEF ReaderHolds, HoldsPrev, Held
    <3> QED BY <1>4, <1>8, <2>1, <2>3, <3>2, <3>3 DEF Has
  <2>4. k > lastID => rd[r].id # k
    BY <1>8, <2>2 DEF StillAhead
  <2>5. k > lastID => rd[r].id - k \notin {0, 1}
    BY <1>k, <2>3, <2>4
  <2> QED BY <1>3, <1>k, <2>1, <2>5 DEF StillAhead
<1>9. CASE CreateLookup(r)
  <2>1. rd[r].pc = "create" /\ rd'[r] = [rd[r] EXCEPT !.pc = "insert", !.cur = bmap'[rd[r].id]]
    BY <1>0, <1>9 DEF CreateLookup
  <2>2. /\ rd'[r].pc = "insert" /\ rd'[r].seq = rd[r].seq /\ rd'[r].id = rd[r].id
        /\ rd'[r].recorded = k
    BY <1>0, <2>1
  <2>3. StillAhead(r)
    BY <2>2 DEF Crossing
  <2>4. k > lastID => rd[r].id - k \notin {0, 1}
    BY <2>1, <2>3 DEF StillAhead
  <2> QED BY <1>3, <1>k, <2>2, <2>4 DEF StillAhead
<1> QED BY <1>1, <1>2, <1>5, <1>6, <1>7, <1>8, <1>9, OneReader

(***************************************************************************)
(* An answer read after the Put of its probe, in the probe's window or the *)
(* next, updates the original entry as long as that window is open         *)
(* (buckets.received), in all modes and with any number of readers.        *)
(***************************************************************************)
THEOREM CrossingIsSafe == Spec => CrossingUpdatesOriginal
<1> DEFINE Updates ==
      \A r \in Readers :
        InsertReceived(r) /\ ~Has(rd[r].cur, rd[r].seq)
          => ~(rd[r].recorded > lastID /\ rd[r].id - rd[r].recorded \in {0, 1})
<1>1. Init => Crossing
  BY DEF Init, Crossing, IdleReader
<1>2. TypeOK /\ HeapInv /\ Dated /\ NoAnswerYet /\ PutRecorded /\ Crossing /\ [Next]_vars
        => Crossing'
  BY CrossingStep
<1>3. TypeOK /\ Crossing /\ [Next]_vars => [Updates]_vars
  <2> SUFFICES ASSUME TypeOK, Crossing, NEW r \in Readers, InsertReceived(r)
               PROVE  ~(rd[r].recorded > lastID /\ rd[r].id - rd[r].recorded \in {0, 1})
    OBVIOUS
  <2>1. lastID \in Nat /\ rd[r].recorded \in Nat /\ rd[r].pc = "insert"
    BY DEF TypeOK, ReaderType, ProcType, Windows, InsertReceived
  <2> QED BY <2>1 DEF Crossing, StillAhead
<1> QED BY <1>1, <1>2, <1>3, AlwaysPutRecorded, AlwaysNoAnswerYet, AlwaysDated,
           TypeCorrect, HeapInvariant, PTL DEF Spec, CrossingUpdatesOriginal

-----------------------------------------------------------------------------
(* the promise of the package                                              *)

(***************************************************************************)
(* Where probes are recorded before they are sent, an answer can only come *)
(* to a probe that is recorded.                                            *)
(***************************************************************************)
PutFirst ==
  /\ wr.pc \in {"send", "delete", "erase"} => wr.seq \in hist.put
  /\ \A s \in Seqs : wire[s] > 0 => s \in hist.put
  /\ \A r \in Readers : rd[r].pc # "idle" => rd[r].seq \in hist.put

LEMMA PutFirstStep ==
  ASSUME ~ SendThenPut, TypeOK, NoAnswerYet, PutFirst, [Next]_vars
  PROVE  PutFirst'
<1>0. /\ wire \in [Seqs -> Nat] /\ DOMAIN rd = Readers
      /\ hist \in [put : SUBSET Seqs, got : SUBSET Seqs]
      /\ wr \in [pc : {"idle", "lookup", "store", "send", "delete", "erase"},
                 seq : Seqs \cup {NoSeq}, ts : 0 .. MaxTime, ref : Refs \cup {Nil}]
      /\ IdleWriter.pc = "idle" /\ IdleReader.pc = "idle"
  BY StatConstants DEF TypeOK, ReaderType, HistoryType, WriterType, IdleWriter, IdleReader
<1>1. ASSUME NEW s \in hist.put, s \notin hist'.put
      PROVE  DeleteErase /\ s = wr.seq
  BY <1>1, HistMoves
<1>2. DeleteErase => /\ wire[wr.seq] = 0 /\ wire' = wire /\ wr' = IdleWriter /\ rd' = rd
                     /\ \A r \in Readers : rd[r].seq # wr.seq
  BY DEF DeleteErase, NoAnswerYet
<1>3. wr'.pc \in {"send", "delete", "erase"} => wr'.seq \in hist'.put
  <2>1. CASE Writer
    <3>1. (\E s \in Seqs : BeginProbe(s)) => wr'.pc = "lookup"
      BY DEF BeginProbe
    <3>2. PutLookup => wr'.pc = "store"
      BY <1>0 DEF PutLookup
    <3>3. PutStore => wr'.seq = wr.seq /\ hist'.put = hist.put \cup {wr.seq}
      BY <1>0 DEF PutStore
    <3>4. (\E n \in 0 .. MaxCopies : SendOK(n)) \/ DeadlineFails \/ DeleteErase
            => wr'.pc = "idle"
      BY <1>0 DEF SendOK, DeadlineFails, DeleteErase
    <3>5. SendFails => wr.pc = "send" /\ wr'.seq = wr.seq /\ hist' = hist
      BY <1>0 DEF SendFails
    <3>6. DeleteLookup => /\ wr.pc = "delete" /\ hist' = hist
                          /\ wr' = IdleWriter \/ wr'.seq = wr.seq
      BY <1>0 DEF DeleteLookup
    <3> QED BY <1>0, <2>1, <3>1, <3>2, <3>3, <3>4, <3>5, <3>6 DEF Writer, PutFirst
  <2>2. CASE wr' = wr
    BY <1>0, <1>1, <1>2, <2>2 DEF PutFirst
  <2> QED BY <2>1, <2>2, StepsByActor, ReadersFrame, ProcessorFrame, TimeFrame
<1>4. ASSUME NEW s \in Seqs, wire'[s] > 0 PROVE s \in hist'.put
  <2>1. CASE wr.pc = "send" /\ s = wr.seq
    BY <1>1, <2>1 DEF PutFirst, DeleteErase
  <2>2. CASE wire[s] > 0
    BY <1>1, <1>2, <2>2 DEF PutFirst
  <2> QED BY <1>4, <2>1, <2>2, WireMoves
<1>5. ASSUME NEW r \in Readers, rd'[r].pc # "idle" PROVE rd'[r].seq \in hist'.put
  <2>1. CASE \E s \in Seqs, kind \in Kinds : Receive(r, s, kind)
    <3>1. PICK s \in Seqs, kind \in Kinds : Receive(r, s, kind)
      BY <2>1
    <3>2. wire[s] > 0 /\ rd'[r].seq = s /\ hist' = hist
      BY <1>0, <3>1 DEF Receive
    <3> QED BY <3>2 DEF PutFirst
  <2>2. CASE rd[r].pc # "idle" /\ rd'[r].seq = rd[r].seq
    BY <1>1, <1>2, <2>2 DEF PutFirst
  <2> QED BY <1>0, <1>5, <2>1, <2>2, ReaderMoves
<1> QED BY <1>3, <1>4, <1>5 DEF PutFirst

(***************************************************************************)
(* Where answers are filed under the send time, every window is that of a  *)
(* probe, and the probe in hand is the youngest.                           *)
(***************************************************************************)
YoungestInHand ==
  /\ \A i \in Refs : \E s \in Seqs : sentTs[s] # 0 /\ heap[i].id = IDOf(sentTs[s])
  /\ wr.pc # "idle" => \A s \in Seqs : sentTs[s] <= wr.ts

LEMMA YoungestStep ==
  ASSUME TypeOK, HeapInv, Dated, BySendTime, YoungestInHand, [Next]_vars
  PROVE  YoungestInHand'
<1>d. DatedWriter /\ DatedProbes /\ DatedReaders
  BY DEF Dated
<1>0. sentTs \in [Seqs -> Nat] /\ now \in Nat /\ IdleWriter.pc = "idle"
  BY StatConstants DEF TypeOK, WriterType, ClockType, IdleWriter
<1>1. ASSUME NEW i \in Refs'
      PROVE  \E s \in Seqs : sentTs'[s] # 0 /\ heap'[i].id = IDOf(sentTs'[s])
  <2>1. CASE i \in Refs
    <3>1. PICK s \in Seqs : sentTs[s] # 0 /\ heap[i].id = IDOf(sentTs[s])
      BY <2>1 DEF YoungestInHand
    <3>2. sentTs'[s] = sentTs[s] /\ heap'[i].id = heap[i].id
      BY <2>1, <3>1, SentStays, Evolution DEF StoreEvolves, HeapInv, BucketsInHand
    <3> QED BY <3>1, <3>2
  <2>2. CASE PutLookup /\ heap'[i].id = IDOf(wr.ts)
    <3>1. wr.seq \in Seqs /\ sentTs[wr.seq] = wr.ts /\ sentTs[wr.seq] # 0 /\ sentTs' = sentTs
      BY <1>d, <2>2, WriterInHand DEF PutLookup
    <3> QED BY <2>2, <3>1
  <2>3. ASSUME NEW r \in Readers, CreateLookup(r), heap'[i].id = rd[r].id
        PROVE  \E s \in Seqs : sentTs'[s] # 0 /\ heap'[i].id = IDOf(sentTs'[s])
    <3>1. /\ rd[r].seq \in Seqs /\ sentTs[rd[r].seq] # 0 /\ sentTs' = sentTs
          /\ rd[r].id = IDOf(sentTs[rd[r].seq])
      BY <1>d, <2>3 DEF CreateLookup, DatedReaders, BySendTime, TypeOK, ReaderType
    <3> QED BY <2>3, <3>1
  <2> QED BY <2>1, <2>2, <2>3, NewObjects
<1>2. ASSUME wr'.pc # "idle", NEW s \in Seqs PROVE sentTs'[s] <= wr'.ts
  <2>1. ASSUME NEW t \in Seqs, BeginProbe(t) PROVE sentTs'[s] <= wr'.ts
    <3>1. wr'.ts = now /\ (sentTs'[s] = sentTs[s] \/ sentTs'[s] = now)
      BY <1>0, <2>1 DEF BeginProbe
    <3>2. sentTs[s] <= now
      BY <1>0, <1>d DEF DatedProbes
    <3> QED BY <1>0, <3>1, <3>2
  <2> QED BY <1>0, <1>2, <2>1, WriterMoves DEF YoungestInHand
<1> QED BY <1>1, <1>2 DEF YoungestInHand

(***************************************************************************)
(* Between the moment statOnce takes the oldest bucket and its report no   *)
(* older window opens: the bucket in the Processor's hand stays the oldest *)
(* of those that are not reported.                                         *)
(***************************************************************************)
OldestInHand ==
  proc.pc \in {"check", "loop"} /\ proc.ref # Nil =>
    \A k \in DOMAIN bmap : k > lastID => k >= heap[proc.ref].id

LEMMA OldestInHandStep ==
  ASSUME TypeOK, HeapInv, Dated, BySendTime, PutRecorded, PutFirst, YoungestInHand,
         OldestInHand, [Next]_vars
  PROVE  OldestInHand'
<1>h. StoreEvolves /\ MinIDIsOldest /\ KeysMatch /\ ProcHolds
  BY Evolution DEF HeapInv, BucketsInHand
<1>d. DatedWriter /\ DatedReaders
  BY DEF Dated
<1>0. /\ proc \in [pc : {"sleep", "wait", "oldest", "check", "loop", "reload", "remove"},
                   ref : Refs \cup {Nil}, dropped : Windows]
      /\ DOMAIN bmap \subseteq Windows /\ \A k \in DOMAIN bmap : bmap[k] \in Refs
      /\ lastID \in Nat /\ sentTs \in [Seqs -> Nat]
      /\ \A i \in Refs : heap[i].id \in Nat
  <2>1. \A i \in Refs : heap[i] \in BucketType
    BY ElementOfSeq DEF TypeOK, StoreType, Refs
  <2> QED BY <2>1, StatConstants
          DEF TypeOK, ProcType, StoreType, WriterType, Windows, BucketType
<1>1. CASE UNCHANGED <<proc, lastID>>
  <2> SUFFICES ASSUME proc.pc \in {"check", "loop"}, proc.ref # Nil,
                      NEW k \in DOMAIN bmap', k > lastID
               PROVE  k >= heap[proc.ref].id
    <3>1. proc.ref # Nil => heap'[proc.ref].id = heap[proc.ref].id
      BY <1>h, <1>0 DEF StoreEvolves
    <3> QED BY <1>1, <3>1 DEF OldestInHand
  <2>1. CASE k \in DOMAIN bmap
    BY <2>1 DEF OldestInHand
  <2>2. ASSUME k \notin DOMAIN bmap
        PROVE  \/ PutLookup /\ k = IDOf(wr.ts)
               \/ \E r \in Readers : CreateLookup(r) /\ k = rd[r].id
    <3>1. ASSUME NEW id, Creates(id) PROVE k = id
      BY <2>2, <3>1, CreateEffect DEF Creates, TypeOK
    <3>2. ~ Removes
      BY <1>1, <1>0 DEF Removes, DiscardStale, RemoveReported, IdleProc
    <3>3. bmap' # bmap
      BY <2>2
    <3>4. ASSUME NEW r \in Readers, CreateLookup(r), Creates(rd[r].id)
          PROVE  k = rd[r].id
      BY <3>1, <3>4
    <3>5. PutLookup /\ Creates(IDOf(wr.ts)) => k = IDOf(wr.ts)
      BY <3>1
    <3> QED BY <3>2, <3>3, <3>4, <3>5, StoreSteps DEF store, Report, Writes
  <2>3. ASSUME k \notin DOMAIN bmap, PutLookup, k = IDOf(wr.ts)
        PROVE  k >= heap[proc.ref].id
    <3>1. wr.pc # "idle"
      BY <2>3 DEF PutLookup
    <3>2. PICK s \in Seqs : sentTs[s] # 0 /\ heap[proc.ref].id = IDOf(sentTs[s])
      BY <1>0 DEF YoungestInHand
    <3>3. sentTs[s] <= wr.ts /\ wr.ts \in Nat /\ sentTs[s] \in Nat
      BY <1>0, <1>d, <3>1, WriterInHand DEF YoungestInHand
    <3>4. IDOf(sentTs[s]) <= IDOf(wr.ts)
      BY <3>3, IDOfMonotonic
    <3> QED BY <1>0, <2>3, <3>2, <3>4
  <2>4. ASSUME k \notin DOMAIN bmap, NEW r \in Readers, CreateLookup(r), k = rd[r].id
        PROVE  FALSE
    <3>1. /\ rd[r].seq \in hist.put /\ rd[r].id = IDOf(sentTs[rd[r].seq])
      BY <2>4 DEF CreateLookup, PutFirst, BySendTime
    <3> QED BY <2>4, <3>1 DEF PutRecorded
  <2> QED BY <2>1, <2>2, <2>3, <2>4
<1>2. CASE FetchOldest \/ ReloadOldest
  <2>1. proc'.ref = Oldest(bmap, minID) /\ UNCHANGED <<store, lastID>>
    BY <1>0, <1>2 DEF FetchOldest, ReloadOldest
  <2>2. CASE DOMAIN bmap = {}
    BY <2>1, <2>2 DEF OldestInHand, store
  <2>3. CASE DOMAIN bmap # {}
    <3>1. proc'.ref = bmap[minID] /\ heap[bmap[minID]].id = minID
          /\ \A j \in DOMAIN bmap : minID <= j
      BY <1>h, <2>1, <2>3 DEF Oldest, Lookup, MinIDIsOldest, KeysMatch
    <3>2. minID \in Int /\ \A j \in DOMAIN bmap : j \in Int
      BY <1>h, <1>0, <2>3 DEF MinIDIsOldest, Windows
    <3> QED BY <2>1, <3>1, <3>2 DEF OldestInHand, store
  <2> QED BY <2>2, <2>3
<1>3. CASE CheckAge
  <2>1. UNCHANGED <<store, lastID>> /\ (proc' = IdleProc \/ proc' = [proc EXCEPT !.pc = "loop"])
    BY <1>3 DEF CheckAge
  <2>2. proc.pc = "check" /\ (proc'.pc = "wait" \/ proc'.ref = proc.ref)
    BY <1>0, <1>3, <2>1 DEF CheckAge, IdleProc
  <2> QED BY <2>1, <2>2 DEF OldestInHand, store
<1>4. ASSUME proc'.pc \notin {"check", "loop"} PROVE OldestInHand'
  BY <1>4 DEF OldestInHand
<1>5. Processor => FetchOldest \/ ReloadOldest \/ CheckAge \/ proc'.pc \notin {"check", "loop"}
  <2>1. StartProcessor \/ TakeTick \/ NothingToReport \/ RemoveReported
          => proc'.pc \in {"oldest", "wait"}
    BY DEF StartProcessor, TakeTick, NothingToReport, RemoveReported, IdleProc
  <2>2. DiscardStale => proc'.pc = "reload"
    BY <1>0 DEF DiscardStale
  <2>3. Report => proc'.pc = "remove"
    BY <1>0 DEF Report
  <2> QED BY <2>1, <2>2, <2>3 DEF Processor, StatOnce
<1> QED BY <1>1, <1>2, <1>3, <1>4, <1>5, StepsByActor, WriterFrames, ReadersFrame, TimeFrame

(***************************************************************************)
(* The refinement mapping: what the open windows hold.                     *)
(***************************************************************************)
LEMMA InOpenPairs ==
  \A set, k, s :
    <<k, s>> \in OpenPairs(set) <=>
      /\ k \in DOMAIN bmap /\ s \in Seqs /\ k > lastID
      /\ heap[bmap[k]].requests[s] \in set
BY DEF OpenPairs

LEMMA SamePairs ==
  ASSUME NEW A, NEW B, NEW X, NEW Y, A \subseteq X \X Y, B \subseteq X \X Y,
         \A x \in X, y \in Y : <<x, y>> \in A <=> <<x, y>> \in B
  PROVE  A = B
OBVIOUS

LEMMA NextOpenPairs ==
  ASSUME NEW set, NEW B, B \subseteq Windows \X Seqs, DOMAIN bmap' \subseteq Windows,
         \A k \in Windows, s \in Seqs :
           <<k, s>> \in B <=> /\ k \in DOMAIN bmap' /\ k > lastID'
                              /\ heap'[bmap'[k]].requests[s] \in set
  PROVE  OpenPairs(set)' = B
<1>1. OpenPairs(set)' = {p \in (DOMAIN bmap') \X Seqs :
                           p[1] > lastID' /\ heap'[bmap'[p[1]]].requests[p[2]] \in set}
  BY DEF OpenPairs
<1>2. PICK A : A = {p \in (DOMAIN bmap') \X Seqs :
                      p[1] > lastID' /\ heap'[bmap'[p[1]]].requests[p[2]] \in set}
  OBVIOUS
<1>3. A \subseteq Windows \X Seqs
  BY <1>2
<1>4. \A k \in Windows, s \in Seqs : <<k, s>> \in A <=> <<k, s>> \in B
  BY <1>2
<1>5. A = B
  BY <1>3, <1>4, SamePairs
<1> QED BY <1>1, <1>2, <1>5

(***************************************************************************)
(* What get-or-create, remove, a write and a report do to it.              *)
(***************************************************************************)
LEMMA OpenPairsType ==
  ASSUME TypeOK PROVE \A set : OpenPairs(set) \subseteq Windows \X Seqs
BY DEF OpenPairs, TypeOK, StoreType

LEMMA OpenPairsCreate ==
  ASSUME TypeOK, TypeOK', NEW id, Creates(id), NEW set, "none" \notin set
  PROVE  OpenPairs(set)' = OpenPairs(set)
<1>1. StoreType /\ StoreType' /\ id \in Windows /\ GetOrCreate(id) /\ lastID' = lastID
  BY DEF TypeOK, Creates
<1>2. PICK B : B = OpenPairs(set)
  OBVIOUS
<1>3. B \subseteq Windows \X Seqs
  BY <1>2, OpenPairsType
<1>4. /\ DOMAIN bmap' = DOMAIN bmap \cup {id}
      /\ \A k \in DOMAIN bmap : bmap'[k] = bmap[k] /\ bmap[k] \in Refs
      /\ \A i \in Refs : heap'[i] = heap[i]
      /\ id \notin DOMAIN bmap => heap'[bmap'[id]] = NewBucket(id)
  BY <1>1, CreateEffect DEF StoreType
<1>5. \A s \in Seqs : NewBucket(id).requests[s] = "none"
  BY DEF NewBucket
<1>6. DOMAIN bmap' \subseteq Windows
  BY <1>1 DEF StoreType
<1>7. ASSUME NEW k \in Windows, NEW s \in Seqs
      PROVE  <<k, s>> \in B <=> /\ k \in DOMAIN bmap' /\ k > lastID'
                                /\ heap'[bmap'[k]].requests[s] \in set
  <2>1. <<k, s>> \in B <=> /\ k \in DOMAIN bmap /\ k > lastID
                           /\ heap[bmap[k]].requests[s] \in set
    BY <1>2, InOpenPairs
  <2>2. CASE k \in DOMAIN bmap
    BY <1>1, <1>4, <2>1, <2>2
  <2>3. CASE k \notin DOMAIN bmap
    BY <1>4, <1>5, <2>1, <2>3
  <2> QED BY <2>2, <2>3
<1>8. OpenPairs(set)' = B
  BY <1>3, <1>6, <1>7, NextOpenPairs
<1> QED BY <1>2, <1>8

LEMMA OpenPairsRemove ==
  ASSUME TypeOK, TypeOK', ProcHolds, Removes, NEW set
  PROVE  OpenPairs(set)' = OpenPairs(set)
<1>0. PICK id : id = heap[proc.ref].id
  OBVIOUS
<1>1. /\ StoreType /\ StoreType' /\ Remove(id) /\ id \in Windows /\ id <= lastID
      /\ lastID' = lastID /\ lastID \in Windows
  BY <1>0, RemovesOnlyReported DEF TypeOK, ProcType
<1>2. PICK B : B = OpenPairs(set)
  OBVIOUS
<1>3. B \subseteq Windows \X Seqs
  BY <1>2, OpenPairsType
<1>4. /\ DOMAIN bmap' = DOMAIN bmap \ {id} /\ heap' = heap
      /\ \A k \in DOMAIN bmap' : bmap'[k] = bmap[k]
  BY <1>1, RemoveEffect
<1>5. DOMAIN bmap' \subseteq Windows
  BY <1>1 DEF StoreType
<1>6. ASSUME NEW k \in Windows, NEW s \in Seqs
      PROVE  <<k, s>> \in B <=> /\ k \in DOMAIN bmap' /\ k > lastID'
                                /\ heap'[bmap'[k]].requests[s] \in set
  <2>1. <<k, s>> \in B <=> /\ k \in DOMAIN bmap /\ k > lastID
                           /\ heap[bmap[k]].requests[s] \in set
    BY <1>2, InOpenPairs
  <2>2. k = id => ~(k > lastID)
    BY <1>1 DEF Windows
  <2> QED BY <1>1, <1>4, <2>1, <2>2
<1>7. OpenPairs(set)' = B
  BY <1>3, <1>5, <1>6, NextOpenPairs
<1> QED BY <1>2, <1>7

LEMMA OpenPairsWrite ==
  ASSUME TypeOK, TypeOK', KeysMatch, NEW ref, NEW s, NEW status, Writes(ref, s, status),
         NEW id, Held(ref, id), NEW set
  PROVE  /\ id \in Windows
         /\ ~(id > lastID) => OpenPairs(set)' = OpenPairs(set)
         /\ id > lastID =>
              /\ status \in set => OpenPairs(set)' = OpenPairs(set) \cup {<<id, s>>}
              /\ status \notin set => OpenPairs(set)' = OpenPairs(set) \ {<<id, s>>}
<1>1. /\ StoreType /\ StoreType' /\ ref \in Refs /\ s \in Seqs /\ status \in Status
      /\ Write(ref, s, status) /\ bmap' = bmap /\ lastID' = lastID
  BY DEF TypeOK, Writes
<1>2. /\ \A k \in DOMAIN bmap : bmap[k] \in Refs /\ heap[bmap[k]].id = k
      /\ heap[ref].id = id /\ DOMAIN bmap \subseteq Windows
      /\ id > lastID => id \in DOMAIN bmap /\ bmap[id] = ref
  BY <1>1 DEF StoreType, KeysMatch, Held
<1>3. id \in Windows
  <2>1. heap[ref] \in BucketType
    BY <1>1, ElementOfSeq DEF StoreType, Refs
  <2> QED BY <1>2, <2>1 DEF BucketType
<1>4. /\ \A i \in Refs : i # ref => heap'[i].requests = heap[i].requests
      /\ \A t \in Seqs : heap'[ref].requests[t] =
                           IF t = s THEN status ELSE heap[ref].requests[t]
  BY <1>1, WriteEffect
<1>5. PICK A : A = OpenPairs(set)
  OBVIOUS
<1>6. A \subseteq Windows \X Seqs
  BY <1>5, OpenPairsType
<1>7. \A k \in Windows, t \in Seqs :
        <<k, t>> \in A <=> /\ k \in DOMAIN bmap /\ k > lastID
                           /\ heap[bmap[k]].requests[t] \in set
  BY <1>5, InOpenPairs
<1>8. \A k \in DOMAIN bmap, t \in Seqs :
        heap'[bmap[k]].requests[t] =
          IF k = id /\ bmap[k] = ref /\ t = s THEN status ELSE heap[bmap[k]].requests[t]
  BY <1>2, <1>4
<1>9. ASSUME ~(id > lastID) PROVE OpenPairs(set)' = A
  <2>1. \A k \in Windows, t \in Seqs :
          <<k, t>> \in A <=> /\ k \in DOMAIN bmap' /\ k > lastID'
                             /\ heap'[bmap'[k]].requests[t] \in set
    BY <1>1, <1>7, <1>8, <1>9
  <2> QED BY <1>1, <1>2, <1>6, <2>1, NextOpenPairs
<1>10. ASSUME id > lastID, status \in set PROVE OpenPairs(set)' = A \cup {<<id, s>>}
  <2>0. PICK B : B = A \cup {<<id, s>>}
    OBVIOUS
  <2>1. B \subseteq Windows \X Seqs
    BY <1>1, <1>3, <1>6, <2>0
  <2>2. \A k \in Windows, t \in Seqs : <<k, t>> \in B <=> <<k, t>> \in A \/ (k = id /\ t = s)
    BY <2>0
  <2>3. ASSUME NEW k \in Windows, NEW t \in Seqs
        PROVE  <<k, t>> \in B <=> /\ k \in DOMAIN bmap' /\ k > lastID'
                                  /\ heap'[bmap'[k]].requests[t] \in set
    <3>1. CASE k = id /\ t = s
      <4>1. k \in DOMAIN bmap /\ bmap[k] = ref /\ k > lastID
        BY <1>2, <1>10, <3>1
      <4> QED BY <1>1, <1>4, <1>10, <2>2, <3>1, <4>1
    <3>2. CASE ~(k = id /\ t = s)
      <4>1. <<k, t>> \in B <=> <<k, t>> \in A
        BY <2>2, <3>2
      <4>2. k \in DOMAIN bmap => heap'[bmap[k]].requests[t] = heap[bmap[k]].requests[t]
        BY <1>8, <3>2
      <4> QED BY <1>1, <1>7, <4>1, <4>2
    <3> QED BY <3>1, <3>2
  <2>4. OpenPairs(set)' = B
    BY <1>1, <1>2, <2>1, <2>3, NextOpenPairs
  <2> QED BY <2>0, <2>4
<1>11. ASSUME id > lastID, status \notin set PROVE OpenPairs(set)' = A \ {<<id, s>>}
  <2>0. PICK B : B = A \ {<<id, s>>}
    OBVIOUS
  <2>1. B \subseteq Windows \X Seqs
    BY <1>6, <2>0
  <2>2. \A k \in Windows, t \in Seqs : <<k, t>> \in B <=> <<k, t>> \in A /\ ~(k = id /\ t = s)
    BY <2>0
  <2>3. ASSUME NEW k \in Windows, NEW t \in Seqs
        PROVE  <<k, t>> \in B <=> /\ k \in DOMAIN bmap' /\ k > lastID'
                                  /\ heap'[bmap'[k]].requests[t] \in set
    <3>1. CASE k = id /\ t = s
      <4>1. k \in DOMAIN bmap /\ bmap[k] = ref /\ k > lastID
        BY <1>2, <1>11, <3>1
      <4> QED BY <1>1, <1>4, <1>11, <2>2, <3>1, <4>1
    <3>2. CASE ~(k = id /\ t = s)
      <4>1. <<k, t>> \in B <=> <<k, t>> \in A
        BY <2>2, <3>2
      <4>2. k \in DOMAIN bmap => heap'[bmap[k]].requests[t] = heap[bmap[k]].requests[t]
        BY <1>8, <3>2
      <4> QED BY <1>1, <1>7, <4>1, <4>2
    <3> QED BY <3>1, <3>2
  <2>4. OpenPairs(set)' = B
    BY <1>1, <1>2, <2>1, <2>3, NextOpenPairs
  <2> QED BY <2>0, <2>4
<1> QED BY <1>3, <1>5, <1>9, <1>10, <1>11

LEMMA OpenPairsReport ==
  ASSUME TypeOK, TypeOK', Report, lastID <= lastID', NEW set
  PROVE  OpenPairs(set)' = {p \in OpenPairs(set) : p[1] > lastID'}
<1>1. /\ bmap' = bmap /\ heap' = heap /\ lastID \in Windows /\ lastID' \in Windows
      /\ DOMAIN bmap \subseteq Windows
  BY DEF Report, store, TypeOK, ProcType, StoreType
<1>2. PICK A : A = OpenPairs(set)
  OBVIOUS
<1>3. PICK B : B = {p \in A : p[1] > lastID'}
  OBVIOUS
<1>4. A \subseteq Windows \X Seqs
  BY <1>2, OpenPairsType
<1>5. B \subseteq Windows \X Seqs
  BY <1>3, <1>4
<1>6. ASSUME NEW k \in Windows, NEW s \in Seqs
      PROVE  <<k, s>> \in B <=> /\ k \in DOMAIN bmap' /\ k > lastID'
                                /\ heap'[bmap'[k]].requests[s] \in set
  <2>1. <<k, s>> \in A <=> /\ k \in DOMAIN bmap /\ k > lastID
                           /\ heap[bmap[k]].requests[s] \in set
    BY <1>2, InOpenPairs
  <2>2. <<k, s>> \in B <=> <<k, s>> \in A /\ k > lastID'
    BY <1>3
  <2>3. k > lastID' => k > lastID
    BY <1>1 DEF Windows
  <2> QED BY <1>1, <2>1, <2>2, <2>3
<1>7. OpenPairs(set)' = B
  BY <1>1, <1>5, <1>6, NextOpenPairs
<1> QED BY <1>2, <1>3, <1>7

(***************************************************************************)
(* Put, Received and Delete take effect at one step each.                  *)
(***************************************************************************)
LEMMA WritesRefine ==
  ASSUME TypeOK, TypeOK', HeapInv, [Next]_vars, reports' = reports,
         NEW ref, NEW s, NEW status, Writes(ref, s, status), Held(ref, heap[ref].id),
         \/ status = AfterPut(heap[ref].requests[s])
         \/ status \in {"none", "ack", "rst"}
  PROVE  [WL!Next]_(WL!wvars)
<1>0. ref \in Refs /\ s \in Seqs /\ status \in Status /\ lastID' = lastID
  BY DEF Writes
<1>1. KeysMatch
  BY DEF HeapInv, BucketsInHand
<1>2. PICK id : id = heap[ref].id
  OBVIOUS
<1>3. Held(ref, id)
  BY <1>2
<1> DEFINE S == {"unset", "ack", "rst"}
           A == {"ack", "rst"}
<1>4. CASE ~(id > lastID)
  <2>1. OpenPairs(S)' = OpenPairs(S) /\ OpenPairs(A)' = OpenPairs(A)
    BY <1>1, <1>3, <1>4, OpenPairsWrite
  <2> QED BY <1>0, <2>1 DEF WL!wvars
<1>5. CASE id > lastID
  <2>0. id \in Windows /\ id \in DOMAIN bmap /\ bmap[id] = ref
    BY <1>1, <1>3, <1>5, OpenPairsWrite DEF Held
  <2>1. CASE status \in A
    <3>1. /\ OpenPairs(S)' = OpenPairs(S) \cup {<<id, s>>}
          /\ OpenPairs(A)' = OpenPairs(A) \cup {<<id, s>>}
      BY <1>1, <1>3, <1>5, <2>1, OpenPairsWrite
    <3>2. WL!Answer(id, s)
      BY <1>0, <1>5, <3>1 DEF WL!Answer
    <3> QED BY <1>0, <2>0, <3>2 DEF WL!Next
  <2>2. CASE status = "none"
    <3>1. status \notin S /\ status \notin A
      BY <2>2
    <3>2. /\ OpenPairs(S)' = OpenPairs(S) \ {<<id, s>>}
          /\ OpenPairs(A)' = OpenPairs(A) \ {<<id, s>>}
      BY <1>1, <1>3, <1>5, <3>1, OpenPairsWrite
    <3>3. WL!Withdraw(id, s)
      BY <1>0, <1>5, <3>2 DEF WL!Withdraw
    <3> QED BY <1>0, <2>0, <3>3 DEF WL!Next
  <2>3. CASE status = "unset"
    <3>1. status \in S /\ status \notin A /\ heap[ref].requests[s] \notin A
      BY <2>3 DEF AfterPut
    <3>2. /\ OpenPairs(S)' = OpenPairs(S) \cup {<<id, s>>}
          /\ OpenPairs(A)' = OpenPairs(A) \ {<<id, s>>}
      BY <1>1, <1>3, <1>5, <3>1, OpenPairsWrite
    <3>3. <<id, s>> \notin OpenPairs(A)
      BY <2>0, <3>1, InOpenPairs
    <3>4. OpenPairs(A)' = OpenPairs(A)
      BY <3>2, <3>3
    <3>5. WL!Record(id, s)
      BY <1>0, <1>5, <3>2, <3>4 DEF WL!Record
    <3> QED BY <1>0, <2>0, <3>5 DEF WL!Next
  <2> QED BY <1>0, <2>1, <2>2, <2>3 DEF Status
<1> QED BY <1>4, <1>5

(***************************************************************************)
(* A report closes the oldest window that holds anything.                  *)
(***************************************************************************)
LEMMA ReportRefines ==
  ASSUME TypeOK, TypeOK', HeapInv, OldestInHand, Report
  PROVE  WL!Next
<1> DEFINE S == {"unset", "ack", "rst"}
           A == {"ack", "rst"}
<1>1. PICK b \in Refs : b = proc.ref /\ heap[b] \in BucketType
  BY AppendedReport
<1>2. PICK k \in Windows : k = heap[b].id
  BY <1>1 DEF BucketType
<1>3. /\ lastID' = k /\ k > lastID /\ lastID \in Windows
      /\ k \in DOMAIN bmap /\ bmap[k] = b
      /\ \A j \in DOMAIN bmap : j > lastID => j >= k
  BY <1>1, <1>2 DEF Report, Stale, HeapInv, BucketsInHand, ProcHolds, TypeOK, ProcType,
                    Windows, OldestInHand
<1>4. lastID <= lastID'
  BY <1>3 DEF Windows
<1>5. /\ OpenPairs(S)' = {p \in OpenPairs(S) : p[1] > k}
      /\ OpenPairs(A)' = {p \in OpenPairs(A) : p[1] > k}
  BY <1>3, <1>4, OpenPairsReport
<1>6. \A p \in OpenPairs(S) : p[1] >= k
  BY <1>3 DEF OpenPairs
<1>7. PICK x : x = StatResult(heap[b])
  OBVIOUS
<1>8. /\ x.id = k
      /\ x.sent = {s \in Seqs : <<k, s>> \in OpenPairs(S)}
      /\ x.received = {s \in Seqs : <<k, s>> \in OpenPairs(A)}
  <2>1. \A s \in Seqs : /\ <<k, s>> \in OpenPairs(S) <=> heap[b].requests[s] \in S
                        /\ <<k, s>> \in OpenPairs(A) <=> heap[b].requests[s] \in A
    BY <1>3, InOpenPairs
  <2> QED BY <1>2, <1>7, <2>1 DEF StatResult, Counted
<1>9. /\ reports \in Seq(ReportType)
      /\ DOMAIN reports' = DOMAIN reports \cup {Len(reports) + 1}
      /\ Len(reports) + 1 \notin DOMAIN reports
      /\ \A i \in DOMAIN reports : reports'[i] = reports[i]
      /\ reports'[Len(reports) + 1] = x
  BY <1>1, <1>7, AppendedReport DEF TypeOK, HistoryType
<1> DEFINE Log(reps) == [i \in DOMAIN reps |-> [id |-> reps[i].id, sent |-> reps[i].sent,
                                                received |-> reps[i].received]]
           e == [id |-> k, sent |-> {s \in Seqs : <<k, s>> \in OpenPairs(S)},
                 received |-> {s \in Seqs : <<k, s>> \in OpenPairs(A)}]
<1>10. Log(reports') = Append(Log(reports), e)
  <2>1. PICK y : y = e
    OBVIOUS
  <2>2. y = [id |-> x.id, sent |-> x.sent, received |-> x.received]
    BY <1>8, <2>1
  <2>3. Len(reports) \in Nat /\ DOMAIN reports = 1 .. Len(reports)
    BY <1>9
  <2>4. PICK l : l = Log(reports)
    OBVIOUS
  <2>5. PICK m : m = Log(reports')
    OBVIOUS
  <2>6. PICK R : R = [id : Windows, sent : SUBSET Seqs, received : SUBSET Seqs]
    OBVIOUS
  <2>7. y \in R
    BY <2>1, <2>6
  <2>8. \A i \in 1 .. Len(reports) : l[i] \in R
    <3>1. \A i \in 1 .. Len(reports) : reports[i] \in ReportType
      BY <1>9, ElementOfSeq
    <3> QED BY <2>3, <2>4, <2>6, <3>1 DEF ReportType
  <2>9. l \in Seq(R) /\ Len(l) = Len(reports)
    <3>1. l \in [1 .. Len(reports) -> R]
      BY <2>3, <2>4, <2>8
    <3> QED BY <2>3, <3>1
  <2>10. /\ DOMAIN m = 1 .. Len(reports) + 1
         /\ \A i \in 1 .. Len(reports) : m[i] = l[i]
         /\ m[Len(reports) + 1] = y
    BY <1>9, <2>2, <2>3, <2>4, <2>5
  <2>11. m \in Seq(R) /\ Len(m) = Len(reports) + 1
    <3>1. m \in [1 .. Len(reports) + 1 -> R]
      <4>1. m = [i \in 1 .. Len(reports) + 1 |-> m[i]]
        BY <2>5, <2>10
      <4> QED BY <2>3, <2>7, <2>8, <2>10, <4>1
    <3> QED BY <2>3, <3>1
  <2>12. m = Append(l, y)
    BY <2>3, <2>7, <2>9, <2>10, <2>11
  <2> QED BY <2>1, <2>4, <2>5, <2>12
<1>11. WL!Report(k)
  BY <1>3, <1>5, <1>6, <1>10 DEF WL!Report
<1> QED BY <1>11 DEF WL!Next

LEMMA RefinementStep ==
  ASSUME TypeOK, TypeOK', HeapInv, OldestInHand, [Next]_vars
  PROVE  [WL!Next]_(WL!wvars)
<1>h. WriterHolds /\ KeysMatch /\ ProcHolds
  BY DEF HeapInv, BucketsInHand
<1>1. CASE Report
  BY <1>1, ReportRefines
<1>2. CASE ~ Report
  <2>1. reports' = reports /\ lastID' = lastID
    BY <1>2, ReportSteps
  <2>2. CASE UNCHANGED store
    BY <2>1, <2>2 DEF WL!wvars, OpenPairs, store
  <2>3. ASSUME NEW id, Creates(id) PROVE [WL!Next]_(WL!wvars)
    <3>1. /\ OpenPairs({"unset", "ack", "rst"})' = OpenPairs({"unset", "ack", "rst"})
          /\ OpenPairs({"ack", "rst"})' = OpenPairs({"ack", "rst"})
      BY <2>3, OpenPairsCreate
    <3> QED BY <2>1, <3>1 DEF WL!wvars
  <2>4. CASE Removes
    <3>1. /\ OpenPairs({"unset", "ack", "rst"})' = OpenPairs({"unset", "ack", "rst"})
          /\ OpenPairs({"ack", "rst"})' = OpenPairs({"ack", "rst"})
      BY <1>h, <2>4, OpenPairsRemove
    <3> QED BY <2>1, <3>1 DEF WL!wvars
  <2>5. CASE PutStore /\ Writes(wr.ref, wr.seq, AfterPut(heap[wr.ref].requests[wr.seq]))
    <3>1. Held(wr.ref, heap[wr.ref].id)
      BY <1>h, <2>5 DEF WriterHolds, PutStore, Held
    <3> QED BY <2>1, <2>5, <3>1, WritesRefine
  <2>6. CASE DeleteErase /\ Writes(wr.ref, wr.seq, "none")
    <3>1. Held(wr.ref, heap[wr.ref].id)
      BY <1>h, <2>6 DEF WriterHolds, DeleteErase, Held
    <3> QED BY <2>1, <2>6, <3>1, WritesRefine
  <2>7. ASSUME NEW r \in Readers, NEW ref \in Refs, Marks(r, ref),
               Writes(ref, rd[r].seq,
                      AfterReceived(heap[ref].requests[rd[r].seq], rd[r].kind))
        PROVE  [WL!Next]_(WL!wvars)
    <3>1. Held(ref, heap[ref].id)
      BY <2>7, MarksHeld
    <3>2. AfterReceived(heap[ref].requests[rd[r].seq], rd[r].kind) \in {"none", "ack", "rst"}
      BY DEF AfterReceived
    <3> QED BY <2>1, <2>7, <3>1, <3>2, WritesRefine
  <2>8. PutLookup /\ Creates(IDOf(wr.ts)) => [WL!Next]_(WL!wvars)
    BY <2>3
  <2>9. (\E r \in Readers : CreateLookup(r) /\ Creates(rd[r].id)) => [WL!Next]_(WL!wvars)
    BY <2>3
  <2> QED BY <1>2, <2>2, <2>4, <2>5, <2>6, <2>7, <2>8, <2>9, StoreSteps DEF Marks
<1> QED BY <1>1, <1>2

(***************************************************************************)
(* sonar, sonar6, kuiniu and evr, which record before they send and file   *)
(* answers under the send time: the buckets with their locks, references   *)
(* and races implement WindowLog (Put, Received, Delete, statOnce).        *)
(***************************************************************************)
THEOREM StatImplementsWindowLog ==
  ASSUME ~ KeyByRecv, ~ SendThenPut
  PROVE  Spec => ImplementsWindowLog
<1>1. Init => WL!Init
  BY DEF Init, WL!Init, OpenPairs
<1>2. Init => PutFirst /\ YoungestInHand /\ OldestInHand
  BY DEF Init, PutFirst, YoungestInHand, OldestInHand, IdleWriter, IdleReader, Refs
<1>3. TypeOK /\ NoAnswerYet /\ PutFirst /\ [Next]_vars => PutFirst'
  BY PutFirstStep
<1>4. TypeOK /\ HeapInv /\ Dated /\ BySendTime /\ YoungestInHand /\ [Next]_vars
        => YoungestInHand'
  BY YoungestStep
<1>5. TypeOK /\ HeapInv /\ Dated /\ BySendTime /\ PutRecorded /\ PutFirst
        /\ YoungestInHand /\ OldestInHand /\ [Next]_vars
        => OldestInHand'
  BY OldestInHandStep
<1>6. TypeOK /\ TypeOK' /\ HeapInv /\ OldestInHand /\ [Next]_vars => [WL!Next]_(WL!wvars)
  BY RefinementStep
<1>7. Spec => []PutFirst
  BY <1>2, <1>3, TypeCorrect, AlwaysNoAnswerYet, PTL DEF Spec
<1>8. Spec => []YoungestInHand
  BY <1>2, <1>4, TypeCorrect, HeapInvariant, AlwaysDated, AlwaysBySendTime, PTL DEF Spec
<1>9. Spec => []OldestInHand
  BY <1>2, <1>5, <1>7, <1>8, TypeCorrect, HeapInvariant, AlwaysDated, AlwaysBySendTime,
     AlwaysPutRecorded, PTL DEF Spec
<1> QED BY <1>1, <1>6, <1>9, TypeCorrect, HeapInvariant, PTL
        DEF Spec, ImplementsWindowLog, WL!Spec
=============================================================================
