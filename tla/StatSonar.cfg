CONSTANTS
  Seqs = {s1, s2}
  NoSeq = NoSeq
  Readers = {r1, r2}
  Kinds = {"ack"}
  Span = 1
  Delay = 1
  SendThenPut = FALSE
  KeyByRecv = FALSE
  Start = 1
  LastSend = 2
  MaxTime = 3
  MaxCopies = 2
SPECIFICATION Spec
SYMMETRY Symmetry
INVARIANTS
  TypeOK
  MinIDIsOldest
  BucketsInHand
  ReportsIncrease
  CountedOnce
PROPERTIES
  ReportComplete
  ImplementsWindowLog
