CONSTANTS
  Seqs = {s1, s2}
  NoSeq = NoSeq
  Readers = {r1}
  Kinds = {"ack"}
  Span = 1
  Delay = 1
  SendThenPut = FALSE
  KeyByRecv = FALSE
  Start = 1
  LastSend = 2
  MaxTime = 4
  MaxCopies = 1
SPECIFICATION FairSpec
PROPERTY EveryWindowLeaves
