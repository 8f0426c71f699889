CONSTANTS
  Seqs = {s1, s2}
  NoSeq = NoSeq
  Readers = {r1}
  Kinds = {"ack", "rst"}
  Span = 1
  Delay = 2
  SendThenPut = TRUE
  KeyByRecv = TRUE
  Start = 2
  LastSend = 4
  MaxTime = 5
  MaxCopies = 1
SPECIFICATION Spec
SYMMETRY Symmetry
INVARIANT LossVerdictWaits
PROPERTY CrossingUpdatesOriginal
