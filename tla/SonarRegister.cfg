CONSTANTS
  Word = 8
  ClientRange <- TwoPorts
  ServerRange <- TwoPorts
  RateInSpan = 2
  Span = 1
  Delay = 1
  Warmup = 1
  V6 = TRUE
  Preconfigured = FALSE
  Start = 2
  LastSend = 3
  MaxTime = 3
  MaxProbes = 2
  MaxCopies = 2
  MaxRestarts = 0
SPECIFICATION Spec
INVARIANT OneStatPerClient
PROPERTY LossIsReal
