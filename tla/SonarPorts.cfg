CONSTANTS
  Word = 8
  ClientRange <- TwoPorts
  ServerRange <- TwoPorts
  RateInSpan = 2
  Span = 1
  Delay = 2
  Warmup = 1
  V6 = FALSE
  Preconfigured = TRUE
  Start = 2
  LastSend = 3
  MaxTime = 5
  MaxProbes = 3
  MaxCopies = 1
  MaxRestarts = 0
SPECIFICATION Spec
INVARIANT NoLossNoPorts
