CONSTANTS
  Word = 8
  ClientRanges <- BelowLast
  ServerRanges <- BelowLast
SPECIFICATION Spec
INVARIANT PortsInRange
PROPERTY EveryPairInTurn
