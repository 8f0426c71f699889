CONSTANTS
  Word = 8
  Tools = {"sonar", "sonar6", "kuiniu", "evr"}
  N = 2
  ClientRange <- ThreePorts
  ServerRange <- OnePort
  InnerPort = 5
  MaxReaders = 2
  MaxErrors = 2
  Grace = 1
  Confs <- Limits
  MaxProbes = 2
  MaxFaults = 1
SPECIFICATION Spec
INVARIANTS
  TypeOK
  OnlyOwnAnswers
  OneReaderPerAnswer
  NoEchoLoop
  UnsentNotCounted
  CountIsExact
PROPERTIES
  LimitDrains
  ReadersEnd
