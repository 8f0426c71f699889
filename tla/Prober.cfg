CONSTANTS
  Tools = {"ping", "ping6", "lidar"}
  N = 2
  Pid = 7
  Word = 8
  AckWord = 4
  LongWord = 16
  SeqStarts <- Wrapping
  Confs <- Limits
  Delay = 2
  ReadTimeout = 1
  ServerPort = 3
  SrcPort = 5
  PortCount = 2
  PortWord = 16
  MaxRounds = 2
  NoiseSeq = 0
SPECIFICATION Spec
INVARIANTS
  TypeOK
  OnlyRealAnswers
  NoAnswerLost
  StopIsClean
PROPERTY CancelEndsRun
