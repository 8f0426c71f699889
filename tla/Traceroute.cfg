CONSTANTS
  Tools = {"traceroute", "traceroute6"}
  Confs <- Quoted
  Pid <- LastPid
  Dist <- Distances
  ForeignPid <- OtherPid
  Providers = {"cymru", "ipinfo"}
SPECIFICATION Spec
INVARIANTS
  AnswersMatchHop
  PathIsWhole
  OneLookup
  NamesSettled
  MergeKeepsAll
PROPERTY RunReturns
CHECK_DEADLOCK FALSE
