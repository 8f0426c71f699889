CONSTANTS
  Tools = {"traceroute", "traceroute6"}
  Confs <- Tcp
  Pid <- LastPid
  Dist <- Distances
  ForeignPid <- OtherPid
  Providers = {"cymru", "ipinfo"}
SPECIFICATION Spec
INVARIANTS
  AnswersMatchHop
CHECK_DEADLOCK FALSE
