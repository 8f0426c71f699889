----------------------------- MODULE Traceroute -----------------------------
(***************************************************************************)
(* Tracer.Run as a whole: the targets are traced, then the names of the    *)
(* addresses found are looked up and the providers are asked.              *)
(***************************************************************************)
EXTENDS Tracer, Enrich

vars == <<tvars, evars>>

Init ==
  /\ TInit
  /\ phase = "trace"
  /\ occ = <<>> /\ look = <<>> /\ cache = <<>> /\ asked = <<>> /\ hosts = <<>>
  /\ prov = {} /\ given = [p \in Providers |-> <<>>] /\ infos = <<>>

(***************************************************************************)
(* targetWG.Wait() has returned, and nobody listens any more.              *)
(***************************************************************************)
Occurrences ==
  {o \in Targets \X TTLs \X (1 .. conf.maxHops * conf.queries) :
     o[2] <= Len(hops[o[1]]) /\ o[3] <= Len(hops[o[1]][o[2]].addrs)}

WaitTargets ==
  /\ phase = "trace" /\ TracingDone
  /\ occ' = [o \in Occurrences |-> hops[o[1]][o[2]].addrs[o[3]]]
  /\ LET ips == {occ'[o] : o \in Occurrences}
     IN  /\ cache' = [a \in ips |-> "absent"]
         /\ asked' = [a \in ips |-> 0]
         /\ infos' = [a \in ips |-> Empty]
  /\ look' = [o \in Occurrences |-> IF conf.dns THEN "start" ELSE "off"]
  /\ hosts' = [o \in Occurrences |-> "absent"]
  /\ phase' = IF conf.dns THEN "hosts" ELSE "enrich"
  /\ net' = {}
  /\ UNCHANGED <<tool, conf, turn, target, probe, answer, sem, hops, ret, prov,
                 given>>

ResolveNames ==
  /\ \/ \E o \in Occ : Lookup(o) \/ LookupAddr(o)
     \/ tool = "traceroute" /\ resolveHosts
     \/ tool = "traceroute6" /\ resolveHosts6
  /\ UNCHANGED tvars

AskProviders ==
  \/ (\E p \in Providers : ResolveOne(p)) /\ UNCHANGED tvars
  \/ /\ IF tool = "traceroute" THEN enrichHops ELSE enrichHops6
     /\ ret' = "ok"
     /\ UNCHANGED <<tool, conf, traced>>

Running == ret = "running"

Step == \/ phase = "trace" /\ TStep /\ UNCHANGED evars
        \/ WaitTargets \/ ResolveNames \/ AskProviders

Next == Running /\ Step

(***************************************************************************)
(* The process ends with Run.  Until then some goroutine goes on: Sr1 and  *)
(* the lookups end with an answer or a timeout of their own.               *)
(***************************************************************************)
Spec == Init /\ [][Next]_vars /\ WF_vars(Next)

-----------------------------------------------------------------------------
(***************************************************************************)
(* Run returns: no goroutine waits for ever for a slot of the semaphore,   *)
(* for its answer or for the lock, whatever is lost.                       *)
(***************************************************************************)
RunReturns == <> ~ Running
=============================================================================
