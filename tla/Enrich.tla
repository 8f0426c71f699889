------------------------------- MODULE Enrich -------------------------------
(***************************************************************************)
(* What a traceroute does with the addresses it found: reverse DNS names,  *)
(* one lookup per distinct address, and the metadata of several providers  *)
(* merged into one record per address.  An address occurs once per hop and *)
(* target that saw it.                                                     *)
(***************************************************************************)
EXTENDS Naturals, FiniteSets

CONSTANT
  Providers      \* conf.Providers: a subset of "cymru" and "ipinfo"

VARIABLES
  phase,         \* "trace", "hosts", "enrich" or "done"
  occ,           \* per occurrence: its address
  look,          \* resolveHosts: per occurrence, the step of its goroutine;
                 \* "off" without conf.ResolveDNS
  cache,         \* resolveHosts: what the cache holds per address
  asked,         \* history: lookups made per address
  hosts,         \* per occurrence: the name filled in
  prov,          \* enrich.Resolve: providers whose answer is merged
  given,         \* history: what each provider gave
  infos          \* the merged record per address

evars == <<phase, occ, look, cache, asked, hosts, prov, given, infos>>

Occ == DOMAIN occ
IPs == {occ[o] : o \in Occ}

Fields == {"asn", "name", "country", "org"}
Empty == [f \in Fields |-> "none"]

-----------------------------------------------------------------------------
(* resolveHosts                                                            *)

\* Variant: an address that is being looked up is not marked.
Unmarked(a) == cache

Marked(a) == [cache EXCEPT ![a] = "empty"]

(***************************************************************************)
(* A goroutine per occurrence looks into the cache and, for an address     *)
(* nobody has begun, marks it and asks.                                    *)
(***************************************************************************)
Lookup(o) ==
  /\ phase = "hosts" /\ look[o] = "start"
  /\ IF cache[occ[o]] # "absent"
     THEN look' = [look EXCEPT ![o] = "done"] /\ UNCHANGED <<cache, asked>>
     ELSE /\ look' = [look EXCEPT ![o] = "asking"]
          /\ cache' = Marked(occ[o])
          /\ asked' = [asked EXCEPT ![occ[o]] = @ + 1]
  /\ UNCHANGED <<phase, occ, hosts, prov, given, infos>>

LookupAddr(o) ==
  /\ phase = "hosts" /\ look[o] = "asking"
  /\ look' = [look EXCEPT ![o] = "done"]
  /\ \E name \in {"empty", "found"} : cache' = [cache EXCEPT ![occ[o]] = name]
  /\ UNCHANGED <<phase, occ, asked, hosts, prov, given, infos>>

\* Variant: the names are filled in without waiting for the lookups.
AnyTime == TRUE

AllLookedUp == \A o \in Occ : look[o] = "done"

(***************************************************************************)
(* After the wait the cache is copied to every occurrence.                 *)
(***************************************************************************)
resolveHosts ==
  /\ phase = "hosts" /\ AllLookedUp
  /\ hosts' = [o \in Occ |-> cache[occ[o]]]
  /\ phase' = "enrich"
  /\ UNCHANGED <<occ, look, cache, asked, prov, given, infos>>

resolveHosts6 == resolveHosts

-----------------------------------------------------------------------------
(* enrich.Resolve                                                          *)

(***************************************************************************)
(* Team Cymru knows the origin AS of an address or nothing; the name of    *)
(* the AS is a lookup of its own.                                          *)
(***************************************************************************)
CymruInfos ==
  {[Empty EXCEPT !["asn"] = "cymru", !["name"] = n] : n \in {"none", "cymru"}}

(***************************************************************************)
(* ipinfo.io's org is empty, "AS<number> <name>", or a name alone; the     *)
(* location comes with it.                                                 *)
(***************************************************************************)
parseOrg ==
  {<<"none", "none">>, <<"none", "ipinfo">>, <<"ipinfo", "ipinfo">>}

IPInfoInfos ==
  {[Empty EXCEPT !["asn"] = o[1], !["name"] = o[1], !["org"] = o[2],
                 !["country"] = "ipinfo"] : o \in parseOrg}

Infos(p) == IF p = "cymru" THEN CymruInfos ELSE IPInfoInfos

\* Variant: a later record replaces the one before.
Replaced(dst, src) == src

(***************************************************************************)
(* Only the fields still empty are filled.                                 *)
(***************************************************************************)
mergeInto(dst, src) ==
  [f \in Fields |-> IF dst[f] = "none" THEN src[f] ELSE dst[f]]

(***************************************************************************)
(* A provider answers for some of the addresses, or fails, and its answer  *)
(* is merged under the lock: in the order in which the providers finish.   *)
(***************************************************************************)
ResolveOne(p) ==
  /\ phase = "enrich" /\ IPs # {} /\ p \notin prov
  /\ prov' = prov \cup {p}
  /\ \E known \in SUBSET IPs, info \in Infos(p) :
       LET res == [a \in known |-> info]
       IN  /\ given' = [given EXCEPT ![p] = res]
           /\ infos' = [a \in DOMAIN infos |->
                          IF a \in known THEN mergeInto(infos[a], res[a])
                          ELSE infos[a]]
  /\ UNCHANGED <<phase, occ, look, cache, asked, hosts>>

enrichHops ==
  /\ phase = "enrich" /\ (IPs = {} \/ prov = Providers)
  /\ phase' = "done"
  /\ UNCHANGED <<occ, look, cache, asked, hosts, prov, given, infos>>

enrichHops6 == enrichHops

-----------------------------------------------------------------------------
(***************************************************************************)
(* "mark in-flight to avoid duplicate lookups" (hop.go): an address is     *)
(* asked for once, however many hops and targets share it.                 *)
(***************************************************************************)
OneLookup == \A a \in DOMAIN asked : asked[a] <= 1

(***************************************************************************)
(* Every hop that shows an address shows the name its lookup gave, also    *)
(* when the lookup was another hop's.                                      *)
(***************************************************************************)
NamesSettled ==
  phase \in {"enrich", "done"} =>
    \A o \in Occ : look[o] # "off" =>
      /\ asked[occ[o]] = 1 /\ look[o] = "done"
      /\ hosts[o] = cache[occ[o]] /\ hosts[o] # "absent"

(***************************************************************************)
(* "Provider errors are ignored so partial enrichment still succeeds"      *)
(* (enrich.go): in whatever order the providers finish, a field is filled  *)
(* exactly if one of them gave it for this address, with what it gave.     *)
(***************************************************************************)
MergeKeepsAll ==
  phase = "done" =>
    \A a \in IPs, f \in Fields :
      LET values == {given[p][a][f] : p \in {q \in prov : a \in DOMAIN given[q]}}
                      \ {"none"}
      IN  IF values = {} THEN infos[a][f] = "none" ELSE infos[a][f] \in values
=============================================================================
