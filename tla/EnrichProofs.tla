---------------------------- MODULE EnrichProofs ----------------------------
(***************************************************************************)
(* What Run does with the addresses it found, for every result of the      *)
(* tracing and every set of providers: an address is asked for once, every *)
(* hop shows the name its lookup gave, and no provider's answer is lost.   *)
(***************************************************************************)
EXTENDS Traceroute, TLAPS

-----------------------------------------------------------------------------
(* the names                                                               *)

(***************************************************************************)
(* What the tables are keyed by.                                           *)
(***************************************************************************)
Keyed ==
  /\ DOMAIN look = Occ /\ DOMAIN hosts = Occ
  /\ DOMAIN cache = IPs /\ DOMAIN asked = IPs /\ DOMAIN infos = IPs
  /\ phase = "trace" => Occ = {}

(***************************************************************************)
(* The mark in the cache is what a lookup is counted by, and whoever has   *)
(* passed the cache leaves a mark there.                                   *)
(***************************************************************************)
CacheMarks ==
  /\ \A a \in IPs : asked[a] = IF cache[a] = "absent" THEN 0 ELSE 1
  /\ \A o \in Occ : look[o] \in {"asking", "done"} => cache[occ[o]] # "absent"

HostsFilled ==
  phase \in {"enrich", "done"} =>
    \A o \in Occ : look[o] # "off" => look[o] = "done" /\ hosts[o] = cache[occ[o]]

NamesInv == Keyed /\ CacheMarks /\ HostsFilled

(***************************************************************************)
(* The steps that touch the tables of enrichment.                          *)
(***************************************************************************)
LEMMA EnrichSteps ==
  ASSUME [Next]_vars
  PROVE  \/ UNCHANGED evars
         \/ WaitTargets
         \/ \E o \in Occ : Lookup(o) \/ LookupAddr(o)
         \/ resolveHosts
         \/ \E p \in Providers : ResolveOne(p)
         \/ enrichHops
<1>1. CASE UNCHANGED vars
  BY <1>1 DEF vars
<1>2. CASE phase = "trace" /\ TStep /\ UNCHANGED evars
  BY <1>2
<1>3. CASE WaitTargets
  BY <1>3
<1>4. CASE ResolveNames
  BY <1>4 DEF ResolveNames, resolveHosts6
<1>5. CASE AskProviders
  BY <1>5 DEF AskProviders, enrichHops6
<1> QED BY <1>1, <1>2, <1>3, <1>4, <1>5 DEF Next, Step

LEMMA OccStable ==
  ASSUME UNCHANGED occ PROVE Occ' = Occ /\ IPs' = IPs
BY DEF Occ, IPs

LEMMA NamesInit == Init => NamesInv
<1> SUFFICES ASSUME Init PROVE NamesInv
  OBVIOUS
<1>1. /\ phase = "trace" /\ occ = <<>> /\ look = <<>> /\ cache = <<>>
      /\ asked = <<>> /\ hosts = <<>> /\ infos = <<>>
  BY DEF Init
<1>2. Occ = {} /\ IPs = {}
  BY <1>1 DEF Occ, IPs
<1> QED BY <1>1, <1>2 DEF NamesInv, Keyed, CacheMarks, HostsFilled

(***************************************************************************)
(* The addresses found are entered, none of them looked up.                *)
(***************************************************************************)
LEMMA NamesWait ==
  ASSUME NamesInv, WaitTargets PROVE NamesInv'
<1>1. /\ occ' = [o \in Occurrences |-> hops[o[1]][o[2]].addrs[o[3]]]
      /\ cache' = [a \in {occ'[o] : o \in Occurrences} |-> "absent"]
      /\ asked' = [a \in {occ'[o] : o \in Occurrences} |-> 0]
      /\ infos' = [a \in {occ'[o] : o \in Occurrences} |-> Empty]
      /\ look' = [o \in Occurrences |-> IF conf.dns THEN "start" ELSE "off"]
      /\ hosts' = [o \in Occurrences |-> "absent"]
      /\ phase' = IF conf.dns THEN "hosts" ELSE "enrich"
  BY DEF WaitTargets
<1>2. Occ' = Occurrences /\ IPs' = {occ'[o] : o \in Occurrences}
  BY <1>1 DEF Occ, IPs
<1>3. Keyed'
  BY <1>1, <1>2 DEF Keyed
<1>4. CacheMarks'
  BY <1>1, <1>2 DEF CacheMarks
<1>5. HostsFilled'
  BY <1>1, <1>2 DEF HostsFilled
<1> QED BY <1>3, <1>4, <1>5 DEF NamesInv

LEMMA NamesLookup ==
  ASSUME NamesInv, NEW o \in Occ, Lookup(o) PROVE NamesInv'
<1>0. UNCHANGED <<occ, hosts, infos, phase>> /\ phase = "hosts" /\ look[o] = "start"
  BY DEF Lookup
<1>1. Occ' = Occ /\ IPs' = IPs /\ occ[o] \in IPs
  BY <1>0, OccStable DEF IPs
<1>2. CASE cache[occ[o]] # "absent"
  <2>1. look' = [look EXCEPT ![o] = "done"] /\ UNCHANGED <<cache, asked>>
    BY <1>2 DEF Lookup
  <2> QED BY <1>0, <1>1, <1>2, <2>1 DEF NamesInv, Keyed, CacheMarks, HostsFilled
<1>3. CASE cache[occ[o]] = "absent"
  <2>1. /\ look' = [look EXCEPT ![o] = "asking"]
        /\ cache' = [cache EXCEPT ![occ[o]] = "empty"]
        /\ asked' = [asked EXCEPT ![occ[o]] = @ + 1]
    BY <1>3 DEF Lookup, Marked
  <2>2. Keyed'
    BY <1>0, <1>1, <2>1 DEF NamesInv, Keyed
  <2>3. asked[occ[o]] = 0
    BY <1>1, <1>3 DEF NamesInv, CacheMarks
  <2>4. \A a \in IPs : asked'[a] = IF cache'[a] = "absent" THEN 0 ELSE 1
    BY <1>1, <2>1, <2>3 DEF NamesInv, Keyed, CacheMarks
  <2>5. \A x \in Occ : look'[x] \in {"asking", "done"} => cache'[occ[x]] # "absent"
    <3>1. \A x \in Occ : occ[x] \in IPs
      BY DEF IPs
    <3> QED BY <1>1, <2>1, <3>1 DEF NamesInv, Keyed, CacheMarks
  <2>6. CacheMarks'
    BY <1>0, <1>1, <2>4, <2>5 DEF CacheMarks
  <2> QED BY <1>0, <2>2, <2>6 DEF NamesInv, HostsFilled
<1> QED BY <1>2, <1>3

(***************************************************************************)
(* An answer, or none, replaces the mark and is itself a mark.             *)
(***************************************************************************)
LEMMA NamesAnswer ==
  ASSUME NamesInv, NEW o \in Occ, LookupAddr(o) PROVE NamesInv'
<1>0. UNCHANGED <<occ, hosts, infos, asked, phase>> /\ phase = "hosts"
      /\ look[o] = "asking"
  BY DEF LookupAddr
<1>1. Occ' = Occ /\ IPs' = IPs /\ \A x \in Occ : occ[x] \in IPs
  BY <1>0, OccStable DEF IPs
<1>2. PICK name \in {"empty", "found"} :
        cache' = [cache EXCEPT ![occ[o]] = name]
        /\ look' = [look EXCEPT ![o] = "done"]
  BY DEF LookupAddr
<1>3. Keyed'
  BY <1>0, <1>1, <1>2 DEF NamesInv, Keyed
<1>4. CacheMarks'
  <2>1. cache[occ[o]] # "absent"
    BY <1>0 DEF NamesInv, CacheMarks
  <2> QED BY <1>0, <1>1, <1>2, <2>1 DEF NamesInv, Keyed, CacheMarks
<1> QED BY <1>0, <1>3, <1>4 DEF NamesInv, HostsFilled

LEMMA NamesStep == NamesInv /\ [Next]_vars => NamesInv'
<1> SUFFICES ASSUME NamesInv, [Next]_vars PROVE NamesInv'
  OBVIOUS
<1>1. CASE UNCHANGED evars
  BY <1>1, OccStable DEF evars, NamesInv, Keyed, CacheMarks, HostsFilled
<1>2. CASE WaitTargets
  BY <1>2, NamesWait
<1>3. ASSUME NEW o \in Occ, Lookup(o) \/ LookupAddr(o) PROVE NamesInv'
  BY <1>3, NamesLookup, NamesAnswer
<1>4. CASE resolveHosts
  <2>1. /\ hosts' = [o \in Occ |-> cache[occ[o]]] /\ AllLookedUp
        /\ phase' = "enrich" /\ UNCHANGED <<occ, look, cache, asked, infos>>
    BY <1>4 DEF resolveHosts
  <2> QED BY <2>1, OccStable
          DEF NamesInv, Keyed, CacheMarks, HostsFilled, AllLookedUp
<1>5. ASSUME NEW p \in Providers, ResolveOne(p) PROVE NamesInv'
  <2>1. UNCHANGED <<phase, occ, look, cache, asked, hosts>> /\ phase = "enrich"
        /\ DOMAIN infos' = DOMAIN infos
    BY <1>5 DEF ResolveOne
  <2> QED BY <2>1, OccStable DEF NamesInv, Keyed, CacheMarks, HostsFilled
<1>6. CASE enrichHops
  <2>1. UNCHANGED <<occ, look, cache, asked, hosts, infos>> /\ phase = "enrich"
        /\ phase' = "done"
    BY <1>6 DEF enrichHops
  <2> QED BY <2>1, OccStable DEF NamesInv, Keyed, CacheMarks, HostsFilled
<1> QED BY <1>1, <1>2, <1>3, <1>4, <1>5, <1>6, EnrichSteps

(***************************************************************************)
(* resolveHosts asks for an address once, however many goroutines look for *)
(* it at the same time.                                                    *)
(***************************************************************************)
THEOREM LookupsAreShared == Spec => []OneLookup
<1>1. NamesInv => OneLookup
  BY DEF NamesInv, Keyed, CacheMarks, OneLookup
<1> QED BY <1>1, NamesInit, NamesStep, PTL DEF Spec

(***************************************************************************)
(* When resolveHosts has returned every hop shows the name of its address, *)
(* also where the lookup was another hop's.                                *)
(***************************************************************************)
THEOREM NamesAreShown == Spec => []NamesSettled
<1>1. NamesInv => NamesSettled
  <2> SUFFICES ASSUME NamesInv, phase \in {"enrich", "done"}, NEW o \in Occ,
                      look[o] # "off"
               PROVE  /\ asked[occ[o]] = 1 /\ look[o] = "done"
                      /\ hosts[o] = cache[occ[o]] /\ hosts[o] # "absent"
    BY DEF NamesSettled
  <2>1. look[o] = "done" /\ hosts[o] = cache[occ[o]] /\ occ[o] \in IPs
    BY DEF NamesInv, HostsFilled, IPs
  <2> QED BY <2>1 DEF NamesInv, CacheMarks
<1> QED BY <1>1, NamesInit, NamesStep, PTL DEF Spec

-----------------------------------------------------------------------------
(* the providers                                                           *)

(***************************************************************************)
(* What the providers have given for a field of an address.                *)
(***************************************************************************)
GivenFor(a, f) ==
  {given[p][a][f] : p \in {q \in prov : a \in DOMAIN given[q]}} \ {"none"}

Merged ==
  \A a \in IPs, f \in Fields :
    IF GivenFor(a, f) = {} THEN infos[a][f] = "none"
    ELSE infos[a][f] \in GivenFor(a, f)

MergeInv ==
  /\ Keyed /\ DOMAIN given = Providers /\ prov \subseteq Providers
  /\ phase \in {"trace", "hosts"} => prov = {}
  /\ Merged

LEMMA MergeInit == Init => MergeInv
<1> SUFFICES ASSUME Init PROVE MergeInv
  OBVIOUS
<1>1. Keyed
  BY NamesInit DEF NamesInv
<1>2. IPs = {} /\ prov = {} /\ DOMAIN given = Providers
  BY DEF Init, IPs, Occ
<1> QED BY <1>1, <1>2 DEF MergeInv, Merged

(***************************************************************************)
(* One more provider is merged: a field that is filled stays, one that is  *)
(* empty takes what this provider gave.                                    *)
(***************************************************************************)
LEMMA MergeOne ==
  ASSUME MergeInv, NEW p \in Providers, ResolveOne(p)
  PROVE  Merged'
<1>1. UNCHANGED occ /\ p \notin prov /\ prov' = prov \cup {p}
  BY DEF ResolveOne
<1>2. PICK known \in SUBSET IPs, info \in Infos(p) :
        /\ given' = [given EXCEPT ![p] = [a \in known |-> info]]
        /\ infos' = [a \in DOMAIN infos |->
                       IF a \in known
                       THEN mergeInto(infos[a], [x \in known |-> info][a])
                       ELSE infos[a]]
  BY DEF ResolveOne
<1>3. IPs' = IPs /\ DOMAIN infos = IPs
  BY <1>1, OccStable DEF MergeInv, Keyed
<1>4. given'[p] = [a \in known |-> info] /\ \A q \in prov : given'[q] = given[q]
  BY <1>1, <1>2 DEF MergeInv
<1> SUFFICES ASSUME NEW a \in IPs, NEW f \in Fields
             PROVE  IF GivenFor(a, f)' = {} THEN infos'[a][f] = "none"
                    ELSE infos'[a][f] \in GivenFor(a, f)'
  BY <1>3 DEF Merged
<1> DEFINE Old == GivenFor(a, f)
<1>5. IF Old = {} THEN infos[a][f] = "none" ELSE infos[a][f] \in Old
  BY DEF MergeInv, Merged
<1>6. CASE a \notin known
  <2>1. GivenFor(a, f)' = Old
    BY <1>1, <1>4, <1>6 DEF GivenFor
  <2>2. infos'[a] = infos[a]
    BY <1>2, <1>3, <1>6
  <2> QED BY <1>5, <2>1, <2>2
<1>7. CASE a \in known
  <2>1. GivenFor(a, f)' = Old \cup ({info[f]} \ {"none"})
    BY <1>1, <1>4, <1>7 DEF GivenFor
  <2>2. infos'[a] = mergeInto(infos[a], info)
    BY <1>2, <1>3, <1>7
  <2>3. infos'[a][f] = IF infos[a][f] = "none" THEN info[f] ELSE infos[a][f]
    BY <2>2 DEF mergeInto
  <2>4. "none" \notin Old
    BY DEF GivenFor
  <2> HIDE DEF Old
  <2> QED BY <1>5, <2>1, <2>3, <2>4
<1> QED BY <1>6, <1>7

LEMMA MergeStep == MergeInv /\ NamesInv /\ [Next]_vars => MergeInv'
<1> SUFFICES ASSUME MergeInv, NamesInv, [Next]_vars PROVE MergeInv'
  OBVIOUS
<1>0. Keyed'
  BY NamesStep DEF NamesInv
<1>1. ASSUME UNCHANGED <<occ, prov, given, infos>>,
             phase' \in {"trace", "hosts"} => phase \in {"trace", "hosts"}
      PROVE  MergeInv'
  <2>1. Merged'
    BY <1>1, OccStable DEF MergeInv, Merged, GivenFor
  <2> QED BY <1>0, <1>1, <2>1 DEF MergeInv
<1>2. CASE UNCHANGED evars
  BY <1>1, <1>2 DEF evars
<1>3. CASE WaitTargets
  <2>1. UNCHANGED <<prov, given>> /\ phase = "trace"
    BY <1>3 DEF WaitTargets
  <2>2. prov' = {} /\ \A a, f : GivenFor(a, f)' = {}
    BY <2>1 DEF MergeInv, GivenFor
  <2>3. infos' = [a \in IPs' |-> Empty]
    <3>1. /\ infos' = [a \in {occ'[o] : o \in Occurrences} |-> Empty]
          /\ DOMAIN occ' = Occurrences
      BY <1>3 DEF WaitTargets
    <3> QED BY <3>1 DEF IPs, Occ
  <2>4. Merged'
    BY <2>2, <2>3 DEF Merged, Empty
  <2> QED BY <1>0, <2>1, <2>2, <2>4 DEF MergeInv
<1>4. ASSUME NEW o \in Occ, Lookup(o) \/ LookupAddr(o) PROVE MergeInv'
  BY <1>1, <1>4 DEF Lookup, LookupAddr
<1>5. CASE resolveHosts
  BY <1>1, <1>5 DEF resolveHosts
<1>6. ASSUME NEW p \in Providers, ResolveOne(p) PROVE MergeInv'
  <2>1. /\ prov' \subseteq Providers /\ DOMAIN given' = Providers
        /\ phase = "enrich" /\ UNCHANGED phase
    BY <1>6 DEF ResolveOne, MergeInv
  <2> QED BY <1>0, <1>6, <2>1, MergeOne DEF MergeInv
<1>7. CASE enrichHops
  BY <1>1, <1>7 DEF enrichHops
<1> QED BY <1>2, <1>3, <1>4, <1>5, <1>6, <1>7, EnrichSteps

(***************************************************************************)
(* enrich.Resolve loses no answer and invents none, in whatever order the  *)
(* providers finish and whichever of them fail.                            *)
(***************************************************************************)
THEOREM NoProviderIsLost == Spec => []MergeKeepsAll
<1>1. MergeInv => MergeKeepsAll
  BY DEF MergeInv, Merged, GivenFor, MergeKeepsAll
<1> QED BY <1>1, NamesInit, NamesStep, MergeInit, MergeStep, PTL DEF Spec
=============================================================================
