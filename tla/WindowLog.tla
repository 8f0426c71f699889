----------------------------- MODULE WindowLog -----------------------------
(***************************************************************************)
(* What one udpStat promises to the tools that use it, with every call     *)
(* atomic and no buckets, locks or references: probes are recorded in open *)
(* windows, answers mark them, and a report closes the oldest window that  *)
(* holds anything, for ever.  What arrives for a closed window is dropped. *)
(***************************************************************************)
EXTENDS Integers, Sequences

CONSTANTS
  Seqs,       \* the sequence numbers of the probes
  Windows     \* the window IDs, natural numbers

VARIABLES
  sent,       \* the <<window, probe>> pairs recorded in open windows
  answered,   \* those of them that were answered
  closed,     \* the last window reported (0: none yet)
  log         \* the reports, in the order they were sent

wvars == <<sent, answered, closed, log>>

Init ==
  /\ sent = {}
  /\ answered = {}
  /\ closed = 0
  /\ log = << >>

(***************************************************************************)
(* Put: the probe is outstanding in its window; an answer that came first  *)
(* is kept.                                                                *)
(***************************************************************************)
Record(k, s) ==
  /\ k > closed
  /\ sent' = sent \cup {<<k, s>>}
  /\ UNCHANGED <<answered, closed, log>>

(***************************************************************************)
(* Received: the probe counts as sent and as answered.                     *)
(***************************************************************************)
Answer(k, s) ==
  /\ k > closed
  /\ sent' = sent \cup {<<k, s>>}
  /\ answered' = answered \cup {<<k, s>>}
  /\ UNCHANGED <<closed, log>>

(***************************************************************************)
(* Delete: the send failed, the probe does not count.                      *)
(***************************************************************************)
Withdraw(k, s) ==
  /\ k > closed
  /\ sent' = sent \ {<<k, s>>}
  /\ answered' = answered \ {<<k, s>>}
  /\ UNCHANGED <<closed, log>>

(***************************************************************************)
(* A report: nothing recorded in an open window is left behind unreported. *)
(***************************************************************************)
Report(k) ==
  /\ k > closed
  /\ \A p \in sent : p[1] >= k
  /\ log' = Append(log, [id       |-> k,
                         sent     |-> {s \in Seqs : <<k, s>> \in sent},
                         received |-> {s \in Seqs : <<k, s>> \in answered}])
  /\ closed' = k
  /\ sent' = {p \in sent : p[1] > k}
  /\ answered' = {p \in answered : p[1] > k}

Next ==
  \E k \in Windows :
    \/ Report(k)
    \/ \E s \in Seqs : Record(k, s) \/ Answer(k, s) \/ Withdraw(k, s)

Spec == Init /\ [][Next]_wvars
=============================================================================
