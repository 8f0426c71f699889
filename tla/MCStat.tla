------------------------------- MODULE MCStat -------------------------------
(* Stat for TLC.                                                           *)
EXTENDS Stat, TLC

Symmetry == Permutations(Seqs) \cup Permutations(Readers)
=============================================================================
