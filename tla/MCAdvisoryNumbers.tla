-------------------------- MODULE MCAdvisoryNumbers --------------------------
(* An instance of AdvisoryNumbers for TLC.                                 *)
EXTENDS AdvisoryNumbers, TLC

Symmetry == Permutations(Facilities) \cup Permutations(Ids) \cup Permutations(Procs)
=============================================================================
