--------------------------- MODULE MCAceRequests ---------------------------
(* Instances of AceRequests small enough for TLC. *)
EXTENDS AceRequests, TLC

CONSTANTS u1, u2, u3, p1, p2

Symmetry == Permutations(Users) \cup Permutations(Procs)

\* Everything at once, nothing, and only what the website's users do.
AllNoneWeb  == {HazardKinds, {}, {"concurrent", "early_claim"}}
EarlyClaim  == {{"early_claim"}}
=============================================================================
