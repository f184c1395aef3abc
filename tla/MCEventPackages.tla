-------------------------- MODULE MCEventPackages --------------------------
(* A package of one item of each kind, and a second one that plans a rate  *)
(* program for the same airport.                                           *)
EXTENDS EventPackages

CONSTANTS k1, k2, prog1, tmi1, adv1, gs1, prog2, KJFK, p1, p2

Place == <<prog1, tmi1, adv1, gs1>>

MCPackageOf == [i \in Items |-> IF i = prog2 THEN k2 ELSE k1]
MCKindOf ==
    [i \in Items |-> CASE i = tmi1 -> "restriction" [] i = adv1 -> "advisory"
                      [] i = gs1 -> "ground_stop" [] OTHER -> "program"]
MCAirportOf == [i \in Items |-> KJFK]
MCCreatedAt == [i \in Items |-> IF i = prog2 THEN 1 ELSE CHOOSE n \in 1..4 : Place[n] = i]
MCEnvironments ==
    {{"fail", "recovers"}, {"concurrent", "by_hand"}, {"concurrent", "fail", "late_edit"}}
TakingTurns == {{}}
=============================================================================
