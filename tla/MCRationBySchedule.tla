------------------------- MODULE MCRationBySchedule -------------------------
(* Instances of RationBySchedule small enough for TLC: minutes as the unit, *)
(* three flights around a window of one hour.                              *)
EXTENDS RationBySchedule, TLC

CONSTANTS c1, c2, c3

MCCenters == {"ZNY", "ZBW"}

\* ETAs before, at and inside the window; each flight is airborne, on the
\* ground near or on the ground far away.
Etas == {-5, 0, 2, 7, 30}

Inbound(cs, eta, kind) ==
    [cs |-> cs, eta |-> eta,
     etd |-> CASE kind = "airborne" -> NoTime [] kind = "far" -> eta - 90 [] OTHER -> eta - 20,
     airborne |-> kind = "airborne",
     center |-> IF kind = "far" THEN "ZBW" ELSE "ZNY"]

Pictures(css, etas, kinds) ==
    {s \in [1..Cardinality(css) -> {Inbound(cs, eta, kind) : cs \in css, eta \in etas, kind \in kinds}] :
        /\ ByEta(s)
        /\ \A j, k \in DOMAIN s : j # k => s[j].cs # s[k].cs}

\* Every picture of three flights, and what a feed that moves shows: one to
\* three flights on the ground.
MCLaterDemands == UNION {Pictures(css, {-5, 0, 2, 7}, {"near"}) : css \in {{c1}, {c1, c2}, {c1, c2, c3}}}
MCDemands      == Pictures({c1, c2, c3}, Etas, {"airborne", "near", "far"}) \cup MCLaterDemands

Program(rates, scope, tier) ==
    [start |-> 0, end |-> 60, rates |-> rates, exemptAirborne |-> TRUE,
     scope |-> scope, maxEnroute |-> tier]

FlatRate  == <<[start |-> 0, aar |-> 12]>>
StepsUp   == <<[start |-> 0, aar |-> 7], [start |-> 8, aar |-> 30]>>
StepsDown == <<[start |-> 0, aar |-> 30], [start |-> 4, aar |-> 12]>>

MCPrograms ==
    {Program(r, sc, t) : r \in {FlatRate, StepsUp, StepsDown},
                         sc \in {{}, {"ZNY"}}, t \in {NoTime, 60}}

Symmetry == Permutations(Callsigns)
=============================================================================
