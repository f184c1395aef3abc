--------------------------- MODULE MCSectorDemand ---------------------------
(* An instance of SectorDemand small enough for TLC. *)
EXTENDS SectorDemand

CONSTANTS r1, r2, s1, s2, l1, l2

\* Saves of one sector, a batch whose second entry moves the target of its
\* first, and one that releases a sector and saves another.
MCBatches ==
    {[x \in {2} |-> 1], [x \in {2} |-> 4],
     [x \in {1, 2} |-> x + 1],
     [x \in {1, 3} |-> IF x = 1 THEN OwnRow ELSE 2]}

MCArranged == {NoRows, [NoRows EXCEPT ![1] = 2, ![3] = 2]}

MCEnvironments ==
    {{"read", "feed", "drop"},
     {"read", "feed", "fail"},
     {"read", "feed", "wheels"},
     {"read", "cold", "volumes"},
     {"read", "limit"},
     {"read", "release"},
     {"limit", "overlap", "replica", "fail"},
     {"release", "overlap", "replica", "fail"},
     {"save", "release"},
     {"save", "fail"}}
=============================================================================
