----------------------------- MODULE FcaMetering -----------------------------
(***************************************************************************)
(* How traffic is metered across a flow constrained area by a rate         *)
(* (feed/fca.rs meter) and which crossing time a departure is given when   *)
(* it is marked ready (handlers/flow.rs rdy_slot).                         *)
(*                                                                         *)
(* A picture of the traffic says where a flight is expected to cross and   *)
(* whether it is in the air.  Flights are numbered by their place in the   *)
(* list of candidates, which settles ties of a stable sort.                *)
(***************************************************************************)
EXTENDS Integers, Sequences, FiniteSets

CONSTANTS
    Flights,    \* candidates that cross the area
    Sep,        \* time between two crossings, from the rate
    Margin,     \* RELEASE_MARGIN_MS
    NoRelease   \* the flight holds no release

ASSUME MeteringAssumption ==
    /\ Flights \subseteq Nat /\ IsFiniteSet(Flights)
    /\ Sep \in Nat /\ Margin \in Nat /\ NoRelease \notin Int

Clear(t, taken, gap) == \A c \in taken : t - c >= gap \/ c - t >= gap

(* earliest_slot steps from the ETA to one gap behind each crossing it     *)
(* still collides with, so it ends at the first of these times that is     *)
(* clear.                                                                  *)
OpenSlots(eta, taken, gap) ==
    {t \in {eta} \cup {c + gap : c \in taken} : t >= eta /\ Clear(t, taken, gap)}

EarliestSlot(eta, taken, gap) ==
    CHOOSE t \in OpenSlots(eta, taken, gap) : \A u \in OpenSlots(eta, taken, gap) : t <= u

Pinned(pic, frozen, f) == f \in pic.airborne \/ frozen[f] # NoRelease

(* Pinned flights sort ahead of the others, then earlier ETAs.             *)
Ahead(pic, frozen, g, f) ==
    LET first == Pinned(pic, frozen, g)
        then  == Pinned(pic, frozen, f)
    IN  \/ first /\ ~then
        \/ /\ first = then
           /\ pic.eta[g] < pic.eta[f] \/ (pic.eta[g] = pic.eta[f] /\ g < f)

(* meter, auto: a release keeps its time, any other flight takes the first *)
(* slot clear of everybody sorted ahead of it.                             *)
MeterAuto(pic, frozen) ==
    LET sched[f \in Flights] ==
            IF frozen[f] # NoRelease THEN frozen[f]
            ELSE EarliestSlot(pic.eta[f], {sched[g] : g \in {h \in Flights : Ahead(pic, frozen, h, f)}}, Sep)
    IN  sched

(* meter, manual: the controller's order, the others behind it by ETA, each*)
(* a separation behind the one before; a release keeps its time.           *)
Chained(pic, order, g, f) ==
    LET listed == {order[n] : n \in DOMAIN order}
        place(x) == CHOOSE n \in DOMAIN order : order[n] = x
    IN  \/ g \in listed /\ f \notin listed
        \/ g \in listed /\ f \in listed /\ place(g) < place(f)
        \/ /\ {g, f} \cap listed = {}
           /\ pic.eta[g] < pic.eta[f] \/ (pic.eta[g] = pic.eta[f] /\ g < f)

MeterManual(pic, frozen, order) ==
    LET before(f) == {g \in Flights : Chained(pic, order, g, f)}
        sched[f \in Flights] ==
            IF frozen[f] # NoRelease THEN frozen[f]
            ELSE IF before(f) = {} THEN pic.eta[f]
            ELSE LET prev == CHOOSE g \in before(f) : before(g) = before(f) \ {g}
                 IN  IF pic.eta[f] >= sched[prev] + Sep THEN pic.eta[f] ELSE sched[prev] + Sep
    IN  sched

Meter(pic, frozen, order) ==
    IF order = << >> THEN MeterAuto(pic, frozen) ELSE MeterManual(pic, frozen, order)

Committed_Raw(pic, frozen, sched, f) ==   \* mutant: airborne flights at their raw ETA (#356)
    {IF frozen[g] # NoRelease THEN sched[g] ELSE pic.eta[g] : g \in {h \in Flights \ {f} : Pinned(pic, frozen, h)}}

Committed_Airborne(pic, frozen, sched, f) ==   \* mutant: issued releases are overlooked
    {sched[g] : g \in pic.airborne \ {f}}

(* committed_crossings: every other pinned crossing, at its metered time.  *)
Committed(pic, frozen, sched, f) ==
    {sched[g] : g \in {h \in Flights \ {f} : Pinned(pic, frozen, h)}}

(* rdy_slot: the crossing time to pin for a flight marked ready.           *)
RdySlot(pic, frozen, order, f) ==
    LET sched == Meter(pic, frozen, order) IN
    IF order # << >>
    THEN sched[f] + Margin
    ELSE EarliestSlot(pic.eta[f], Committed(pic, frozen, sched, f), Sep + Margin)
=============================================================================
