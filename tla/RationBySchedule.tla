-------------------------- MODULE RationBySchedule --------------------------
(***************************************************************************)
(* The Ground Delay Program engine (feed/gdp.rs) and what the handlers     *)
(* freeze from it (handlers/gdp.rs): the inbounds of one airport, in order *)
(* of their ETA, are given arrival slots spaced by the acceptance rate;    *)
(* controlled flights are held to their slot, exempt ones keep their ETA   *)
(* but use a slot up.  Publishing freezes the control times, the feed      *)
(* moves on, and compressing, locking and unlocking change what is frozen. *)
(*                                                                         *)
(* Times are integers in one unit; the code's are milliseconds.  Each      *)
(* iteration of ration_by_schedule's loop is a step, so that its invariant *)
(* is stated, and proved, as one of a specification.  A behaviour keeps    *)
(* its parameters and its window (the code resolves HHMM against the       *)
(* clock), and its operations do not overlap.                              *)
(***************************************************************************)
EXTENDS Integers, Sequences, FiniteSets

CONSTANTS
    Callsigns,
    Centers,     \* departure centers
    Demands,     \* the arrival pictures: sequences of inbounds, by ETA
    Programs,    \* the programs: window, rates, scope, tier, exemption
    Hour,        \* 3_600_000 ms: the slots of one hour share it
    Minute,      \* 60_000 ms
    BinLength,   \* BIN_MIN minutes
    RunBound,    \* bound: pictures of the feed a behaviour works on
    LaterDemands,\* bound: the pictures of behaviours that work on more than one
    NoTime       \* None: no wheels-up estimate, no EDCT, no frozen slot

ASSUME TimeAssumption ==
    /\ Hour \in Nat /\ Minute \in Nat \ {0} /\ BinLength \in Nat \ {0}
    /\ RunBound \in Nat
    /\ NoTime \notin Int

(* One inbound of the feed; etd is None once airborne.                     *)
Inbounds == [cs : Callsigns, eta : Int, etd : Int \cup {NoTime},
             airborne : BOOLEAN, center : Centers]

(* RateSchedule: segments sorted by start, each with the rate from then    *)
(* on; rates below 1 are raised to 1.                                      *)
Segments == [start : Int, aar : Nat \ {0}]

ByStart(rates) == \A g, h \in DOMAIN rates : g < h => rates[g].start <= rates[h].start

(* A tier of NoTime does not limit; an empty scope is every departure.     *)
ProgramRecords == [start : Int, end : Int, rates : Seq(Segments) \ {<< >>},
                   exemptAirborne : BOOLEAN, scope : SUBSET Centers,
                   maxEnroute : Int \cup {NoTime}]

ByEta(s) == \A j, k \in DOMAIN s : j < k => s[j].eta <= s[k].eta

ASSUME DemandAssumption ==
    /\ \A s \in Demands : s \in Seq(Inbounds) /\ ByEta(s)
    /\ LaterDemands \subseteq Demands
ASSUME ProgramAssumption ==
    /\ Programs \subseteq ProgramRecords
    /\ \A p \in Programs : ByStart(p.rates)

VARIABLES
    program,   \* the program's parameters
    inbounds,  \* the arrival picture the current run works on
    cursor,    \* next free arrival slot
    out,       \* assignments of the inbounds handled so far
    published, \* the program's status: published, or still a draft
    frozen,    \* rows of tmu.gdp_slot: per callsign its CTA
    origin,    \* history: the picture all frozen rows are from, 0 if several
    runs       \* pictures so far

vars == <<program, inbounds, cursor, out, published, frozen, origin, runs>>

-----------------------------------------------------------------------------
(* The rate in effect at t: the last segment that has started, the first   *)
(* one before any has.                                                     *)
Started(rates, t) == {k \in DOMAIN rates : rates[k].start <= t}

RateAt(rates, t) ==
    LET started == Started(rates, t)
    IN  IF started = {}
        THEN rates[1].aar
        ELSE rates[CHOOSE k \in started : \A j \in started : j <= k].aar

(* slot_ms_at                                                              *)
SlotLength(rates, t) == Hour \div RateAt(rates, t)

Larger(a, b) == IF a >= b THEN a ELSE b

Enroute(f) == Larger(f.eta - f.etd, 0)

(* Why an inbound is not controlled.                                       *)
Exempt(f) ==
    \/ program.exemptAirborne /\ f.airborne
    \/ f.eta < program.start \/ f.eta > program.end
    \/ program.scope # {} /\ f.center \notin program.scope
    \/ /\ program.maxEnroute # NoTime /\ f.etd # NoTime
       /\ Enroute(f) \div Minute > program.maxEnroute

SlotOf_Cursor(f) == cursor   \* mutant: a slot before the flight can arrive

(* No earlier than its own ETA or the running cursor.                      *)
SlotOf(f) == Larger(cursor, f.eta)

Assignment(f) ==
    IF Exempt(f)
    THEN [cs |-> f.cs, eta |-> f.eta, cta |-> f.eta, edct |-> NoTime,
          delay |-> 0, controlled |-> FALSE]
    ELSE [cs |-> f.cs, eta |-> f.eta, cta |-> SlotOf(f),
          edct |-> IF f.etd = NoTime THEN NoTime ELSE SlotOf(f) - Enroute(f),
          delay |-> Larger(SlotOf(f) - f.eta, 0) \div Minute, controlled |-> TRUE]

(* mutant: exempt flights use no slot up                                   *)
NextCursor_ControlledOnly(f) ==
    IF Exempt(f) THEN cursor ELSE SlotOf(f) + SlotLength(program.rates, SlotOf(f))

NextCursor(f) == SlotOf(f) + SlotLength(program.rates, SlotOf(f))

Init ==
    /\ program \in Programs
    /\ inbounds \in Demands
    /\ cursor = program.start
    /\ out = << >>
    /\ published = FALSE
    /\ frozen = [cs \in Callsigns |-> NoTime]
    /\ origin = 0
    /\ runs = 1

(* One iteration of ration_by_schedule.                                    *)
AssignNext ==
    LET f == inbounds[Len(out) + 1]
    IN  /\ Len(out) < Len(inbounds)
        /\ out' = Append(out, Assignment(f))
        /\ cursor' = NextCursor(f)
        /\ UNCHANGED <<program, inbounds, published, frozen, origin, runs>>

Done == Len(out) = Len(inbounds)

Controlled == {k \in DOMAIN out : out[k].controlled}

(* The CTA of a callsign the finished run controls, else none.             *)
FreshCta(cs) ==
    IF \E k \in Controlled : out[k].cs = cs
    THEN out[CHOOSE k \in Controlled : out[k].cs = cs].cta
    ELSE NoTime

-----------------------------------------------------------------------------
(* A later request works on the feed's new picture, from the beginning.    *)
FeedMoves ==
    /\ Done
    /\ runs < RunBound /\ inbounds \in LaterDemands
    /\ runs' = runs + 1
    /\ inbounds' \in LaterDemands
    /\ cursor' = program.start
    /\ out' = << >>
    /\ UNCHANGED <<program, published, frozen, origin>>

Freeze_Merge ==   \* mutant: earlier rows are kept, not replaced
    /\ Done
    /\ published' = TRUE
    /\ origin' = runs
    /\ frozen' = [cs \in Callsigns |->
            IF FreshCta(cs) = NoTime THEN frozen[cs] ELSE FreshCta(cs)]
    /\ UNCHANGED <<program, inbounds, cursor, out, runs>>

(* publish_gdp, and revise_gdp with the parameters unchanged: the          *)
(* controlled flights' control times replace whatever was frozen.          *)
Freeze ==
    /\ Done
    /\ published' = TRUE
    /\ origin' = runs
    /\ frozen' = [cs \in Callsigns |-> FreshCta(cs)]
    /\ UNCHANGED <<program, inbounds, cursor, out, runs>>

(* Rows of the current picture join those that are frozen.                 *)
Joined == IF origin = runs THEN runs ELSE 0

(* compress_slot: earlier than issued if the fresh run is, never later.    *)
CompressSlot(fresh, issued) == IF fresh <= issued THEN fresh ELSE issued

(* compress_gdp keeps the flights that are frozen and still controlled.    *)
Compress ==
    /\ published /\ Done
    /\ frozen' = [cs \in Callsigns |->
            IF frozen[cs] # NoTime /\ FreshCta(cs) # NoTime
            THEN CompressSlot(FreshCta(cs), frozen[cs]) ELSE NoTime]
    /\ origin' = Joined
    /\ UNCHANGED <<program, inbounds, cursor, out, published, runs>>

(* lock_slot: the fresh control time of one controlled flight.             *)
Lock(cs) ==
    /\ published /\ Done
    /\ FreshCta(cs) # NoTime
    /\ frozen' = [frozen EXCEPT ![cs] = FreshCta(cs)]
    /\ origin' = Joined
    /\ UNCHANGED <<program, inbounds, cursor, out, published, runs>>

(* unlock_slot                                                             *)
Unlock(cs) ==
    /\ frozen[cs] # NoTime
    /\ frozen' = [frozen EXCEPT ![cs] = NoTime]
    /\ UNCHANGED <<program, inbounds, cursor, out, published, origin, runs>>

Next ==
    \/ AssignNext
    \/ FeedMoves
    \/ Freeze
    \/ Compress
    \/ \E cs \in Callsigns : Lock(cs) \/ Unlock(cs)

Spec == Init /\ [][Next]_vars

-----------------------------------------------------------------------------
(* demand_bins: i64 division truncates towards zero.                       *)
BinOf(t) ==
    LET offset == t - program.start
    IN  IF offset >= 0 THEN offset \div BinLength ELSE -((-offset) \div BinLength)

Bins ==
    LET span == Larger(program.end - program.start, 0)
    IN  0 .. ((span + BinLength - 1) \div BinLength) - 1

DemandBins == [b \in Bins |-> Cardinality({k \in DOMAIN out : BinOf(out[k].cta) = b})]

-----------------------------------------------------------------------------
(* Properties. *)

Assignments == [cs : Callsigns, eta : Int, cta : Int, edct : Int \cup {NoTime},
                delay : Nat, controlled : BOOLEAN]

(* Types of the run and of the frozen rows.                                *)
TypeOK ==
    /\ program \in Programs /\ inbounds \in Demands
    /\ cursor \in Int
    /\ out \in Seq(Assignments) /\ Len(out) <= Len(inbounds)
    /\ published \in BOOLEAN
    /\ frozen \in [Callsigns -> Int \cup {NoTime}]
    /\ origin \in Nat /\ runs \in Nat

(* Two controlled flights never arrive closer than the rate at the earlier *)
(* one's slot allows, whatever exempt flights and rate changes lie between.*)
Spaced ==
    \A j, k \in Controlled :
        j < k => out[k].cta >= out[j].cta + SlotLength(program.rates, out[j].cta)

(* Exempt flights use slots up: when every slot is at least s long, the    *)
(* k-th inbound, if controlled, arrives (k - j) slots after the j-th,      *)
(* whether that one was controlled or exempt.                              *)
SlotsAtLeast(s) == \A g \in DOMAIN program.rates : Hour \div program.rates[g].aar >= s

Metered ==
    \A s \in 0..Hour : SlotsAtLeast(s) =>
        \A k \in Controlled : \A j \in 1..(k - 1) :
            out[k].cta >= out[j].cta + (k - j) * s

(* No needless delay: under a flat rate a controlled flight's slot is the  *)
(* earliest one the demand ahead of it allows, which is the maximum over   *)
(* the flights up to it of their ETA (or the window's start) plus one slot *)
(* for each flight in between.                                             *)
Flat == Len(program.rates) = 1

Bound(j, k) ==
    Larger(inbounds[j].eta, program.start) + (k - j) * (Hour \div program.rates[1].aar)

EarliestSlots ==
    Flat => \A k \in Controlled :
        /\ \A j \in 1..k : out[k].cta >= Bound(j, k)
        /\ \E j \in 1..k : out[k].cta = Bound(j, k)

(* compress_gdp moves an issued control time earlier or keeps it, and      *)
(* issues none to a flight that had none (handlers/gdp.rs:790 "earlier     *)
(* only, never later than already issued").                                *)
CompressNeverLater ==
    [][Compress => \A cs \in Callsigns :
          frozen'[cs] # NoTime => frozen[cs] # NoTime /\ frozen'[cs] <= frozen[cs]]_vars

(* The frozen control times meter the demand to the rate, too              *)
(* (docs/features/tmu-ntml-adv-tmi.md:54 "meter inbound demand to an       *)
(* arrival airport down to its AAR via Ration-By-Schedule, freezing        *)
(* control times") ...                                                     *)
FrozenMeters ==
    \A a, b \in Callsigns :
        (a # b /\ frozen[a] # NoTime /\ frozen[b] # NoTime /\ frozen[a] <= frozen[b])
            => frozen[b] >= frozen[a] + SlotLength(program.rates, frozen[a])

(* ... as long as no row was compressed or locked from another picture     *)
(* than the one the rest were frozen from.                                 *)
FrozenSpaced == origin # 0 => FrozenMeters

(* Each bin counts the flights that arrive within it (feed/gdp.rs          *)
(* demand_bins, "Bin every assignment (controlled + exempt, by its CTA)    *)
(* against per-bin capacity"), when none arrives before the window.        *)
InBin(t, b) ==
    /\ program.start + b * BinLength <= t
    /\ t < program.start + (b + 1) * BinLength

BinIsExact(b) == DemandBins[b] = Cardinality({k \in DOMAIN out : InBin(out[k].cta, b)})

BinsExactInWindow ==
    (\A k \in DOMAIN out : out[k].cta >= program.start) => \A b \in Bins : BinIsExact(b)
=============================================================================
