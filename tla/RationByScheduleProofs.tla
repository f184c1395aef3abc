----------------------- MODULE RationByScheduleProofs -----------------------
(***************************************************************************)
(* Proofs about RationBySchedule for every arrival picture, every rate     *)
(* schedule, window, scope and tier.  The times are integers and the rates *)
(* are positive; nothing else is assumed.                                  *)
(***************************************************************************)
EXTENDS RationBySchedule, WellFoundedInduction, TLAPS

(* The cursor is where the next slot may begin: a full slot after every    *)
(* controlled arrival so far ...                                           *)
CursorSpaced ==
    \A j \in Controlled : cursor >= out[j].cta + SlotLength(program.rates, out[j].cta)

(* ... and as many shortest slots after the j-th inbound as came since.    *)
CursorMetered ==
    \A s \in 0..Hour : SlotsAtLeast(s) =>
        \A j \in DOMAIN out : cursor >= out[j].cta + (Len(out) + 1 - j) * s

(* Under a flat rate it is exactly the earliest slot the demand allows.    *)
CursorEarliest ==
    Flat =>
        /\ Len(out) = 0 => cursor = program.start
        /\ \A j \in DOMAIN out : cursor >= Bound(j, Len(out) + 1)
        /\ Len(out) > 0 => \E j \in DOMAIN out : cursor = Bound(j, Len(out) + 1)

(* The inductive invariant: the properties speak of the slots given, and   *)
(* the clauses about the cursor carry them to the next slot.               *)
RunInv ==
    /\ TypeOK
    /\ CursorSpaced /\ Spaced
    /\ CursorMetered /\ Metered
    /\ CursorEarliest /\ EarliestSlots

-----------------------------------------------------------------------------
(* A non-empty set of positions of a sequence has a last one: rate_at's    *)
(* loop ends with the last segment that has started.                       *)
LEMMA LastPosition ==
  ASSUME NEW n \in Nat, NEW S \in SUBSET (1..n), S # {}
  PROVE  \E k \in S : \A j \in S : j <= k
  <1> DEFINE T == {n - k : k \in S}
             R == OpToRel(<, Nat)
  <1>1. \A k \in S : k \in 1..n /\ n - k \in Nat
    OBVIOUS
  <1>2. T \subseteq Nat
    BY <1>1
  <1>3. T # {}
    OBVIOUS
  <1>4. IsWellFoundedOn(R, Nat)
    BY NatLessThanWellFounded
  <1>5. \A x, y \in Nat : y < x => <<y, x>> \in R
    BY Zenon DEF OpToRel
  <1>6. \E x \in T : \A y \in T : <<y, x>> \notin R
    <2> HIDE DEF T, R
    <2> QED
      BY <1>2, <1>3, <1>4, WFMin
  <1>7. PICK k \in S : \A j \in S : <<n - j, n - k>> \notin R
    <2> HIDE DEF R
    <2> QED
      BY <1>6
  <1>8. \A j \in S : ~(n - j < n - k)
    <2> HIDE DEF R
    <2> QED
      BY <1>1, <1>5, <1>7
  <1> QED
    BY <1>1, <1>8

(* The rate in effect is one of the schedule's.                            *)
LEMMA RateOfSchedule ==
  ASSUME NEW rates \in Seq(Segments) \ {<< >>}, NEW t \in Int
  PROVE  \E g \in DOMAIN rates : RateAt(rates, t) = rates[g].aar
  <1> DEFINE started == Started(rates, t)
  <1>1. Len(rates) \in Nat /\ DOMAIN rates = 1..Len(rates) /\ 1 \in DOMAIN rates
    OBVIOUS
  <1>2. CASE started = {}
    BY <1>1, <1>2 DEF RateAt
  <1>3. CASE started # {}
    <2>1. started \in SUBSET (1..Len(rates))
      BY <1>1 DEF Started
    <2>2. \E k \in started : \A j \in started : j <= k
      <3> HIDE DEF started
      <3> QED
        BY <1>1, <1>3, <2>1, LastPosition
    <2>3. (CHOOSE k \in started : \A j \in started : j <= k) \in DOMAIN rates
      BY <1>1, <2>1, <2>2
    <2> QED
      BY <1>3, <2>3 DEF RateAt
  <1> QED
    BY <1>2, <1>3

(* Hence a slot has a length, and one at least that of the shortest.       *)
LEMMA SlotLengths ==
  ASSUME NEW rates \in Seq(Segments) \ {<< >>}, NEW t \in Int
  PROVE  /\ SlotLength(rates, t) \in Nat
         /\ \A s \in Int :
              (\A g \in DOMAIN rates : Hour \div rates[g].aar >= s) => SlotLength(rates, t) >= s
         /\ Len(rates) = 1 => SlotLength(rates, t) = Hour \div rates[1].aar
  <1>1. PICK g \in DOMAIN rates : RateAt(rates, t) = rates[g].aar
    BY RateOfSchedule
  <1>2. rates[g] \in Segments
    OBVIOUS
  <1>3. SlotLength(rates, t) = Hour \div rates[g].aar
    BY <1>1 DEF SlotLength
  <1>4. SlotLength(rates, t) \in Nat
    <2>1. rates[g].aar \in Nat /\ rates[g].aar > 0
      BY <1>2 DEF Segments
    <2> QED
      BY <1>3, <2>1, TimeAssumption
  <1>5. Len(rates) = 1 => g = 1
    OBVIOUS
  <1> QED
    BY <1>3, <1>4, <1>5

(* What the constants' assumptions say of the current program and picture. *)
LEMMA ProgramTypes ==
  ASSUME TypeOK
  PROVE  /\ program \in ProgramRecords
         /\ program.start \in Int /\ program.end \in Int
         /\ program.rates \in Seq(Segments) \ {<< >>}
         /\ inbounds \in Seq(Inbounds)
         /\ \A k \in DOMAIN inbounds : inbounds[k] \in Inbounds
  <1>1. program \in ProgramRecords
    BY ProgramAssumption DEF TypeOK
  <1>2. inbounds \in Seq(Inbounds)
    BY DemandAssumption DEF TypeOK
  <1>3. /\ program.start \in Int /\ program.end \in Int
        /\ program.rates \in Seq(Segments) \ {<< >>}
    BY <1>1 DEF ProgramRecords
  <1> QED
    BY <1>1, <1>2, <1>3

(* One iteration of the loop: the slot is at the cursor or the ETA, the    *)
(* cursor moves a slot's length past it, and the assignment is the slot or *)
(* the flight's own ETA.                                                   *)
LEMMA OneAssignment ==
  ASSUME TypeOK, NEW f \in Inbounds
  PROVE  /\ SlotOf(f) \in Int /\ SlotOf(f) >= cursor /\ SlotOf(f) >= f.eta
         /\ SlotOf(f) = cursor \/ SlotOf(f) = f.eta
         /\ NextCursor(f) \in Int /\ NextCursor(f) = SlotOf(f) + SlotLength(program.rates, SlotOf(f))
         /\ Assignment(f) \in Assignments
         /\ Assignment(f).controlled <=> ~Exempt(f)
         /\ Assignment(f).cta = IF Exempt(f) THEN f.eta ELSE SlotOf(f)
  <1>1. f.eta \in Int /\ f.cs \in Callsigns /\ f.etd \in Int \cup {NoTime}
    BY DEF Inbounds
  <1>2. cursor \in Int
    BY DEF TypeOK
  <1>3. /\ SlotOf(f) \in Int /\ SlotOf(f) >= cursor /\ SlotOf(f) >= f.eta
        /\ SlotOf(f) = cursor \/ SlotOf(f) = f.eta
    BY <1>1, <1>2 DEF SlotOf, Larger
  <1>4. SlotLength(program.rates, SlotOf(f)) \in Nat
    BY <1>3, ProgramTypes, SlotLengths
  <1>5. NextCursor(f) \in Int /\ NextCursor(f) = SlotOf(f) + SlotLength(program.rates, SlotOf(f))
    BY <1>3, <1>4 DEF NextCursor
  <1>6. f.etd # NoTime => Enroute(f) \in Int
    BY <1>1 DEF Enroute, Larger
  <1>7. Larger(SlotOf(f) - f.eta, 0) \div Minute \in Nat
    <2>1. Larger(SlotOf(f) - f.eta, 0) \in Nat
      BY <1>1, <1>3 DEF Larger
    <2> QED
      BY <2>1, TimeAssumption
  <1>8. /\ Assignment(f) \in Assignments
        /\ Assignment(f).controlled <=> ~Exempt(f)
        /\ Assignment(f).cta = IF Exempt(f) THEN f.eta ELSE SlotOf(f)
    <2>1. CASE Exempt(f)
      BY <1>1, <2>1 DEF Assignment, Assignments
    <2>2. CASE ~Exempt(f)
      <3> DEFINE e == IF f.etd = NoTime THEN NoTime ELSE SlotOf(f) - Enroute(f)
                 d == Larger(SlotOf(f) - f.eta, 0) \div Minute
      <3>1. e \in Int \cup {NoTime}
        BY <1>3, <1>6
      <3>2. d \in Nat
        BY <1>7
      <3>3. Assignment(f) = [cs |-> f.cs, eta |-> f.eta, cta |-> SlotOf(f), edct |-> e,
                             delay |-> d, controlled |-> TRUE]
        BY <2>2 DEF Assignment
      <3> QED
        <4> HIDE DEF e, d
        <4> QED
          BY <1>1, <1>3, <2>2, <3>1, <3>2, <3>3 DEF Assignments
    <2> QED
      BY <2>1, <2>2
  <1> QED
    BY <1>3, <1>5, <1>8

(* A control time that is frozen comes from an assignment.                 *)
LEMMA FreshCtaType ==
  ASSUME TypeOK, NEW cs \in Callsigns
  PROVE  FreshCta(cs) \in Int \cup {NoTime}
  <1>1. \A k \in Controlled : out[k].cta \in Int
    <2>1. \A k \in DOMAIN out : out[k] \in Assignments
      BY DEF TypeOK
    <2> QED
      BY <2>1 DEF Controlled, Assignments
  <1> QED
    BY <1>1 DEF FreshCta

(* Every step keeps the types.                                             *)
LEMMA TypeStep == TypeOK /\ [Next]_vars => TypeOK'
  <1> SUFFICES ASSUME TypeOK, [Next]_vars PROVE TypeOK'
    OBVIOUS
  <1>0. \A cs \in Callsigns : FreshCta(cs) \in Int \cup {NoTime}
    BY FreshCtaType
  <1>1. CASE AssignNext
    <2> DEFINE f == inbounds[Len(out) + 1]
    <2>1. Len(out) \in Nat /\ Len(inbounds) \in Nat /\ Len(out) < Len(inbounds)
      BY <1>1, ProgramTypes DEF AssignNext, TypeOK
    <2>2. f \in Inbounds
      BY <2>1, ProgramTypes
    <2>3. Assignment(f) \in Assignments /\ NextCursor(f) \in Int
      BY <2>2, OneAssignment
    <2>4. out' = Append(out, Assignment(f)) /\ cursor' = NextCursor(f)
      BY <1>1 DEF AssignNext
    <2>5. out' \in Seq(Assignments) /\ Len(out') = Len(out) + 1
      BY <2>3, <2>4 DEF TypeOK
    <2> QED
      BY <1>1, <2>1, <2>3, <2>4, <2>5 DEF AssignNext, TypeOK
  <1>2. CASE FeedMoves
    <2>1. program.start \in Int
      BY ProgramTypes
    <2>2. inbounds' \in Demands
      BY <1>2, DemandAssumption DEF FeedMoves
    <2>3. Len(inbounds') \in Nat
      BY <2>2, DemandAssumption
    <2>4. runs' \in Nat /\ UNCHANGED <<program, published, frozen, origin>>
      BY <1>2 DEF FeedMoves, TypeOK
    <2>5. cursor' \in Int /\ out' = << >>
      BY <1>2, <2>1 DEF FeedMoves
    <2>6. out' \in Seq(Assignments) /\ Len(out') <= Len(inbounds')
      BY <2>3, <2>5
    <2> QED
      BY <2>2, <2>4, <2>5, <2>6 DEF TypeOK
  <1>3. CASE Freeze
    BY <1>0, <1>3 DEF Freeze, TypeOK
  <1>4. CASE Compress
    BY <1>0, <1>4 DEF Compress, CompressSlot, Joined, TypeOK
  <1>5. CASE \E cs \in Callsigns : Lock(cs) \/ Unlock(cs)
    BY <1>0, <1>5 DEF Lock, Unlock, Joined, TypeOK
  <1>6. CASE UNCHANGED vars
    BY <1>6 DEF vars, TypeOK
  <1> QED
    BY <1>1, <1>2, <1>3, <1>4, <1>5, <1>6 DEF Next

-----------------------------------------------------------------------------
(* The slots given before stay as they were; the new one is the last.      *)
LEMMA OutGrows ==
  ASSUME TypeOK, AssignNext
  PROVE  LET n == Len(out)
             f == inbounds[n + 1]
         IN  /\ n \in Nat /\ f \in Inbounds
             /\ DOMAIN out = 1..n /\ DOMAIN out' = 1..(n + 1) /\ Len(out') = n + 1
             /\ \A k \in 1..n : out'[k] = out[k] /\ out[k] \in Assignments
             /\ out'[n + 1] = Assignment(f)
             /\ cursor' = NextCursor(f)
             /\ \A k \in 1..n : k \in Controlled' <=> k \in Controlled
             /\ n + 1 \in Controlled' <=> ~Exempt(f)
             /\ Controlled \subseteq 1..n /\ Controlled' \subseteq 1..(n + 1)
  <1> DEFINE n == Len(out)
             f == inbounds[n + 1]
  <1>1. n \in Nat /\ Len(inbounds) \in Nat /\ n < Len(inbounds) /\ DOMAIN out = 1..n
    BY ProgramTypes DEF AssignNext, TypeOK
  <1>2. f \in Inbounds
    BY <1>1, ProgramTypes
  <1>3. out' = Append(out, Assignment(f)) /\ cursor' = NextCursor(f)
    BY DEF AssignNext
  <1>4. Assignment(f) \in Assignments /\ (Assignment(f).controlled <=> ~Exempt(f))
    BY <1>2, OneAssignment
  <1>5. \A k \in 1..n : out[k] \in Assignments
    BY <1>1 DEF TypeOK
  <1>6. /\ DOMAIN out' = 1..(n + 1) /\ Len(out') = n + 1
        /\ \A k \in 1..n : out'[k] = out[k]
        /\ out'[n + 1] = Assignment(f)
    <2> HIDE DEF f
    <2> QED
      BY <1>1, <1>3, <1>4 DEF TypeOK
  <1> HIDE DEF n, f
  <1>7. \A k \in 1..n : k \in Controlled' <=> k \in Controlled
    BY <1>1, <1>6 DEF Controlled
  <1>8. n + 1 \in Controlled' <=> ~Exempt(f)
    BY <1>1, <1>4, <1>6 DEF Controlled
  <1>9. Controlled \subseteq 1..n /\ Controlled' \subseteq 1..(n + 1)
    BY <1>1, <1>6 DEF Controlled
  <1> QED
    BY <1>1, <1>2, <1>3, <1>5, <1>6, <1>7, <1>8, <1>9 DEF n, f

(* The new slot is at the cursor or later, hence a slot's length after     *)
(* every controlled arrival, and the cursor moves a slot's length on.      *)
LEMMA SpacingStep ==
  ASSUME TypeOK, AssignNext, CursorSpaced, Spaced
  PROVE  CursorSpaced' /\ Spaced'
  <1> DEFINE n == Len(out)
             f == inbounds[n + 1]
  <1>1. /\ n \in Nat /\ f \in Inbounds
        /\ \A k \in 1..n : out'[k] = out[k] /\ out[k] \in Assignments
        /\ out'[n + 1] = Assignment(f) /\ cursor' = NextCursor(f)
        /\ \A k \in 1..n : k \in Controlled' <=> k \in Controlled
        /\ n + 1 \in Controlled' <=> ~Exempt(f)
        /\ Controlled' \subseteq 1..(n + 1)
    BY OutGrows
  <1>2. /\ SlotOf(f) \in Int /\ SlotOf(f) >= cursor /\ NextCursor(f) \in Int
        /\ NextCursor(f) = SlotOf(f) + SlotLength(program.rates, SlotOf(f))
        /\ n + 1 \in Controlled' => out'[n + 1].cta = SlotOf(f)
    BY <1>1, OneAssignment
  <1>3. /\ program' = program
        /\ \A t \in Int : SlotLength(program.rates, t) \in Nat
    BY ProgramTypes, SlotLengths DEF AssignNext
  <1>4. cursor \in Int /\ \A k \in 1..n : out[k].cta \in Int
    BY <1>1 DEF TypeOK, Assignments
  <1> DEFINE L(t) == SlotLength(program.rates, t)
  <1> HIDE DEF n, f, L
  <1>5. ASSUME NEW j \in Controlled', j # n + 1
        PROVE  /\ j \in Controlled /\ j \in 1..n /\ out'[j].cta = out[j].cta
               /\ cursor >= out[j].cta + L(out[j].cta)
    <2>1. j \in 1..n
      BY <1>1, <1>5
    <2>2. j \in Controlled /\ out'[j].cta = out[j].cta
      BY <1>1, <2>1
    <2> QED
      BY <2>1, <2>2 DEF CursorSpaced, L
  <1>6. \A t \in Int : L(t) \in Nat
    BY <1>3 DEF L
  <1>7. cursor' = SlotOf(f) + L(SlotOf(f)) /\ cursor' \in Int /\ cursor' >= cursor
    BY <1>1, <1>2, <1>4, <1>6 DEF L
  <1>8. CursorSpaced'
    <2> SUFFICES ASSUME NEW j \in Controlled'
                 PROVE  cursor' >= out'[j].cta + L(out'[j].cta)
      BY <1>3 DEF CursorSpaced, L
    <2>1. CASE j = n + 1
      BY <1>2, <1>6, <1>7, <2>1
    <2>2. CASE j # n + 1
      BY <1>4, <1>5, <1>6, <1>7, <2>2
    <2> QED
      BY <2>1, <2>2
  <1>9. Spaced'
    <2> SUFFICES ASSUME NEW j \in Controlled', NEW k \in Controlled', j < k
                 PROVE  out'[k].cta >= out'[j].cta + L(out'[j].cta)
      BY <1>3 DEF Spaced, L
    <2>1. j # n + 1 /\ j \in Int /\ k \in 1..(n + 1)
      BY <1>1
    <2>2. CASE k = n + 1
      BY <1>2, <1>4, <1>5, <1>6, <2>1, <2>2
    <2>3. CASE k # n + 1
      <3>1. out[k].cta >= out[j].cta + L(out[j].cta)
        BY <1>5, <2>1, <2>3 DEF Spaced, L
      <3> QED
        BY <1>5, <2>1, <2>3, <3>1
    <2> QED
      BY <2>2, <2>3
  <1> QED
    BY <1>8, <1>9

(* A slot at least s long later, the cursor is one more multiple of s past *)
(* every inbound so far.                                                   *)
LEMMA MeteringStep ==
  ASSUME TypeOK, AssignNext, CursorMetered, Metered
  PROVE  CursorMetered' /\ Metered'
  <1> DEFINE n == Len(out)
             f == inbounds[n + 1]
  <1>1. /\ n \in Nat /\ f \in Inbounds
        /\ DOMAIN out = 1..n /\ DOMAIN out' = 1..(n + 1) /\ Len(out') = n + 1
        /\ \A k \in 1..n : out'[k] = out[k] /\ out[k] \in Assignments
        /\ out'[n + 1] = Assignment(f) /\ cursor' = NextCursor(f)
        /\ \A k \in 1..n : k \in Controlled' <=> k \in Controlled
        /\ n + 1 \in Controlled' <=> ~Exempt(f)
        /\ Controlled' \subseteq 1..(n + 1)
    BY OutGrows
  <1>2. /\ SlotOf(f) \in Int /\ SlotOf(f) >= cursor /\ SlotOf(f) >= f.eta
        /\ cursor' = SlotOf(f) + SlotLength(program.rates, SlotOf(f))
        /\ n + 1 \in Controlled' => out'[n + 1].cta = SlotOf(f)
        /\ f.eta \in Int /\ out'[n + 1].cta \in {f.eta, SlotOf(f)}
    BY <1>1, OneAssignment DEF Inbounds
  <1>3. program' = program /\ cursor \in Int /\ \A k \in 1..n : out[k].cta \in Int
    BY <1>1 DEF AssignNext, TypeOK, Assignments
  <1> HIDE DEF n, f
  <1> SUFFICES ASSUME NEW s \in 0..Hour, SlotsAtLeast(s)
               PROVE  /\ \A j \in DOMAIN out' : cursor' >= out'[j].cta + (Len(out') + 1 - j) * s
                      /\ \A k \in Controlled' : \A j \in 1..(k - 1) :
                            out'[k].cta >= out'[j].cta + (k - j) * s
    BY <1>3 DEF CursorMetered, Metered, SlotsAtLeast
  <1>4. s \in Int /\ s >= 0 /\ SlotLength(program.rates, SlotOf(f)) >= s
        /\ SlotLength(program.rates, SlotOf(f)) \in Nat
    <2>1. s \in Int /\ s >= 0
      BY TimeAssumption
    <2>2. SlotLength(program.rates, SlotOf(f)) \in Nat
      BY <1>2, ProgramTypes, SlotLengths
    <2>3. SlotLength(program.rates, SlotOf(f)) >= s
      BY <1>2, <2>1, ProgramTypes, SlotLengths DEF SlotsAtLeast
    <2> QED
      BY <2>1, <2>2, <2>3
  <1>5. \A j \in 1..n : cursor >= out[j].cta + (n + 1 - j) * s
    BY <1>1 DEF CursorMetered, n
  <1>6. \A j \in 1..(n + 1) : cursor' >= out'[j].cta + (n + 2 - j) * s
    <2> SUFFICES ASSUME NEW j \in 1..(n + 1)
                 PROVE  cursor' >= out'[j].cta + (n + 2 - j) * s
      OBVIOUS
    <2>1. CASE j = n + 1
      <3>1. (n + 2 - j) * s = s
        BY <1>1, <1>4, <2>1
      <3> QED
        BY <1>1, <1>2, <1>4, <2>1, <3>1
    <2>2. CASE j # n + 1
      <3>1. j \in 1..n /\ out'[j].cta = out[j].cta /\ out[j].cta \in Int
        BY <1>1, <1>3, <2>2
      <3>2. (n + 2 - j) * s = (n + 1 - j) * s + s /\ (n + 1 - j) * s \in Int
        BY <1>1, <1>4, <3>1
      <3>3. cursor >= out[j].cta + (n + 1 - j) * s
        BY <1>5, <3>1
      <3> QED
        BY <1>2, <1>3, <1>4, <3>1, <3>2, <3>3
    <2> QED
      BY <2>1, <2>2
  <1>7. \A j \in DOMAIN out' : cursor' >= out'[j].cta + (Len(out') + 1 - j) * s
    <2> SUFFICES ASSUME NEW j \in 1..(n + 1)
                 PROVE  cursor' >= out'[j].cta + (Len(out') + 1 - j) * s
      BY <1>1
    <2>1. Len(out') + 1 - j = n + 2 - j
      BY <1>1
    <2> QED
      BY <1>6, <2>1
  <1>8. ASSUME NEW k \in Controlled', NEW j \in 1..(k - 1)
        PROVE  out'[k].cta >= out'[j].cta + (k - j) * s
    <2>1. k \in 1..(n + 1) /\ j \in 1..n /\ out'[j].cta = out[j].cta
      BY <1>1
    <2>2. CASE k = n + 1
      <3>1. (k - j) * s = (n + 1 - j) * s /\ (n + 1 - j) * s \in Int
        BY <1>1, <1>4, <2>1, <2>2
      <3> QED
        BY <1>2, <1>3, <1>5, <2>1, <2>2, <3>1
    <2>3. CASE k # n + 1
      <3>1. k \in Controlled /\ out'[k].cta = out[k].cta
        BY <1>1, <2>1, <2>3
      <3> QED
        BY <2>1, <3>1 DEF Metered
    <2> QED
      BY <2>2, <2>3
  <1> QED
    BY <1>7, <1>8

(* Under a flat rate the cursor stays the earliest time the demand allows: *)
(* the new slot is the later of it and the new flight's ETA.               *)
LEMMA EarliestStep ==
  ASSUME TypeOK, AssignNext, CursorEarliest, EarliestSlots
  PROVE  CursorEarliest' /\ EarliestSlots'
  <1> DEFINE n == Len(out)
             f == inbounds[n + 1]
             L == Hour \div program.rates[1].aar
             B(j, k) == Larger(inbounds[j].eta, program.start) + (k - j) * L
  <1> SUFFICES ASSUME Flat
               PROVE  CursorEarliest' /\ EarliestSlots'
    BY DEF CursorEarliest, EarliestSlots, Flat, AssignNext
  <1>1. /\ n \in Nat /\ f \in Inbounds
        /\ DOMAIN out = 1..n /\ DOMAIN out' = 1..(n + 1) /\ Len(out') = n + 1
        /\ \A k \in 1..n : out'[k] = out[k]
        /\ out'[n + 1] = Assignment(f) /\ cursor' = NextCursor(f)
        /\ \A k \in 1..n : k \in Controlled' <=> k \in Controlled
        /\ n + 1 \in Controlled' <=> ~Exempt(f)
        /\ Controlled' \subseteq 1..(n + 1)
    BY OutGrows
  <1>2. /\ SlotOf(f) \in Int /\ SlotOf(f) = Larger(cursor, f.eta)
        /\ cursor' = SlotOf(f) + L /\ L \in Int /\ L >= 0
        /\ n + 1 \in Controlled' => out'[n + 1].cta = SlotOf(f)
    <2>1. /\ SlotOf(f) \in Int /\ cursor' = SlotOf(f) + SlotLength(program.rates, SlotOf(f))
          /\ ~Exempt(f) => Assignment(f).cta = SlotOf(f)
      BY <1>1, OneAssignment
    <2>2. program.rates \in Seq(Segments) \ {<< >>} /\ Len(program.rates) = 1
      BY ProgramTypes DEF Flat
    <2>3. SlotLength(program.rates, SlotOf(f)) = L /\ L \in Nat
      BY <2>1, <2>2, SlotLengths
    <2>4. SlotOf(f) = Larger(cursor, f.eta)
      BY DEF SlotOf
    <2>5. n + 1 \in Controlled' => out'[n + 1].cta = SlotOf(f)
      BY <1>1, <2>1
    <2> QED
      BY <2>1, <2>3, <2>4, <2>5
  <1>3. /\ program' = program /\ inbounds' = inbounds /\ cursor \in Int
        /\ program.start \in Int /\ f.eta \in Int
        /\ \A j \in 1..(n + 1) : inbounds[j].eta \in Int
    <2>1. Len(inbounds) \in Nat /\ n + 1 <= Len(inbounds)
      BY <1>1, ProgramTypes DEF AssignNext
    <2>2. \A j \in 1..(n + 1) : inbounds[j] \in Inbounds
      BY <1>1, <2>1, ProgramTypes
    <2> QED
      BY <1>1, <2>2, ProgramTypes DEF AssignNext, TypeOK, Inbounds
  <1>4. /\ n = 0 => cursor = program.start
        /\ \A j \in 1..n : cursor >= B(j, n + 1)
        /\ n > 0 => \E j \in 1..n : cursor = B(j, n + 1)
    BY <1>1 DEF CursorEarliest, Bound
  <1>5. \A j \in 1..(n + 1), k \in Int :
            B(j, k) \in Int /\ B(j, k + 1) = B(j, k) + L /\ (k >= j => B(j, k) >= program.start)
    <2> TAKE j \in 1..(n + 1), k \in Int
    <2> DEFINE d == k - j
               x == d * L
               y == (d + 1) * L
               e == Larger(inbounds[j].eta, program.start)
    <2>1. d \in Int /\ x \in Int /\ y = x + L
      BY <1>1, <1>2
    <2>2. d >= 0 => x >= 0
      BY <1>2, <2>1
    <2>3. (k + 1) - j = d + 1 /\ (k >= j => d >= 0)
      BY <1>1
    <2>4. e \in Int /\ e >= program.start
      BY <1>3 DEF Larger
    <2>5. B(j, k) = e + x /\ B(j, k + 1) = e + y
      BY <2>3
    <2>6. L \in Int /\ program.start \in Int
      BY <1>2, <1>3
    <2> HIDE DEF B, d, x, y, e, L
    <2> QED
      BY <2>1, <2>2, <2>3, <2>4, <2>5, <2>6
  <1>6. B(n + 1, n + 1) = Larger(f.eta, program.start)
    <2>1. (n + 1) - (n + 1) = 0 /\ 0 * L = 0
      BY <1>1, <1>2
    <2>2. Larger(f.eta, program.start) \in Int
      BY <1>3 DEF Larger
    <2> QED
      BY <2>1, <2>2
  <1> HIDE DEF n, f, L, B
  <1>7. cursor >= program.start
    <2>1. ASSUME NEW j \in 1..n PROVE B(j, n + 1) >= program.start
      <3>1. j \in 1..(n + 1) /\ n + 1 \in Int /\ n + 1 >= j
        BY <1>1
      <3> QED
        BY <1>5, <3>1
    <2> QED
      BY <1>1, <1>3, <1>4, <2>1
  <1>8. \A j \in 1..(n + 1) : SlotOf(f) >= B(j, n + 1)
    <2> SUFFICES ASSUME NEW j \in 1..(n + 1) PROVE SlotOf(f) >= B(j, n + 1)
      OBVIOUS
    <2>1. B(j, n + 1) \in Int
      <3>1. n + 1 \in Int
        BY <1>1
      <3> QED
        BY <1>5, <3>1
    <2>2. CASE j = n + 1
      BY <1>1, <1>2, <1>3, <1>6, <1>7, <2>1, <2>2 DEF Larger
    <2>3. CASE j # n + 1
      BY <1>1, <1>2, <1>3, <1>4, <2>1, <2>3 DEF Larger
    <2> QED
      BY <2>2, <2>3
  <1>9. \E j \in 1..(n + 1) : SlotOf(f) = B(j, n + 1)
    <2>1. CASE cursor > f.eta /\ n > 0
      BY <1>1, <1>2, <1>3, <1>4, <2>1 DEF Larger
    <2>2. CASE ~(cursor > f.eta /\ n > 0)
      BY <1>1, <1>2, <1>3, <1>4, <1>6, <1>7, <2>2 DEF Larger
    <2> QED
      BY <2>1, <2>2
  <1>10. CursorEarliest'
    <2>1. \A j \in 1..(n + 1) : cursor' = SlotOf(f) + L /\ B(j, n + 2) = B(j, n + 1) + L
                               /\ B(j, n + 1) \in Int
      <3> SUFFICES ASSUME NEW j \in 1..(n + 1)
                   PROVE  B(j, (n + 1) + 1) = B(j, n + 1) + L /\ B(j, n + 1) \in Int
        BY <1>1, <1>2
      <3> QED
        BY <1>1, <1>5
    <2>2. /\ \A j \in 1..(n + 1) : cursor' >= B(j, n + 2)
          /\ \E j \in 1..(n + 1) : cursor' = B(j, n + 2)
      BY <1>2, <1>8, <1>9, <2>1
    <2>3. Len(out') + 1 = n + 2 /\ Len(out') # 0
      BY <1>1
    <2> QED
      BY <1>1, <1>3, <2>2, <2>3 DEF CursorEarliest, Bound, B, L
  <1>11. EarliestSlots'
    <2> SUFFICES ASSUME NEW k \in Controlled'
                 PROVE  /\ \A j \in 1..k : out'[k].cta >= B(j, k)
                        /\ \E j \in 1..k : out'[k].cta = B(j, k)
      BY <1>3 DEF EarliestSlots, Bound, B, L
    <2>1. CASE k = n + 1
      BY <1>2, <1>8, <1>9, <2>1
    <2>2. CASE k # n + 1
      <3>1. k \in 1..n /\ k \in Controlled /\ out'[k].cta = out[k].cta
        BY <1>1, <2>2
      <3> QED
        BY <3>1 DEF EarliestSlots, Bound, B, L
    <2> QED
      BY <2>1, <2>2
  <1> QED
    BY <1>10, <1>11

-----------------------------------------------------------------------------
(* Nothing has been assigned yet.                                          *)
LEMMA EmptyRun ==
  ASSUME out = << >>, cursor = program.start, TypeOK
  PROVE  RunInv
  <1>1. DOMAIN out = {} /\ Len(out) = 0 /\ Controlled = {}
    BY DEF Controlled
  <1> QED
    BY <1>1 DEF RunInv, CursorSpaced, Spaced, CursorMetered, Metered, CursorEarliest, EarliestSlots

LEMMA InitRun == Init => RunInv
  <1> SUFFICES ASSUME Init PROVE RunInv
    OBVIOUS
  <1>1. program.start \in Int /\ Len(inbounds) \in Nat
    BY ProgramAssumption, DemandAssumption DEF Init, ProgramRecords
  <1>2. out \in Seq(Assignments) /\ Len(out) = 0
    BY DEF Init
  <1>3. TypeOK
    <2>1. frozen \in [Callsigns -> Int \cup {NoTime}]
      BY DEF Init
    <2>2. Len(out) <= Len(inbounds)
      BY <1>1, <1>2
    <2> QED
      BY <1>1, <1>2, <2>1, <2>2 DEF Init, TypeOK
  <1> QED
    BY <1>3, EmptyRun DEF Init

(* Every step keeps the invariant: the loop's by the lemmas above, a new   *)
(* picture starts over, and the frozen rows are not part of the run.       *)
LEMMA RunStep == RunInv /\ [Next]_vars => RunInv'
  <1> SUFFICES ASSUME RunInv, [Next]_vars PROVE RunInv'
    OBVIOUS
  <1>1. TypeOK'
    BY TypeStep DEF RunInv
  <1>2. CASE AssignNext
    BY <1>1, <1>2, SpacingStep, MeteringStep, EarliestStep DEF RunInv
  <1>3. CASE FeedMoves
    <2>1. out' = << >> /\ cursor' = program'.start
      BY <1>3 DEF FeedMoves
    <2>2. DOMAIN out' = {} /\ Len(out') = 0 /\ Controlled' = {}
      BY <2>1 DEF Controlled
    <2> QED
      BY <1>1, <2>1, <2>2
      DEF RunInv, CursorSpaced, Spaced, CursorMetered, Metered, CursorEarliest, EarliestSlots
  <1>4. CASE UNCHANGED <<program, inbounds, cursor, out>>
    BY <1>1, <1>4 DEF RunInv, CursorSpaced, Spaced, CursorMetered, Metered, CursorEarliest,
                      EarliestSlots, Controlled, SlotsAtLeast, Flat, Bound
  <1>5. CASE Freeze \/ Compress \/ (\E cs \in Callsigns : Lock(cs) \/ Unlock(cs)) \/ UNCHANGED vars
    BY <1>4, <1>5 DEF Freeze, Compress, Lock, Unlock, vars
  <1> QED
    BY <1>2, <1>3, <1>5 DEF Next

LEMMA RunAlways == Spec => []RunInv
  BY InitRun, RunStep, PTL DEF Spec

(* The run's and the frozen rows' types.                                   *)
THEOREM TypeCorrect == Spec => []TypeOK
  <1>1. RunInv => TypeOK
    BY DEF RunInv
  <1> QED
    BY <1>1, RunAlways, PTL

(* ration_by_schedule spaces the controlled flights by the rate in effect, *)
(* across exempt flights and rate changes.                                 *)
THEOREM SlotsSpaced == Spec => []Spaced
  <1>1. RunInv => Spaced
    BY DEF RunInv
  <1> QED
    BY <1>1, RunAlways, PTL

(* Exempt flights use slots up: between two flights, one of which is       *)
(* controlled and behind, lies a slot for each flight from one to the      *)
(* other.                                                                  *)
THEOREM DemandMetered == Spec => []Metered
  <1>1. RunInv => Metered
    BY DEF RunInv
  <1> QED
    BY <1>1, RunAlways, PTL

(* Under a flat rate no flight is delayed beyond what the demand ahead of  *)
(* it forces.                                                              *)
THEOREM SlotsEarliest == Spec => []EarliestSlots
  <1>1. RunInv => EarliestSlots
    BY DEF RunInv
  <1> QED
    BY <1>1, RunAlways, PTL

(* compress_gdp never issues a control time later than the one issued.     *)
THEOREM NeverLater == Spec => CompressNeverLater
  <1>1. TypeOK /\ [Next]_vars =>
            [Compress => \A cs \in Callsigns :
                frozen'[cs] # NoTime => frozen[cs] # NoTime /\ frozen'[cs] <= frozen[cs]]_vars
    <2> SUFFICES ASSUME TypeOK, Compress, NEW cs \in Callsigns, frozen'[cs] # NoTime
                 PROVE  frozen[cs] # NoTime /\ frozen'[cs] <= frozen[cs]
      OBVIOUS
    <2>1. frozen[cs] # NoTime /\ FreshCta(cs) # NoTime
          /\ frozen'[cs] = CompressSlot(FreshCta(cs), frozen[cs])
      BY DEF Compress
    <2>2. frozen[cs] \in Int /\ FreshCta(cs) \in Int
      BY <2>1, FreshCtaType DEF TypeOK
    <2> QED
      BY <2>1, <2>2 DEF CompressSlot
  <1> QED
    BY <1>1, TypeCorrect, PTL DEF Spec, CompressNeverLater

-----------------------------------------------------------------------------
(* The frozen rows.  While they are all from one picture they are control  *)
(* times of one run, and stay spaced when that run is over.                *)

OriginInv ==
    /\ runs >= 1 /\ origin <= runs
    /\ origin = runs => Done /\ \A cs \in Callsigns : frozen[cs] # NoTime => frozen[cs] = FreshCta(cs)
    /\ FrozenSpaced

LEMMA FreshOf ==
  ASSUME NEW cs, FreshCta(cs) # NoTime
  PROVE  \E k \in Controlled : out[k].cs = cs /\ FreshCta(cs) = out[k].cta
  BY DEF FreshCta

LEMMA FreshSpaced ==
  ASSUME RunInv, NEW a \in Callsigns, NEW b \in Callsigns, a # b,
         FreshCta(a) # NoTime, FreshCta(b) # NoTime, FreshCta(a) <= FreshCta(b)
  PROVE  FreshCta(b) >= FreshCta(a) + SlotLength(program.rates, FreshCta(a))
  <1>1. PICK j \in Controlled : out[j].cs = a /\ FreshCta(a) = out[j].cta
    BY FreshOf
  <1>2. PICK k \in Controlled : out[k].cs = b /\ FreshCta(b) = out[k].cta
    BY FreshOf
  <1>3. /\ out \in Seq(Assignments) /\ Controlled \subseteq DOMAIN out /\ DOMAIN out = 1..Len(out)
        /\ program.rates \in Seq(Segments) \ {<< >>}
    BY ProgramTypes DEF RunInv, TypeOK, Controlled
  <1>4. j \in Nat /\ k \in Nat /\ j # k /\ out[j].cta \in Int /\ out[k].cta \in Int
    <2>1. Len(out) \in Nat /\ j \in 1..Len(out) /\ k \in 1..Len(out)
      BY <1>3
    <2>2. j \in Nat /\ k \in Nat
      BY <2>1
    <2>3. j # k
      BY <1>1, <1>2
    <2>4. out[j] \in Assignments /\ out[k] \in Assignments
      BY <1>3, <2>1
    <2>5. out[j].cta \in Int \cup {NoTime} /\ out[k].cta \in Int \cup {NoTime}
      BY <2>4 DEF Assignments
    <2>6. out[j].cta # NoTime /\ out[k].cta # NoTime
      BY <1>1, <1>2
    <2> QED
      BY <2>2, <2>3, <2>5, <2>6
  <1>5. /\ SlotLength(program.rates, out[j].cta) \in Nat
        /\ SlotLength(program.rates, out[k].cta) \in Nat
    BY <1>3, <1>4, SlotLengths
  <1>6. CASE j < k
    BY <1>1, <1>2, <1>6 DEF RunInv, Spaced
  <1>7. CASE k < j
    <2>1. out[j].cta >= out[k].cta + SlotLength(program.rates, out[k].cta)
      BY <1>7 DEF RunInv, Spaced
    <2>2. out[j].cta = out[k].cta /\ SlotLength(program.rates, out[k].cta) = 0
      BY <1>1, <1>2, <1>4, <1>5, <2>1
    <2> QED
      BY <1>1, <1>2, <1>4, <2>2
  <1> QED
    BY <1>4, <1>6, <1>7

LEMMA OriginStep == RunInv /\ OriginInv /\ [Next]_vars => OriginInv'
  <1> SUFFICES ASSUME RunInv, OriginInv, [Next]_vars PROVE OriginInv'
    OBVIOUS
  <1>1. /\ frozen \in [Callsigns -> Int \cup {NoTime}] /\ origin \in Nat /\ runs \in Nat
        /\ Len(out) \in Nat
    BY DEF RunInv, TypeOK
  <1>2. CASE AssignNext
    BY <1>1, <1>2 DEF AssignNext, OriginInv, Done, FrozenSpaced, FrozenMeters
  <1>3. CASE FeedMoves
    BY <1>1, <1>3 DEF FeedMoves, OriginInv, FrozenSpaced, FrozenMeters
  <1>4. CASE UNCHANGED vars
    BY <1>1, <1>4 DEF vars, OriginInv, Done, FrozenSpaced, FrozenMeters, FreshCta, Controlled
  <1>5. ASSUME Done, UNCHANGED <<program, inbounds, cursor, out, runs>>, origin' \in {runs, 0},
               origin' = runs =>
                  \A cs \in Callsigns : frozen'[cs] # NoTime => frozen'[cs] = FreshCta(cs)
        PROVE  OriginInv'
    <2>1. Done' /\ \A cs \in Callsigns : FreshCta(cs)' = FreshCta(cs)
      BY <1>5 DEF Done, FreshCta, Controlled
    <2>2. origin' # 0 => FrozenMeters'
      BY <1>5, FreshSpaced DEF FrozenMeters
    <2>3. runs' >= 1 /\ origin' <= runs'
      BY <1>1, <1>5 DEF OriginInv
    <2> QED
      BY <1>5, <2>1, <2>2, <2>3 DEF OriginInv, FrozenSpaced
  <1>6. CASE Freeze
    BY <1>5, <1>6 DEF Freeze
  <1>7. CASE Compress
    <2>1. origin' = runs =>
            \A cs \in Callsigns : frozen'[cs] # NoTime => frozen'[cs] = FreshCta(cs)
      <3> SUFFICES ASSUME origin' = runs, NEW cs \in Callsigns, frozen'[cs] # NoTime
                   PROVE  frozen'[cs] = FreshCta(cs)
        OBVIOUS
      <3>1. origin = runs
        BY <1>1, <1>7 DEF Compress, Joined, OriginInv
      <3>2. frozen[cs] # NoTime /\ frozen'[cs] = CompressSlot(FreshCta(cs), frozen[cs])
        BY <1>7 DEF Compress
      <3>3. frozen[cs] = FreshCta(cs)
        BY <3>1, <3>2 DEF OriginInv
      <3> QED
        BY <3>2, <3>3 DEF CompressSlot
    <2> QED
      BY <1>5, <1>7, <2>1 DEF Compress, Joined
  <1>8. ASSUME NEW cs \in Callsigns, Lock(cs) PROVE OriginInv'
    <2>1. origin' = runs =>
            \A c \in Callsigns : frozen'[c] # NoTime => frozen'[c] = FreshCta(c)
      <3> SUFFICES ASSUME origin' = runs, NEW c \in Callsigns, frozen'[c] # NoTime
                   PROVE  frozen'[c] = FreshCta(c)
        OBVIOUS
      <3>1. origin = runs
        BY <1>1, <1>8 DEF Lock, Joined, OriginInv
      <3> QED
        BY <1>1, <1>8, <3>1 DEF Lock, OriginInv
    <2> QED
      BY <1>5, <1>8, <2>1 DEF Lock, Joined
  <1>9. ASSUME NEW cs \in Callsigns, Unlock(cs) PROVE OriginInv'
    <2>1. \A c \in Callsigns : frozen'[c] # NoTime => frozen'[c] = frozen[c]
      BY <1>1, <1>9 DEF Unlock
    <2>2. UNCHANGED <<program, out, inbounds, origin, runs>>
      BY <1>9 DEF Unlock
    <2>3. Done' <=> Done
      BY <2>2 DEF Done
    <2>4. \A c \in Callsigns : FreshCta(c)' = FreshCta(c)
      BY <2>2 DEF FreshCta, Controlled
    <2> QED
      BY <2>1, <2>2, <2>3, <2>4 DEF OriginInv, FrozenSpaced, FrozenMeters
  <1> QED
    BY <1>2, <1>3, <1>4, <1>6, <1>7, <1>8, <1>9 DEF Next

(* What is frozen from one picture meters the demand, however often it is  *)
(* compressed, locked and unlocked, and whatever the feed shows since.     *)
THEOREM FrozenMetered == Spec => []FrozenSpaced
  <1>1. Init => OriginInv
    BY DEF Init, OriginInv, FrozenSpaced
  <1>2. OriginInv => FrozenSpaced
    BY DEF OriginInv
  <1> QED
    BY <1>1, <1>2, OriginStep, RunAlways, PTL DEF Spec

-----------------------------------------------------------------------------
(* Division of what is not negative is what the intervals of the bins say. *)
LEMMA LaterBin ==
  ASSUME NEW d \in Nat, NEW q \in Nat, NEW b \in Nat, q < b
  PROVE  (q + 1) * d <= b * d
  <1> DEFINE e == b - (q + 1)
  <1>1. e \in Nat /\ b = (q + 1) + e
    OBVIOUS
  <1> HIDE DEF e
  <1>2. b * d = (q + 1) * d + e * d
    BY <1>1
  <1>3. e * d \in Nat
    BY <1>1
  <1>4. (q + 1) * d \in Nat
    OBVIOUS
  <1> QED
    BY <1>2, <1>3, <1>4

LEMMA Quotient ==
  ASSUME NEW x \in Nat, NEW d \in Nat \ {0}, NEW b \in Nat
  PROVE  x \div d = b <=> (b * d <= x /\ x < (b + 1) * d)
  <1> DEFINE q == x \div d
  <1>1. q \in Nat
    OBVIOUS
  <1>2. q * d <= x
    OBVIOUS
  <1>3. x < (q + 1) * d
    OBVIOUS
  <1> HIDE DEF q
  <1>4. q * d \in Nat /\ (q + 1) * d \in Nat /\ b * d \in Nat /\ (b + 1) * d \in Nat
    BY <1>1
  <1>5. q < b => (q + 1) * d <= b * d
    BY <1>1, LaterBin
  <1>6. b < q => (b + 1) * d <= q * d
    BY <1>1, LaterBin
  <1>7. q = b <=> (b * d <= x /\ x < (b + 1) * d)
    <2>1. CASE q < b
      BY <1>1, <1>3, <1>4, <1>5, <2>1
    <2>2. CASE b < q
      BY <1>1, <1>2, <1>4, <1>6, <2>2
    <2>3. CASE q = b
      BY <1>2, <1>3, <2>3
    <2> QED
      BY <1>1, <2>1, <2>2, <2>3
  <1> QED
    BY <1>7 DEF q

(* demand_bins counts in each bin the flights that arrive within it, as    *)
(* long as none arrives before the window.                                 *)
THEOREM BinsExact == Spec => []BinsExactInWindow
  <1>1. RunInv => BinsExactInWindow
    <2> SUFFICES ASSUME RunInv, \A k \in DOMAIN out : out[k].cta >= program.start,
                        NEW b \in Bins
                 PROVE  BinIsExact(b)
      BY DEF BinsExactInWindow
    <2>1. b \in Nat
      BY DEF Bins
    <2>2. program.start \in Int /\ BinLength \in Nat \ {0}
      BY ProgramTypes, TimeAssumption DEF RunInv
    <2>3. ASSUME NEW k \in DOMAIN out
          PROVE  BinOf(out[k].cta) = b <=> InBin(out[k].cta, b)
      <3>1. out[k] \in Assignments
        BY DEF RunInv, TypeOK
      <3>2. out[k].cta \in Int /\ out[k].cta >= program.start
        BY <3>1 DEF Assignments
      <3> DEFINE t == out[k].cta
                 x == t - program.start
      <3>3. x \in Nat /\ BinOf(t) = x \div BinLength
        BY <2>2, <3>2 DEF BinOf
      <3>4. b * BinLength \in Nat /\ (b + 1) * BinLength \in Nat
        BY <2>1, <2>2
      <3>5. InBin(t, b) <=> (b * BinLength <= x /\ x < (b + 1) * BinLength)
        BY <2>2, <3>2, <3>4 DEF InBin
      <3> QED
        BY <2>1, <2>2, <3>3, <3>5, Quotient
    <2> QED
      BY <2>3 DEF BinIsExact, DemandBins
  <1> QED
    BY <1>1, RunAlways, PTL
=============================================================================
