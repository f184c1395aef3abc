-------------------------- MODULE ReleaseDeskProofs --------------------------
(***************************************************************************)
(* What holds of the releases of an area for any number of people, tools   *)
(* and flights, whatever the traffic: who may overwrite what (DeskInv,     *)
(* VersionInv), that metering is defined and what time it gives a flight,  *)
(* and that releases given one after the other stay apart, from each other *)
(* (TurnInv) and from the arrivals (StandInv).                             *)
(***************************************************************************)
EXTENDS ReleaseDesk, FiniteSetTheorems, FunctionTheorems, WellFoundedInduction, TLAPS

HeldBy(w, r) == r # NoRow /\ (w \in Tools => r.holder = w)

(* A swap holds what it has locked, and no two lock the same row.          *)
LocksHeld ==
    \A w \in Writers : call[w].pc = "swap" => \A f \in call[w].locked : HeldBy(w, release[f])

LocksApart ==
    \A v, w \in Writers :
        v # w /\ call[v].pc = "swap" /\ call[w].pc = "swap" => call[v].locked \cap call[w].locked = {}

ClearsAllowed == \A w \in Writers : call[w].pc = "clear" => "clear" \in env

DeskInv == TypeOK /\ LocksHeld /\ LocksApart /\ ClearsAllowed

-----------------------------------------------------------------------------
(* Calls and rows. *)

LEMMA CallFacts ==
  ASSUME NEW w \in Writers, NEW c, Call(w, c)
  PROVE  /\ c = Idle <=> c.pc = "idle"
         /\ c.pc \in {"idle", "mark", "clear", "swap"}
         /\ c.pc \in {"mark", "clear"} => c.flight \in Flights
         /\ c.pc = "swap" => /\ DOMAIN c = {"pc", "saw", "left", "locked"}
                             /\ c.left \subseteq Flights /\ c.locked \subseteq Flights
         /\ c.pc \in {"mark", "clear"} /\ w \in Tools => c.expect \in {Absent} \cup Versions
  BY DeskAssumption DEF Call, Idle, Writers

LEMMA IdleCall == ASSUME NEW w PROVE Call(w, Idle) /\ Idle.pc = "idle"
  BY DEF Call, Idle

(* One writer's call goes on.                                              *)
LEMMA CallMoves ==
  ASSUME TypeOK, NEW w \in Writers, NEW c, Call(w, c), Goto(w, c)
  PROVE  /\ DOMAIN call' = Writers
         /\ call'[w] = c /\ \A v \in Writers \ {w} : call'[v] = call[v]
         /\ \A v \in Writers : Call(v, call'[v])
  BY DEF TypeOK, Goto

LEMMA WrittenRow ==
  ASSUME TypeOK, NEW w \in Writers, NEW f \in Flights, NEW t
  PROVE  /\ Row(Written(w, f, t)) /\ Written(w, f, t) # NoRow
         /\ Written(w, f, t).holder = w /\ Written(w, f, t).serial = writes + 1
         /\ Written(w, f, t).version = release[f].version + 1
  <1>1. release[f].version \in Nat
    BY DEF TypeOK, Row, NoRow
  <1>2. writes \in Nat
    BY DEF TypeOK
  <1> QED
    BY <1>1, <1>2 DEF Written, Row, NoRow

LEMMA RowFacts ==
  ASSUME TypeOK, NEW f \in Flights
  PROVE  /\ release[f] = NoRow \/ Row(release[f])
         /\ release[f].version \in Nat
         /\ release[f] # NoRow => release[f].version >= 1
  BY DEF TypeOK, Row, NoRow
LEMMA ExpectFacts ==
  /\ \A v \in Versions : v # Anything /\ v # Absent /\ v.kind = "version"
  /\ Anything.kind = "any" /\ Absent.kind = "absent" /\ Anything # Absent
  BY DEF Versions, Anything, Absent

(* What a write that gets through requires of the row.                     *)
LEMMA AppliesFacts ==
  ASSUME NEW w \in Tools, NEW f \in Flights, NEW e \in {Absent} \cup Versions, Applies(w, f, e)
  PROVE  \/ release[f] = NoRow
         \/ /\ release[f] # NoRow /\ release[f].holder = w
            /\ e \in Versions /\ release[f].version = e.version
  BY ExpectFacts DEF Applies

LEMMA RememberedVersions ==
  ASSUME TypeOK, NEW w \in Tools, NEW f \in Flights
  PROVE  /\ Remembered(w, f) \subseteq Versions
         /\ \A e \in Remembered(w, f) : \E n \in DOMAIN known[w] :
               /\ known[w][n].flight = f
               /\ e.version = known[w][n].version /\ e.serial = known[w][n].serial
               /\ "stray" \in env \/ \A k \in DOMAIN known[w] : known[w][k].flight = f => k <= n
  <1>1. known[w] \in Seq(Answers)
    BY DEF TypeOK
  <1>2. \A n \in DOMAIN known[w] : known[w][n] \in Answers
    BY <1>1
  <1>3. ASSUME NEW e \in Remembered(w, f)
        PROVE  \E n \in DOMAIN known[w] :
                 /\ known[w][n].flight = f
                 /\ e = [kind |-> "version", version |-> known[w][n].version, serial |-> known[w][n].serial]
                 /\ "stray" \in env \/ \A k \in DOMAIN known[w] : known[w][k].flight = f => k <= n
    BY <1>3 DEF Remembered
  <1>4. ASSUME NEW e \in Remembered(w, f) PROVE e \in Versions
    <2>1. PICK n \in DOMAIN known[w] :
            e = [kind |-> "version", version |-> known[w][n].version, serial |-> known[w][n].serial]
      BY <1>3
    <2>2. known[w][n].version \in Nat \ {0} /\ known[w][n].serial \in Nat \ {0}
      BY <1>2 DEF Answers
    <2> QED
      BY <2>1, <2>2 DEF Versions
  <1>5. ASSUME NEW e \in Remembered(w, f)
        PROVE  \E n \in DOMAIN known[w] :
               /\ known[w][n].flight = f
               /\ e.version = known[w][n].version /\ e.serial = known[w][n].serial
               /\ "stray" \in env \/ \A k \in DOMAIN known[w] : known[w][k].flight = f => k <= n
    BY <1>3
  <1> QED
    BY <1>4, <1>5

LEMMA AnswerTypes ==
  ASSUME TypeOK, NEW w \in Writers, NEW f \in Flights, NEW t, Answer(w, f, Written(w, f, t))
  PROVE  known' \in [Tools -> Seq(Answers)]
  <1> DEFINE row == Written(w, f, t)
  <1>1. row.version \in Nat \ {0} /\ row.serial \in Nat \ {0}
    BY WrittenRow DEF Row
  <1>2. [flight |-> f, version |-> row.version, serial |-> row.serial] \in Answers
    BY <1>1 DEF Answers
  <1> HIDE DEF row
  <1>3. known \in [Tools -> Seq(Answers)]
    BY DEF TypeOK
  <1>4. CASE w \in Tools
    <2>1. known' = [known EXCEPT ![w] = Append(@, [flight |-> f, version |-> row.version, serial |-> row.serial])]
      BY <1>4 DEF Answer, row
    <2>2. Append(known[w], [flight |-> f, version |-> row.version, serial |-> row.serial]) \in Seq(Answers)
      BY <1>2, <1>3, <1>4
    <2> QED
      BY <2>1, <2>2, <1>3
  <1>5. CASE w \notin Tools
    BY <1>3, <1>5 DEF Answer
  <1> QED
    BY <1>4, <1>5

-----------------------------------------------------------------------------
(* The rows, the locks and the calls. *)

LEMMA DeskStart == Init => DeskInv
  <1> SUFFICES ASSUME Init PROVE DeskInv
    OBVIOUS
  <1>1. \A w \in Writers : Call(w, call[w]) /\ call[w].pc = "idle"
    BY IdleCall DEF Init
  <1>2. DOMAIN call = Writers /\ DOMAIN release = Flights
    BY DEF Init
  <1>3. \A f \in Flights : release[f] = NoRow
    BY DEF Init
  <1>4. known \in [Tools -> Seq(Answers)]
    BY DEF Init
  <1>5. pic \in Pictures /\ order \in Orders \cup {<< >>} /\ env \in Environments /\ writes \in Nat
    BY DEF Init
  <1> QED
    BY <1>1, <1>2, <1>3, <1>4, <1>5 DEF DeskInv, TypeOK, LocksHeld, LocksApart, ClearsAllowed

(* A step that changes one call and no row.                                *)
LEMMA CallOnly ==
  ASSUME DeskInv, NEW w \in Writers, NEW c, Call(w, c), Goto(w, c),
         UNCHANGED <<pic, order, release, known, writes, env>>,
         c.pc = "clear" => "clear" \in env,
         c.pc = "swap" =>
             /\ \A f \in c.locked : HeldBy(w, release[f])
             /\ \A v \in Writers \ {w} : call[v].pc = "swap" => call[v].locked \cap c.locked = {}
  PROVE  DeskInv'
  <1>1. /\ DOMAIN call' = Writers
        /\ call'[w] = c /\ \A v \in Writers \ {w} : call'[v] = call[v]
        /\ \A v \in Writers : Call(v, call'[v])
    BY CallMoves DEF DeskInv
  <1>2. TypeOK'
    BY <1>1 DEF DeskInv, TypeOK
  <1>3. LocksHeld'
    BY <1>1 DEF DeskInv, LocksHeld
  <1>4. LocksApart'
    BY <1>1 DEF DeskInv, LocksApart
  <1>5. ClearsAllowed'
    BY <1>1 DEF DeskInv, ClearsAllowed
  <1> QED
    BY <1>2, <1>3, <1>4, <1>5 DEF DeskInv

LEMMA DeskBegin ==
  ASSUME DeskInv, NEW w \in Writers, NEW f \in Flights, BeginMark(w, f) \/ BeginClear(w, f)
  PROVE  DeskInv'
  <1>0. w \in Tools => Remembered(w, f) \subseteq Versions
    BY RememberedVersions DEF DeskInv
  <1>1. CASE BeginMark(w, f)
    <2>1. PICK t, e : /\ e \in (IF w \in People THEN {Anything} ELSE {Absent} \cup Remembered(w, f))
                      /\ Goto(w, [pc |-> "mark", flight |-> f, cta |-> t, expect |-> e])
      BY <1>1 DEF BeginMark
    <2>2. Call(w, [pc |-> "mark", flight |-> f, cta |-> t, expect |-> e])
      BY <2>1, <1>0, DeskAssumption DEF Call, Writers
    <2> QED
      BY <2>1, <2>2, <1>1, CallOnly DEF BeginMark
  <1>2. CASE BeginClear(w, f)
    <2>1. PICK e : /\ e \in (IF w \in People THEN {Anything} ELSE Remembered(w, f))
                   /\ Goto(w, [pc |-> "clear", flight |-> f, expect |-> e])
      BY <1>2 DEF BeginClear
    <2>2. Call(w, [pc |-> "clear", flight |-> f, expect |-> e])
      BY <2>1, <1>0, DeskAssumption DEF Call, Writers
    <2> QED
      BY <2>1, <2>2, <1>2, CallOnly DEF BeginClear
  <1> QED
    BY <1>1, <1>2

LEMMA DeskSwaps ==
  ASSUME DeskInv, NEW w \in Writers,
         \/ \E a, b \in Flights : BeginSwap(w, a, b)
         \/ \E f \in Flights : SwapRow(w, f)
         \/ Victim(w)
  PROVE  DeskInv'
  <1>1. ASSUME NEW a \in Flights, NEW b \in Flights, BeginSwap(w, a, b) PROVE DeskInv'
    <2> DEFINE c == [pc |-> "swap", left |-> {a, b}, locked |-> {},
                saw |-> [f \in Flights |-> IF f \in {a, b} THEN release[f] ELSE NoRow]]
    <2>1. Call(w, c) /\ c.pc = "swap" /\ c.locked = {}
      BY DEF Call
    <2>2. Goto(w, c) /\ UNCHANGED <<pic, order, release, known, writes, env>>
      BY <1>1 DEF BeginSwap
    <2> HIDE DEF c
    <2> QED
      BY <2>1, <2>2, CallOnly
  <1>2. ASSUME NEW f \in Flights, SwapRow(w, f) PROVE DeskInv'
    <2> DEFINE c == [call[w] EXCEPT !.left = @ \ {f}, !.locked = IF Keeps(w, f) THEN @ \cup {f} ELSE @]
    <2>1. Goto(w, c) /\ UNCHANGED <<pic, order, release, known, writes, env>>
      BY <1>2 DEF SwapRow
    <2>2. call[w].pc = "swap" /\ Call(w, call[w]) /\ ~Locked(f)
      BY <1>2 DEF SwapRow, DeskInv, TypeOK
    <2>3. /\ DOMAIN call[w] = {"pc", "saw", "left", "locked"}
          /\ call[w].left \subseteq Flights /\ call[w].locked \subseteq Flights
      BY <2>2, CallFacts
    <2>4. /\ DOMAIN c = {"pc", "saw", "left", "locked"} /\ c.pc = "swap"
          /\ c.left = call[w].left \ {f}
          /\ c.locked = IF Keeps(w, f) THEN call[w].locked \cup {f} ELSE call[w].locked
      BY <2>2, <2>3
    <2> HIDE DEF c
    <2>5. Call(w, c)
      BY <2>3, <2>4 DEF Call
    <2>6. \A g \in c.locked : HeldBy(w, release[g])
      BY <2>2, <2>4 DEF DeskInv, LocksHeld, Keeps, Holds, HeldBy
    <2>7. \A v \in Writers \ {w} : call[v].pc = "swap" => call[v].locked \cap c.locked = {}
      BY <2>2, <2>4 DEF DeskInv, LocksApart, Locked
    <2> QED
      BY <2>1, <2>4, <2>5, <2>6, <2>7, CallOnly
  <1>3. CASE Victim(w)
    BY <1>3, IdleCall, CallOnly DEF Victim
  <1> QED
    BY <1>1, <1>2, <1>3

LEMMA DeskMark == ASSUME DeskInv, NEW w \in Writers, WriteMark(w) PROVE DeskInv'
  <1> DEFINE f == call[w].flight
             row == Written(w, f, call[w].cta)
  <1>0. call[w].pc = "mark" /\ f \in Flights /\ ~Locked(f) /\ Goto(w, Idle)
    BY CallFacts DEF WriteMark, DeskInv, TypeOK
  <1>1. CASE UNCHANGED <<release, known, writes>>
    BY <1>0, <1>1, IdleCall, CallOnly DEF WriteMark
  <1>2. CASE /\ release' = [release EXCEPT ![f] = row] /\ writes' = writes + 1
             /\ Answer(w, f, row) \/ UNCHANGED known
    <2>1. /\ DOMAIN call' = Writers
          /\ call'[w] = Idle /\ \A v \in Writers \ {w} : call'[v] = call[v]
          /\ \A v \in Writers : Call(v, call'[v])
      BY <1>0, IdleCall, CallMoves DEF DeskInv
    <2>2. Row(row) /\ row # NoRow
      BY <1>0, WrittenRow DEF DeskInv
    <2>3. /\ DOMAIN release' = Flights
          /\ release'[f] = row /\ \A g \in Flights \ {f} : release'[g] = release[g]
      BY <1>0, <1>2 DEF DeskInv, TypeOK
    <2>4. known' \in [Tools -> Seq(Answers)]
      BY <1>0, <1>2, AnswerTypes DEF DeskInv, TypeOK
    <2>5. UNCHANGED <<pic, order, env>> /\ writes' \in Nat
      BY <1>2 DEF WriteMark, DeskInv, TypeOK
    <2> HIDE DEF f, row
    <2>6. TypeOK'
      BY <2>1, <2>2, <2>3, <2>4, <2>5 DEF DeskInv, TypeOK
    <2>9. \A v \in Writers : call[v].pc = "swap" => call[v].locked \subseteq Flights \ {f}
      BY <1>0, CallFacts DEF DeskInv, TypeOK, Locked
    <2>7. LocksHeld'
      BY <2>9, <2>1, <2>3, IdleCall DEF DeskInv, LocksHeld
    <2>8. LocksApart' /\ ClearsAllowed'
      BY <2>1, <2>5, IdleCall DEF DeskInv, LocksApart, ClearsAllowed
    <2> QED
      BY <2>6, <2>7, <2>8 DEF DeskInv
  <1> QED
    BY <1>1, <1>2 DEF WriteMark

(* A clear that gets through: its call ends, swaps find the row gone.      *)
LEMMA ClearCalls ==
  ASSUME TypeOK, NEW w \in Writers, NEW f \in Flights,
         call' = [v \in Writers |-> IF v = w THEN Idle
                                    ELSE IF call[v].pc = "swap"
                                    THEN [call[v] EXCEPT !.left = @ \ {f}]
                                    ELSE call[v]]
  PROVE  /\ call'[w] = Idle /\ DOMAIN call' = Writers
         /\ \A v \in Writers : Call(v, call'[v])
         /\ \A v \in Writers \ {w} :
               /\ call'[v].pc = call[v].pc
               /\ call[v].pc # "swap" => call'[v] = call[v]
               /\ call[v].pc = "swap" => call'[v].locked = call[v].locked
  <1>1. ASSUME NEW v \in Writers \ {w}, call[v].pc = "swap"
        PROVE  Call(v, call'[v]) /\ call'[v].pc = "swap" /\ call'[v].locked = call[v].locked
    <2>1. /\ DOMAIN call[v] = {"pc", "saw", "left", "locked"}
          /\ call[v].left \subseteq Flights /\ call[v].locked \subseteq Flights
      BY <1>1, CallFacts DEF TypeOK
    <2>2. call'[v] = [call[v] EXCEPT !.left = @ \ {f}]
      BY <1>1
    <2>3. /\ DOMAIN call'[v] = {"pc", "saw", "left", "locked"} /\ call'[v].pc = "swap"
          /\ call'[v].left = call[v].left \ {f} /\ call'[v].locked = call[v].locked
      BY <1>1, <2>1, <2>2
    <2> QED
      BY <2>1, <2>3 DEF Call
  <1>2. ASSUME NEW v \in Writers \ {w}, call[v].pc # "swap" PROVE call'[v] = call[v] /\ Call(v, call'[v])
    BY <1>2 DEF TypeOK
  <1>3. call'[w] = Idle /\ DOMAIN call' = Writers
    OBVIOUS
  <1> QED
    BY <1>1, <1>2, <1>3, IdleCall

LEMMA DeskClear == ASSUME DeskInv, NEW w \in Writers, WriteClear(w) PROVE DeskInv'
  <1> DEFINE f == call[w].flight
  <1>0. call[w].pc = "clear" /\ f \in Flights /\ ~Locked(f)
    BY CallFacts DEF WriteClear, DeskInv, TypeOK
  <1>1. CASE Goto(w, Idle) /\ UNCHANGED release
    BY <1>1, IdleCall, CallOnly DEF WriteClear
  <1>2. CASE ~(Goto(w, Idle) /\ UNCHANGED release)
    <2>1. /\ call'[w] = Idle /\ DOMAIN call' = Writers
          /\ \A v \in Writers : Call(v, call'[v])
          /\ \A v \in Writers \ {w} :
               /\ call'[v].pc = call[v].pc
               /\ call[v].pc # "swap" => call'[v] = call[v]
               /\ call[v].pc = "swap" => call'[v].locked = call[v].locked
      BY <1>0, <1>2, ClearCalls DEF WriteClear, DeskInv
    <2>2. /\ DOMAIN release' = Flights
          /\ release'[f] = NoRow /\ \A g \in Flights \ {f} : release'[g] = release[g]
      BY <1>0, <1>2 DEF WriteClear, DeskInv, TypeOK
    <2>3. UNCHANGED <<pic, order, known, writes, env>>
      BY DEF WriteClear
    <2> HIDE DEF f
    <2>4. TypeOK'
      BY <2>1, <2>2, <2>3 DEF DeskInv, TypeOK
    <2>8. \A v \in Writers : call[v].pc = "swap" => call[v].locked \subseteq Flights \ {f}
      BY <1>0, CallFacts DEF DeskInv, TypeOK, Locked
    <2>5. LocksHeld'
      BY <2>8, <2>1, <2>2, IdleCall DEF DeskInv, LocksHeld
    <2>6. LocksApart'
      BY <2>1, IdleCall DEF DeskInv, LocksApart
    <2>7. ClearsAllowed'
      BY <2>1, <2>3, IdleCall DEF DeskInv, ClearsAllowed
    <2> QED
      BY <2>4, <2>5, <2>6, <2>7 DEF DeskInv
  <1> QED
    BY <1>1, <1>2

LEMMA DeskEndSwap == ASSUME DeskInv, NEW w \in Writers, EndSwap(w) PROVE DeskInv'
  <1>0. call[w].pc = "swap" /\ call[w].locked \subseteq Flights /\ Goto(w, Idle)
    BY CallFacts DEF EndSwap, DeskInv, TypeOK
  <1>1. /\ DOMAIN call' = Writers
        /\ call'[w] = Idle /\ \A v \in Writers \ {w} : call'[v] = call[v]
        /\ \A v \in Writers : Call(v, call'[v])
    BY <1>0, IdleCall, CallMoves DEF DeskInv
  <1>2. /\ DOMAIN release' = Flights
        /\ \A f \in Flights : f \notin call[w].locked => release'[f] = release[f]
    BY DEF EndSwap
  <1>3. ASSUME NEW f \in call[w].locked PROVE Row(release'[f])
    <2>1. f \in Flights /\ release'[f] = Written(w, f, call[w].saw[Other(w, f)].cta)
      BY <1>0, <1>3 DEF EndSwap
    <2> QED
      BY <2>1, WrittenRow DEF DeskInv
  <1>4. UNCHANGED <<pic, order, known, env>> /\ writes' \in Nat
    BY DEF EndSwap, DeskInv, TypeOK
  <1>5. TypeOK'
    BY <1>1, <1>2, <1>3, <1>4 DEF DeskInv, TypeOK
  <1>6. LocksHeld'
    BY <1>0, <1>1, <1>2, IdleCall, CallFacts DEF DeskInv, LocksHeld, LocksApart, TypeOK
  <1>7. LocksApart' /\ ClearsAllowed'
    BY <1>1, <1>4, IdleCall DEF DeskInv, LocksApart, ClearsAllowed
  <1> QED
    BY <1>5, <1>6, <1>7 DEF DeskInv

LEMMA DeskOutside == ASSUME DeskInv, Reorder \/ FeedMoves \/ UNCHANGED vars PROVE DeskInv'
  <1>1. UNCHANGED <<release, known, writes, call, env>>
    BY DEF Reorder, FeedMoves, vars
  <1>2. pic' \in Pictures /\ order' \in Orders \cup {<< >>}
    BY DEF Reorder, FeedMoves, vars, DeskInv, TypeOK
  <1> QED
    BY <1>1, <1>2 DEF DeskInv, TypeOK, LocksHeld, LocksApart, ClearsAllowed

LEMMA DeskStep == DeskInv /\ [Next]_vars => DeskInv'
  BY DeskBegin, DeskSwaps, DeskMark, DeskClear, DeskEndSwap, DeskOutside DEF Next

LEMMA DeskAlways == Spec => []DeskInv
  BY DeskStart, DeskStep, PTL DEF Spec

(* Rows, answers and calls have their types, for any writers and flights.  *)
THEOREM TypeCorrect == Spec => []TypeOK
  <1>1. DeskInv => TypeOK
    BY DEF DeskInv
  <1> QED
    BY <1>1, DeskAlways, PTL

-----------------------------------------------------------------------------
(* Tools keep off what others hold. *)

(* What a call of its own may change: rows that were nobody's or its own.  *)
OwnRows(w) ==
    \A f \in Flights : release'[f] # release[f] => release[f] = NoRow \/ release[f].holder = w

LEMMA ToolWrites ==
  ASSUME DeskInv, NEW m \in Tools, WriteMark(m) \/ WriteClear(m) \/ EndSwap(m)
  PROVE  OwnRows(m)
  <1>0. m \in Writers /\ Call(m, call[m]) /\ DOMAIN release = Flights
    BY DEF Writers, DeskInv, TypeOK
  <1>1. ASSUME WriteMark(m) \/ WriteClear(m) PROVE OwnRows(m)
    <2>1. call[m].pc \in {"mark", "clear"}
      BY <1>1 DEF WriteMark, WriteClear
    <2>2. call[m].flight \in Flights /\ call[m].expect \in {Absent} \cup Versions
      BY <1>0, <2>1, CallFacts
    <2>3. \/ UNCHANGED release
          \/ /\ Applies(m, call[m].flight, call[m].expect)
             /\ \A g \in Flights : g # call[m].flight => release'[g] = release[g]
      BY <1>0, <1>1 DEF WriteMark, WriteClear
    <2> QED
      BY <2>2, <2>3, AppliesFacts DEF OwnRows
  <1>2. ASSUME EndSwap(m) PROVE OwnRows(m)
    <2>1. call[m].pc = "swap"
      BY <1>2 DEF EndSwap
    <2>2. \A f \in Flights : f \notin call[m].locked => release'[f] = release[f]
      BY <1>2 DEF EndSwap
    <2>3. \A f \in call[m].locked : release[f].holder = m
      BY <1>0, <2>1 DEF DeskInv, LocksHeld, HeldBy
    <2> QED
      BY <2>2, <2>3 DEF OwnRows
  <1> QED
    BY <1>1, <1>2

(* Whose call ended.                                                       *)
LEMMA EndedCall ==
  ASSUME DeskInv, Next, NEW m \in Tools, call[m] # Idle, call'[m] = Idle
  PROVE  WriteMark(m) \/ WriteClear(m) \/ EndSwap(m) \/ Victim(m)
  <1>0. m \in Writers /\ Call(m, call[m]) /\ DOMAIN call = Writers
    BY DEF Writers, DeskInv, TypeOK
  <1>1. call[m].pc # "idle" /\ Idle.pc = "idle"
    BY <1>0, CallFacts, IdleCall
  <1>2. ASSUME Reorder \/ FeedMoves PROVE FALSE
    BY <1>2 DEF Reorder, FeedMoves
  <1>3. ASSUME NEW w \in Writers, NEW f \in Flights, BeginMark(w, f) \/ BeginClear(w, f) PROVE FALSE
    <2>1. call[w] = Idle /\ \A v \in Writers \ {w} : call'[v] = call[v]
      BY <1>0, <1>3 DEF BeginMark, BeginClear, Goto, MayBegin
    <2> QED
      BY <1>0, <2>1
  <1>4. ASSUME NEW w \in Writers, NEW a \in Flights, NEW b \in Flights, BeginSwap(w, a, b) PROVE FALSE
    <2>1. call[w] = Idle /\ \A v \in Writers \ {w} : call'[v] = call[v]
      BY <1>0, <1>4 DEF BeginSwap, Goto, MayBegin
    <2> QED
      BY <1>0, <2>1
  <1>5. ASSUME NEW w \in Writers, NEW f \in Flights, SwapRow(w, f) PROVE FALSE
    <2>1. call[w].pc = "swap" /\ DOMAIN call[w] = {"pc", "saw", "left", "locked"}
      BY <1>5, CallFacts DEF SwapRow, DeskInv, TypeOK
    <2>2. call'[w].pc = "swap" /\ \A v \in Writers \ {w} : call'[v] = call[v]
      BY <1>0, <1>5, <2>1 DEF SwapRow, Goto
    <2> QED
      BY <1>0, <1>1, <2>2
  <1>6. ASSUME NEW w \in Writers \ {m}, WriteMark(w) \/ EndSwap(w) \/ Victim(w) PROVE FALSE
    BY <1>0, <1>6 DEF WriteMark, EndSwap, Victim, Goto
  <1>7. ASSUME NEW w \in Writers \ {m}, WriteClear(w) PROVE FALSE
    <2>1. call[w].flight \in Flights
      BY <1>7, CallFacts DEF WriteClear, DeskInv, TypeOK
    <2>2. call'[m].pc = call[m].pc
      BY <1>0, <1>7, <2>1, ClearCalls DEF WriteClear, Goto, DeskInv
    <2> QED
      BY <1>1, <2>2
  <1> QED
    BY <1>0, <1>2, <1>3, <1>4, <1>5, <1>6, <1>7 DEF Next

(* A tool's write never falls on a row that somebody else holds, whoever   *)
(* takes it over in between, for any number of writers and flights.        *)
THEOREM ToolsKeepOffEver == Spec => ToolsKeepOff
  <1> DEFINE Keep == \A f \in Flights, m \in Tools :
         (release'[f] # release[f] /\ call[m] # Idle /\ call'[m] = Idle) =>
             release[f] = NoRow \/ release[f].holder = m
  <1>1. ASSUME DeskInv, [Next]_vars PROVE [Keep]_vars
    <2>1. CASE UNCHANGED vars
      BY <2>1
    <2>2. CASE Next
      <3> SUFFICES ASSUME NEW f \in Flights, NEW m \in Tools,
                          release'[f] # release[f], call[m] # Idle, call'[m] = Idle
                   PROVE  release[f] = NoRow \/ release[f].holder = m
        OBVIOUS
      <3>1. CASE Victim(m)
        BY <3>1 DEF Victim
      <3>2. CASE WriteMark(m) \/ WriteClear(m) \/ EndSwap(m)
        BY <1>1, <3>2, ToolWrites DEF OwnRows
      <3> QED
        BY <1>1, <2>2, <3>1, <3>2, EndedCall
    <2> QED
      BY <1>1, <2>1, <2>2
  <1> QED
    BY <1>1, DeskAlways, PTL DEF Spec, ToolsKeepOff

-----------------------------------------------------------------------------
(* A tool replaces nothing but the write it was answered for.  A version   *)
(* tells one write from every other while its row stands.                  *)

Follows(a, r) ==
    r # NoRow /\ a.version <= r.version /\ (a.version = r.version => a.serial = r.serial)

(* A row is left as it is or written once more.                            *)
Grows(r, s) == s = r \/ (s # NoRow /\ s.version = r.version + 1)

LEMMA GrowthFollows ==
  ASSUME NEW a, a.version \in Nat, NEW r, r.version \in Nat, NEW s, Follows(a, r), Grows(r, s)
  PROVE  Follows(a, s)
  BY DEF Follows, Grows

Versioned(m) == call[m].pc \in {"mark", "clear"} /\ call[m].expect \in Versions

(* Where nothing is cleared a row only grows past what its tool was told.  *)
Uncleared(m) ==
    /\ \A n \in DOMAIN known[m] : Follows(known[m][n], release[known[m][n].flight])
    /\ Versioned(m) => Follows(call[m].expect, release[call[m].flight])

(* Where every answer arrives in time a tool knows the last version that   *)
(* it gave a row it holds, and asks for that.                              *)
Last(m, f, n) ==
    /\ n \in DOMAIN known[m] /\ known[m][n].flight = f
    /\ \A k \in DOMAIN known[m] : known[m][k].flight = f => k <= n

Timely(m) ==
    /\ \A f \in Flights : \A n \in DOMAIN known[m] :
          Last(m, f, n) /\ release[f] # NoRow /\ release[f].holder = m =>
              Follows(known[m][n], release[f])
    /\ Versioned(m) => \E n \in DOMAIN known[m] :
          /\ Last(m, call[m].flight, n)
          /\ known[m][n].version = call[m].expect.version
          /\ known[m][n].serial = call[m].expect.serial

VersionInv ==
    \A m \in Tools : /\ "clear" \notin env => Uncleared(m)
                     /\ "stray" \notin env => Timely(m)

(* The invariant says of a pending write what the property asks.           *)
LEMMA VersionTells == DeskInv /\ VersionInv => NoSilentOverwrite
  <1> SUFFICES ASSUME DeskInv, VersionInv, "stray" \notin env \/ "clear" \notin env,
                      NEW m \in Tools, call[m].pc \in {"mark", "clear"},
                      Applies(m, call[m].flight, call[m].expect),
                      release[call[m].flight] # NoRow
               PROVE  release[call[m].flight].serial = call[m].expect.serial
    BY DEF NoSilentOverwrite, ReplacesWhatItSaw
  <1> DEFINE f == call[m].flight
  <1>1. f \in Flights /\ call[m].expect \in {Absent} \cup Versions
    BY CallFacts DEF DeskInv, TypeOK, Writers
  <1>2. /\ call[m].expect \in Versions /\ release[f].version = call[m].expect.version
        /\ release[f].holder = m
    BY <1>1, AppliesFacts
  <1>3. CASE "clear" \notin env
    BY <1>2, <1>3 DEF VersionInv, Uncleared, Versioned, Follows
  <1>4. CASE "stray" \notin env
    <2>1. PICK n \in DOMAIN known[m] :
            /\ Last(m, f, n)
            /\ known[m][n].version = call[m].expect.version
            /\ known[m][n].serial = call[m].expect.serial
      BY <1>2, <1>4 DEF VersionInv, Timely, Versioned
    <2>2. Follows(known[m][n], release[f])
      BY <1>1, <1>2, <1>4, <2>1 DEF VersionInv, Timely
    <2> QED
      BY <1>2, <2>1, <2>2 DEF Follows
  <1> QED
    BY <1>3, <1>4

LEMMA VersionStart == Init => VersionInv
  <1> SUFFICES ASSUME Init, NEW m \in Tools PROVE Uncleared(m) /\ Timely(m)
    BY DEF VersionInv
  <1>1. known[m] = << >> /\ call[m] = Idle
    BY DEF Init, Writers
  <1>2. DOMAIN known[m] = {} /\ call[m].pc = "idle"
    BY <1>1, IdleCall
  <1> QED
    BY <1>2 DEF Uncleared, Timely, Versioned

LEMMA KnownTypes ==
  ASSUME TypeOK, NEW m \in Tools
  PROVE  /\ known[m] \in Seq(Answers) /\ Len(known[m]) \in Nat
         /\ \A n \in DOMAIN known[m] :
               /\ n \in 1..Len(known[m])
               /\ known[m][n].flight \in Flights /\ known[m][n].version \in Nat
  <1>1. known[m] \in Seq(Answers)
    BY DEF TypeOK
  <1>2. DOMAIN known[m] = 1..Len(known[m]) /\ \A n \in DOMAIN known[m] : known[m][n] \in Answers
    BY <1>1
  <1> QED
    BY <1>1, <1>2 DEF Answers

(* Steps that leave what a tool knows alone, and its call or end it: the   *)
(* rows may grow, and those it holds stay its own.                         *)
LEMMA VersionKept ==
  ASSUME DeskInv, VersionInv, NEW m \in Tools, env' = env, known'[m] = known[m],
         call'[m] = call[m] \/ ~Versioned(m)',
         \A f \in Flights : \/ Grows(release[f], release'[f])
                            \/ "clear" \in env /\ release'[f] = NoRow,
         \A f \in Flights : release'[f] # NoRow /\ release'[f].holder = m =>
             release'[f] = release[f] \/ (release[f] # NoRow /\ release[f].holder = m)
  PROVE  ("clear" \notin env => Uncleared(m))' /\ ("stray" \notin env => Timely(m))'
  <1>1. \A n \in DOMAIN known[m] : known[m][n].flight \in Flights /\ known[m][n].version \in Nat
    BY KnownTypes DEF DeskInv
  <1>2. \A f \in Flights : release[f].version \in Nat
    BY RowFacts DEF DeskInv
  <1>3. Versioned(m) => call[m].flight \in Flights /\ call[m].expect.version \in Nat
    BY CallFacts DEF DeskInv, TypeOK, Versioned, Versions, Writers
  <1>4. ASSUME "clear" \notin env PROVE Uncleared(m)'
    <2>1. Uncleared(m) /\ \A f \in Flights : Grows(release[f], release'[f])
      BY <1>4 DEF VersionInv
    <2>2. \A n \in DOMAIN known[m] : Follows(known[m][n], release'[known[m][n].flight])
      BY <1>1, <1>2, <2>1, GrowthFollows DEF Uncleared
    <2>3. Versioned(m) => Follows(call[m].expect, release'[call[m].flight])
      BY <1>2, <1>3, <2>1, GrowthFollows DEF Uncleared
    <2> QED
      BY <2>2, <2>3 DEF Uncleared, Versioned
  <1>5. ASSUME "stray" \notin env PROVE Timely(m)'
    <2>1. Timely(m)
      BY <1>5 DEF VersionInv
    <2>2. ASSUME NEW f \in Flights, NEW n \in DOMAIN known[m],
                 Last(m, f, n), release'[f] # NoRow, release'[f].holder = m
          PROVE  Follows(known[m][n], release'[f])
      <3>1. Grows(release[f], release'[f]) /\ release[f] # NoRow /\ release[f].holder = m
        BY <2>2
      <3>2. Follows(known[m][n], release[f])
        BY <2>1, <2>2, <3>1 DEF Timely
      <3> QED
        BY <1>1, <1>2, <3>1, <3>2, GrowthFollows
    <2>3. \A f, n : Last(m, f, n)' <=> Last(m, f, n)
      BY DEF Last
    <2> QED
      BY <2>1, <2>2, <2>3 DEF Timely, Versioned
  <1> QED
    BY <1>4, <1>5

(* A call begins, a swap goes on or fails: no row changes.                 *)
LEMMA VersionReads ==
  ASSUME DeskInv, VersionInv, NEW w \in Writers, NEW c, Goto(w, c),
         UNCHANGED <<release, known, env>>,
         c.pc \in {"mark", "clear"} /\ c.expect \in Versions /\ w \in Tools =>
            /\ c.flight \in Flights
            /\ \E n \in DOMAIN known[w] :
                 /\ known[w][n].flight = c.flight
                 /\ known[w][n].version = c.expect.version
                 /\ known[w][n].serial = c.expect.serial
                 /\ "stray" \in env \/ Last(w, c.flight, n)
  PROVE  VersionInv'
  <1> SUFFICES ASSUME NEW m \in Tools
               PROVE  ("clear" \notin env => Uncleared(m))' /\ ("stray" \notin env => Timely(m))'
    BY DEF VersionInv
  <1>0. call'[w] = c /\ \A v \in Writers \ {w} : call'[v] = call[v]
    BY DEF Goto, DeskInv, TypeOK
  <1>1. \A f \in Flights : Grows(release[f], release'[f])
    BY DEF Grows
  <1>2. CASE m # w
    BY <1>0, <1>1, <1>2, VersionKept DEF Writers
  <1>3. CASE m = w
    <2>1. CASE ~Versioned(m)'
      BY <1>1, <2>1, VersionKept
    <2>2. CASE Versioned(m)'
      <3>0. c.pc \in {"mark", "clear"} /\ c.expect \in Versions
        BY <1>0, <1>3, <2>2 DEF Versioned
      <3>1. PICK n \in DOMAIN known[m] :
                 /\ known[m][n].flight = c.flight
                 /\ known[m][n].version = c.expect.version
                 /\ known[m][n].serial = c.expect.serial
                 /\ "stray" \in env \/ Last(m, c.flight, n)
        BY <1>3, <3>0
      <3>2. ASSUME "clear" \notin env PROVE Uncleared(m)'
        <4>1. Uncleared(m) /\ Follows(known[m][n], release[known[m][n].flight])
          BY <3>2 DEF VersionInv, Uncleared
        <4>2. Follows(c.expect, release[c.flight])
          BY <3>1, <4>1 DEF Follows
        <4> QED
          BY <1>0, <1>3, <4>1, <4>2 DEF Uncleared
      <3>3. ASSUME "stray" \notin env PROVE Timely(m)'
        <4>1. \A f, k : Last(m, f, k)' <=> Last(m, f, k)
          BY DEF Last
        <4>2. Timely(m) /\ Last(m, c.flight, n)
          BY <3>1, <3>3 DEF VersionInv
        <4> QED
          BY <1>0, <1>3, <3>1, <4>1, <4>2 DEF Timely
      <3> QED
        BY <3>2, <3>3
    <2> QED
      BY <2>1, <2>2
  <1> QED
    BY <1>2, <1>3

LEMMA VersionBegin ==
  ASSUME DeskInv, VersionInv, NEW w \in Writers, NEW f \in Flights,
         BeginMark(w, f) \/ BeginClear(w, f)
  PROVE  VersionInv'
  <1>1. PICK c, e : /\ Goto(w, c) /\ c.flight = f /\ c.expect = e /\ c.pc \in {"mark", "clear"}
                    /\ w \in People \/ e = Absent \/ e \in Remembered(w, f)
    <2>1. CASE BeginMark(w, f)
      <3>1. PICK t, e : /\ e \in (IF w \in People THEN {Anything} ELSE {Absent} \cup Remembered(w, f))
                        /\ Goto(w, [pc |-> "mark", flight |-> f, cta |-> t, expect |-> e])
        BY <2>1 DEF BeginMark
      <3> DEFINE c == [pc |-> "mark", flight |-> f, cta |-> t, expect |-> e]
      <3>2. Goto(w, c) /\ c.flight = f /\ c.expect = e /\ c.pc = "mark"
        BY <3>1
      <3> HIDE DEF c
      <3> QED
        BY <3>1, <3>2
    <2>2. CASE BeginClear(w, f)
      <3>1. PICK e : /\ e \in (IF w \in People THEN {Anything} ELSE Remembered(w, f))
                     /\ Goto(w, [pc |-> "clear", flight |-> f, expect |-> e])
        BY <2>2 DEF BeginClear
      <3> DEFINE c == [pc |-> "clear", flight |-> f, expect |-> e]
      <3>2. Goto(w, c) /\ c.flight = f /\ c.expect = e /\ c.pc = "clear"
        BY <3>1
      <3> HIDE DEF c
      <3> QED
        BY <3>1, <3>2
    <2> QED
      BY <2>1, <2>2
  <1>2. UNCHANGED <<release, known, env>>
    BY DEF BeginMark, BeginClear
  <1>3. ASSUME c.expect \in Versions, w \in Tools
        PROVE  \E n \in DOMAIN known[w] :
                 /\ known[w][n].flight = c.flight
                 /\ known[w][n].version = c.expect.version
                 /\ known[w][n].serial = c.expect.serial
                 /\ "stray" \in env \/ Last(w, c.flight, n)
    <2>1. e \in Remembered(w, f)
      BY <1>1, <1>3, ExpectFacts, DeskAssumption
    <2> QED
      BY <1>1, <1>3, <2>1, RememberedVersions DEF Last, DeskInv
  <1> QED
    BY <1>1, <1>2, <1>3, VersionReads

LEMMA VersionSwaps ==
  ASSUME DeskInv, VersionInv, NEW w \in Writers,
         \/ \E a, b \in Flights : BeginSwap(w, a, b)
         \/ \E f \in Flights : SwapRow(w, f)
         \/ Victim(w)
  PROVE  VersionInv'
  <1>1. ASSUME NEW a \in Flights, NEW b \in Flights, BeginSwap(w, a, b) PROVE VersionInv'
    <2> DEFINE c == [pc |-> "swap", left |-> {a, b}, locked |-> {},
                saw |-> [f \in Flights |-> IF f \in {a, b} THEN release[f] ELSE NoRow]]
    <2>1. c.pc = "swap" /\ Goto(w, c) /\ UNCHANGED <<release, known, env>>
      BY <1>1 DEF BeginSwap
    <2> HIDE DEF c
    <2> QED
      BY <2>1, VersionReads
  <1>2. ASSUME NEW f \in Flights, SwapRow(w, f) PROVE VersionInv'
    <2> DEFINE c == [call[w] EXCEPT !.left = @ \ {f}, !.locked = IF Keeps(w, f) THEN @ \cup {f} ELSE @]
    <2>1. Goto(w, c) /\ UNCHANGED <<release, known, env>> /\ call[w].pc = "swap"
      BY <1>2 DEF SwapRow
    <2>2. DOMAIN call[w] = {"pc", "saw", "left", "locked"}
      BY <2>1, CallFacts DEF DeskInv, TypeOK
    <2>3. c.pc = "swap"
      BY <2>1, <2>2
    <2> HIDE DEF c
    <2> QED
      BY <2>1, <2>3, VersionReads
  <1>3. CASE Victim(w)
    BY <1>3, IdleCall, VersionReads DEF Victim
  <1> QED
    BY <1>1, <1>2, <1>3

LEMMA VersionClear == ASSUME DeskInv, VersionInv, NEW w \in Writers, WriteClear(w) PROVE VersionInv'
  <1> DEFINE f == call[w].flight
  <1>0. f \in Flights /\ "clear" \in env
    BY CallFacts DEF WriteClear, DeskInv, TypeOK, ClearsAllowed
  <1>1. CASE Goto(w, Idle) /\ UNCHANGED release
    BY <1>1, IdleCall, VersionReads DEF WriteClear
  <1>2. CASE ~(Goto(w, Idle) /\ UNCHANGED release)
    <2> SUFFICES ASSUME NEW m \in Tools
                 PROVE  ("clear" \notin env => Uncleared(m))' /\ ("stray" \notin env => Timely(m))'
      BY DEF VersionInv
    <2>1. /\ call'[w] = Idle
          /\ \A v \in Writers \ {w} : /\ call'[v].pc = call[v].pc
                                      /\ call[v].pc # "swap" => call'[v] = call[v]
      BY <1>0, <1>2, ClearCalls DEF WriteClear, DeskInv
    <2>2. call'[m] = call[m] \/ ~Versioned(m)'
      BY <2>1, IdleCall DEF Versioned, Writers
    <2>3. release'[f] = NoRow /\ \A g \in Flights \ {f} : release'[g] = release[g]
      BY <1>0, <1>2 DEF WriteClear, DeskInv, TypeOK
    <2>4. UNCHANGED <<known, env>>
      BY DEF WriteClear
    <2> HIDE DEF f
    <2>5. \A g \in Flights : Grows(release[g], release'[g]) \/ ("clear" \in env /\ release'[g] = NoRow)
      BY <1>0, <2>3 DEF Grows
    <2> QED
      BY <2>2, <2>3, <2>4, <2>5, VersionKept
  <1> QED
    BY <1>1, <1>2

LEMMA VersionEndSwap == ASSUME DeskInv, VersionInv, NEW w \in Writers, EndSwap(w) PROVE VersionInv'
  <1> SUFFICES ASSUME NEW m \in Tools
               PROVE  ("clear" \notin env => Uncleared(m))' /\ ("stray" \notin env => Timely(m))'
    BY DEF VersionInv
  <1>0. call[w].pc = "swap" /\ call[w].locked \subseteq Flights /\ UNCHANGED <<known, env>>
    BY CallFacts DEF EndSwap, DeskInv, TypeOK
  <1>1. call'[m] = call[m] \/ ~Versioned(m)'
    BY IdleCall DEF EndSwap, Goto, Versioned, Writers, DeskInv, TypeOK
  <1>2. \A f \in Flights : f \notin call[w].locked => release'[f] = release[f]
    BY DEF EndSwap
  <1>3. ASSUME NEW f \in call[w].locked
        PROVE  /\ release'[f] # NoRow /\ release'[f].version = release[f].version + 1
               /\ release'[f].holder = w /\ HeldBy(w, release[f])
    <2>1. f \in Flights /\ release'[f] = Written(w, f, call[w].saw[Other(w, f)].cta)
      BY <1>0, <1>3 DEF EndSwap
    <2> QED
      BY <1>0, <2>1, WrittenRow DEF DeskInv, LocksHeld
  <1>4. \A f \in Flights : Grows(release[f], release'[f])
    BY <1>2, <1>3 DEF Grows
  <1>5. \A f \in Flights : release'[f] # NoRow /\ release'[f].holder = m =>
             release'[f] = release[f] \/ (release[f] # NoRow /\ release[f].holder = m)
    BY <1>2, <1>3 DEF HeldBy
  <1> QED
    BY <1>0, <1>1, <1>4, <1>5, VersionKept

(* A tool's own write: the answer is the row as written, and the last that *)
(* the tool knows of it.                                                   *)
LEMMA VersionAnswered ==
  ASSUME DeskInv, VersionInv, NEW m \in Tools, NEW f \in Flights, NEW row, env' = env,
         Row(row), row # NoRow, row.version = release[f].version + 1,
         release'[f] = row, \A g \in Flights \ {f} : release'[g] = release[g],
         known'[m] = Append(known[m], [flight |-> f, version |-> row.version, serial |-> row.serial]),
         ~Versioned(m)'
  PROVE  ("clear" \notin env => Uncleared(m))' /\ ("stray" \notin env => Timely(m))'
  <1> DEFINE a == [flight |-> f, version |-> row.version, serial |-> row.serial]
             last == Len(known[m]) + 1
  <1>0. /\ known[m] \in Seq(Answers) /\ Len(known[m]) \in Nat
        /\ \A n \in DOMAIN known[m] :
               /\ n \in 1..Len(known[m])
               /\ known[m][n].flight \in Flights /\ known[m][n].version \in Nat
    BY KnownTypes DEF DeskInv
  <1>1. \A g \in Flights : release[g].version \in Nat
    BY RowFacts DEF DeskInv
  <1>2. a.flight = f /\ a.version = row.version /\ a.serial = row.serial /\ a \in Answers
    BY DEF Row, Answers
  <1>3. known'[m] = Append(known[m], a)
    OBVIOUS
  <1> HIDE DEF a
  <1>4. /\ DOMAIN known'[m] = 1..last /\ known'[m][last] = a
        /\ \A n \in 1..Len(known[m]) : n \in DOMAIN known[m] /\ known'[m][n] = known[m][n]
    BY <1>0, <1>2, <1>3
  <1>5. last \in Nat /\ \A n \in 1..last : n = last \/ n \in 1..Len(known[m])
    BY <1>0
  <1>6. row.version \in Nat /\ Follows(a, row)
    BY <1>2 DEF Follows, Row
  <1> HIDE DEF last
  <1>7. \A g \in Flights : Grows(release[g], release'[g])
    BY DEF Grows
  <1>8. ASSUME "clear" \notin env PROVE Uncleared(m)'
    <2>1. Uncleared(m)
      BY <1>8 DEF VersionInv
    <2>2. \A n \in 1..Len(known[m]) : Follows(known[m][n], release'[known[m][n].flight])
      BY <1>0, <1>1, <1>4, <1>7, <2>1, GrowthFollows DEF Uncleared
    <2>3. \A n \in DOMAIN known'[m] : Follows(known'[m][n], release'[known'[m][n].flight])
      BY <1>2, <1>4, <1>5, <1>6, <2>2
    <2> QED
      BY <2>3 DEF Uncleared
  <1>9. ASSUME "stray" \notin env PROVE Timely(m)'
    <2>1. Timely(m)
      BY <1>9 DEF VersionInv
    <2>2. ASSUME NEW n \in DOMAIN known'[m], Last(m, f, n)' PROVE n = last
      <3>1. last <= n
        BY <1>2, <1>4, <1>5, <2>2 DEF Last
      <3> QED
        BY <1>0, <1>4, <1>5, <2>2, <3>1 DEF last
    <2>3. ASSUME NEW g \in Flights \ {f}, NEW n \in DOMAIN known'[m], Last(m, g, n)'
          PROVE  n \in DOMAIN known[m] /\ known'[m][n] = known[m][n] /\ Last(m, g, n)
      <3>1. known'[m][n].flight = g /\ \A k \in DOMAIN known'[m] : known'[m][k].flight = g => k <= n
        BY <2>3 DEF Last
      <3>2. n \in 1..Len(known[m]) /\ n \in DOMAIN known[m] /\ known'[m][n] = known[m][n]
        BY <1>2, <1>4, <1>5, <3>1
      <3>3. ASSUME NEW k \in DOMAIN known[m], known[m][k].flight = g PROVE k <= n
        <4>1. k \in 1..Len(known[m]) /\ known'[m][k] = known[m][k] /\ k \in DOMAIN known'[m]
          BY <1>0, <1>4 DEF last
        <4> QED
          BY <3>1, <3>3, <4>1
      <3> QED
        BY <3>1, <3>2, <3>3 DEF Last
    <2>4. ASSUME NEW g \in Flights, NEW n \in DOMAIN known'[m],
                 Last(m, g, n)', release'[g] # NoRow, release'[g].holder = m
          PROVE  Follows(known'[m][n], release'[g])
      <3>1. CASE g = f
        BY <1>4, <1>6, <2>2, <2>4, <3>1
      <3>2. CASE g # f
        BY <2>1, <2>3, <2>4, <3>2 DEF Timely
      <3> QED
        BY <3>1, <3>2
    <2> QED
      BY <2>4 DEF Timely
  <1> QED
    BY <1>8, <1>9

LEMMA VersionMark == ASSUME DeskInv, VersionInv, NEW w \in Writers, WriteMark(w) PROVE VersionInv'
  <1> DEFINE f == call[w].flight
             row == Written(w, f, call[w].cta)
  <1>0. f \in Flights /\ Goto(w, Idle) /\ env' = env
    BY CallFacts DEF WriteMark, DeskInv, TypeOK
  <1>1. CASE UNCHANGED <<release, known, writes>>
    BY <1>0, <1>1, IdleCall, VersionReads
  <1>2. CASE /\ release' = [release EXCEPT ![f] = row]
             /\ Answer(w, f, row) \/ ("stray" \in env /\ UNCHANGED known)
    <2> SUFFICES ASSUME NEW m \in Tools
                 PROVE  ("clear" \notin env => Uncleared(m))' /\ ("stray" \notin env => Timely(m))'
      BY DEF VersionInv
    <2>1. /\ Row(row) /\ row # NoRow /\ row.holder = w /\ row.version = release[f].version + 1
      BY <1>0, WrittenRow DEF DeskInv
    <2>2. release'[f] = row /\ \A g \in Flights \ {f} : release'[g] = release[g]
      BY <1>0, <1>2 DEF DeskInv, TypeOK
    <2>3. m \in Writers /\ call'[w] = Idle /\ \A v \in Writers \ {w} : call'[v] = call[v]
      BY <1>0 DEF Goto, DeskInv, TypeOK, Writers
    <2>4. call'[m] = call[m] \/ ~Versioned(m)'
      BY <2>3, IdleCall DEF Versioned
    <2>5. CASE m # w
      <3>1. known'[m] = known[m]
        BY <1>2, <2>5 DEF Answer, DeskInv, TypeOK
      <3> HIDE DEF f, row
      <3>2. /\ \A g \in Flights : Grows(release[g], release'[g])
            /\ \A g \in Flights : release'[g].holder = m => release'[g] = release[g]
        BY <2>1, <2>2, <2>5 DEF Grows
      <3> QED
        BY <1>0, <2>4, <3>1, <3>2, VersionKept
    <2>6. CASE m = w /\ Answer(w, f, row)
      <3>1. known'[m] = Append(known[m], [flight |-> f, version |-> row.version, serial |-> row.serial])
        BY <2>6 DEF Answer, DeskInv, TypeOK
      <3>2. ~Versioned(m)'
        BY <2>3, <2>6, IdleCall DEF Versioned
      <3> HIDE DEF f, row
      <3> QED
        BY <1>0, <2>1, <2>2, <3>1, <3>2, VersionAnswered
    <2>7. CASE m = w /\ "stray" \in env /\ UNCHANGED known
      <3>1. ~Versioned(m)' /\ "stray" \in env'
        BY <1>0, <2>3, <2>7, IdleCall DEF Versioned
      <3> HIDE DEF f, row
      <3>2. \A g \in Flights : Grows(release[g], release'[g]) /\ release[g].version \in Nat
        BY <2>1, <2>2, RowFacts DEF Grows, DeskInv
      <3>3. \A n \in DOMAIN known[m] : known[m][n].flight \in Flights /\ known[m][n].version \in Nat
        BY KnownTypes DEF DeskInv
      <3>4. ASSUME "clear" \notin env PROVE Uncleared(m)'
        <4>1. Uncleared(m)
          BY <3>4 DEF VersionInv
        <4>2. \A n \in DOMAIN known[m] : Follows(known[m][n], release'[known[m][n].flight])
          BY <3>2, <3>3, <4>1, GrowthFollows DEF Uncleared
        <4> QED
          BY <2>7, <3>1, <4>2 DEF Uncleared
      <3> QED
        BY <1>0, <3>1, <3>4
    <2> QED
      BY <1>2, <2>5, <2>6, <2>7
  <1> QED
    BY <1>1, <1>2 DEF WriteMark

LEMMA VersionOutside ==
  ASSUME VersionInv, Reorder \/ FeedMoves \/ UNCHANGED vars
  PROVE  VersionInv'
  <1>1. UNCHANGED <<release, known, call, env>>
    BY DEF Reorder, FeedMoves, vars
  <1> QED
    BY <1>1 DEF VersionInv, Uncleared, Timely, Versioned, Last

LEMMA VersionStep == DeskInv /\ VersionInv /\ [Next]_vars => VersionInv'
  BY VersionBegin, VersionSwaps, VersionMark, VersionClear, VersionEndSwap, VersionOutside DEF Next

(* A tool replaces nothing but the write it was answered for, while nothing*)
(* is cleared or every answer arrives in time, for any number of writers   *)
(* and flights and however their calls overlap.                            *)
THEOREM NothingOverwrittenUnseen == Spec => []NoSilentOverwrite
  <1>1. Spec => []VersionInv
    BY VersionStart, VersionStep, DeskAlways, PTL DEF Spec
  <1> QED
    BY <1>1, VersionTells, DeskAlways, PTL
-----------------------------------------------------------------------------
(* Finite sets. *)

LEMMA NatLeast ==
  ASSUME NEW S, S \subseteq Nat, S # {}
  PROVE  \E n \in S : \A m \in S : n <= m
  <1> DEFINE R == OpToRel(<, Nat)
  <1>1. \A x, y \in Nat : y < x => <<y, x>> \in R
    BY Zenon DEF OpToRel
  <1>2. IsWellFoundedOn(R, Nat)
    BY NatLessThanWellFounded
  <1> HIDE DEF R
  <1>3. \E n \in S : \A m \in S : <<m, n>> \notin R
    BY <1>2, WFMin
  <1>4. \E n \in S : \A m \in S : ~(m < n)
    BY <1>1, <1>3, Zenon
  <1> QED
    BY <1>4

(* A strict order on a finite set has a first element: the one with the    *)
(* fewest before it.                                                       *)
LEMMA HasFirst ==
  ASSUME NEW S, IsFiniteSet(S), S # {}, NEW R,
         \A x \in S : <<x, x>> \notin R,
         \A x, y, z \in S : <<x, y>> \in R /\ <<y, z>> \in R => <<x, z>> \in R
  PROVE  \E x \in S : \A y \in S : <<y, x>> \notin R
  <1> DEFINE before(x) == {y \in S : <<y, x>> \in R}
             N == {Cardinality(before(x)) : x \in S}
  <1>1. ASSUME NEW x \in S PROVE IsFiniteSet(before(x)) /\ Cardinality(before(x)) \in Nat
    <2>1. IsFiniteSet(before(x))
      BY FS_Subset
    <2> QED
      BY <2>1, FS_CardinalityType
  <1> HIDE DEF before
  <1>2. N \subseteq Nat /\ N # {}
    BY <1>1
  <1>3. PICK n \in N : \A m \in N : n <= m
    <2> HIDE DEF N
    <2> QED
      BY <1>2, NatLeast
  <1>4. PICK x \in S : \A y \in S : Cardinality(before(x)) <= Cardinality(before(y))
    BY <1>3
  <1>5. ASSUME NEW y \in S, <<y, x>> \in R PROVE FALSE
    <2>1. before(y) \subseteq before(x) /\ y \in before(x) /\ y \notin before(y)
      BY <1>5 DEF before
    <2>2. Cardinality(before(y)) <= Cardinality(before(x))
      BY <1>1, <2>1, FS_Subset
    <2>3. Cardinality(before(y)) # Cardinality(before(x))
      BY <1>1, <2>1, FS_Subset
    <2> QED
      BY <1>1, <1>4, <2>2, <2>3
  <1> QED
    BY <1>5

LEMMA HasMin ==
  ASSUME NEW S, S \subseteq Int, IsFiniteSet(S), S # {}
  PROVE  \E x \in S : \A y \in S : x <= y
  <1> DEFINE R == {p \in S \X S : p[1] < p[2]}
  <1>1. \A x, y \in S : <<x, y>> \in R <=> x < y
    OBVIOUS
  <1> HIDE DEF R
  <1>2. \A x, y, z \in S : ~(x < x) /\ (x < y /\ y < z => x < z)
    OBVIOUS
  <1>3. /\ \A x \in S : <<x, x>> \notin R
        /\ \A x, y, z \in S : <<x, y>> \in R /\ <<y, z>> \in R => <<x, z>> \in R
    BY <1>1, <1>2, Zenon
  <1>4. \E x \in S : \A y \in S : <<y, x>> \notin R
    BY <1>3, HasFirst, Zenon
  <1>5. \E x \in S : \A y \in S : ~(y < x)
    BY <1>1, <1>4, Zenon
  <1> QED
    BY <1>5

LEMMA HasMax ==
  ASSUME NEW S, S \subseteq Int, IsFiniteSet(S), S # {}
  PROVE  \E x \in S : \A y \in S : y <= x
  <1> DEFINE R == {p \in S \X S : p[1] > p[2]}
  <1>1. \A x, y \in S : <<x, y>> \in R <=> x > y
    OBVIOUS
  <1> HIDE DEF R
  <1>2. \A x, y, z \in S : ~(x > x) /\ (x > y /\ y > z => x > z)
    OBVIOUS
  <1>3. /\ \A x \in S : <<x, x>> \notin R
        /\ \A x, y, z \in S : <<x, y>> \in R /\ <<y, z>> \in R => <<x, z>> \in R
    BY <1>1, <1>2, Zenon
  <1>4. \E x \in S : \A y \in S : <<y, x>> \notin R
    BY <1>3, HasFirst, Zenon
  <1>5. \E x \in S : \A y \in S : ~(y > x)
    BY <1>1, <1>4, Zenon
  <1> QED
    BY <1>5

LEMMA ShiftFinite ==
  ASSUME NEW S, IsFiniteSet(S), NEW n
  PROVE  IsFiniteSet({x + n : x \in S})
  <1> DEFINE T == {x + n : x \in S}
             f == [x \in S |-> x + n]
  <1>1. f \in Surjection(S, T)
    BY DEF Surjection
  <1> QED
    BY <1>1, FS_Surjection

(* The values of a function on a part of a finite domain.                  *)
LEMMA ValuesFinite ==
  ASSUME NEW S, IsFiniteSet(S), NEW h
  PROVE  IsFiniteSet({h[x] : x \in S})
  <1> DEFINE T == {h[x] : x \in S}
             f == [x \in S |-> h[x]]
  <1>1. f \in Surjection(S, T)
    BY DEF Surjection
  <1> QED
    BY <1>1, FS_Surjection

-----------------------------------------------------------------------------
(* The first slot. *)

LEMMA OpenBefore ==
  ASSUME NEW eta \in Int, NEW taken \in SUBSET Int, IsFiniteSet(taken), NEW gap \in Nat,
         NEW u \in Int, u >= eta, Clear(u, taken, gap)
  PROVE  \E t \in OpenSlots(eta, taken, gap) : t <= u
  <1> DEFINE all == {eta} \cup {c + gap : c \in taken}
             S == {t \in all : t >= eta /\ t <= u}
  <1>1. IsFiniteSet({c + gap : c \in taken})
    BY ShiftFinite
  <1>2. IsFiniteSet(all)
    BY <1>1, FS_Singleton, FS_Union
  <1>3. IsFiniteSet(S)
    BY <1>2, FS_Subset
  <1>4. S \subseteq Int /\ eta \in S
    OBVIOUS
  <1>5. PICK t \in S : \A x \in S : x <= t
    <2> HIDE DEF S
    <2> QED
      BY <1>3, <1>4, HasMax
  <1>6. t \in Int /\ t >= eta /\ t <= u /\ t \in all
    BY <1>4, <1>5
  <1>7. ASSUME NEW c \in taken, ~(t - c >= gap \/ c - t >= gap) PROVE FALSE
    <2>1. c \in Int /\ c + gap > t /\ t + gap > c
      BY <1>6, <1>7
    <2>2. c + gap > u
      BY <1>5, <1>6, <2>1
    <2>3. c - u >= gap
      BY <2>1, <2>2 DEF Clear
    <2> QED
      BY <1>6, <2>1, <2>3
  <1>8. Clear(t, taken, gap)
    BY <1>7 DEF Clear
  <1> QED
    BY <1>6, <1>8 DEF OpenSlots

(* The slot found is clear, not before the ETA, and no clear time is       *)
(* earlier.                                                                *)
LEMMA EarliestSlotFacts ==
  ASSUME NEW eta \in Int, NEW taken \in SUBSET Int, IsFiniteSet(taken), NEW gap \in Nat
  PROVE  /\ EarliestSlot(eta, taken, gap) \in Int
         /\ EarliestSlot(eta, taken, gap) >= eta
         /\ Clear(EarliestSlot(eta, taken, gap), taken, gap)
         /\ \A u \in Int : u >= eta /\ Clear(u, taken, gap) => EarliestSlot(eta, taken, gap) <= u
  <1> DEFINE S == OpenSlots(eta, taken, gap)
             e == EarliestSlot(eta, taken, gap)
  <1>1. \E u \in Int : u >= eta /\ Clear(u, taken, gap)
    <2>1. IsFiniteSet(taken \cup {eta}) /\ taken \cup {eta} \subseteq Int
      BY FS_AddElement
    <2>2. PICK m \in taken \cup {eta} : \A x \in taken \cup {eta} : x <= m
      <3> DEFINE T == taken \cup {eta}
      <3>1. IsFiniteSet(T) /\ T \subseteq Int /\ T # {}
        BY <2>1
      <3> HIDE DEF T
      <3>2. \E m \in T : \A x \in T : x <= m
        BY <3>1, HasMax
      <3> QED
        BY <3>2 DEF T
    <2>3. m + gap \in Int /\ m + gap >= eta /\ Clear(m + gap, taken, gap)
      BY <2>1, <2>2 DEF Clear
    <2> QED
      BY <2>3
  <1>2. S # {} /\ S \subseteq Int
    <2>1. S # {}
      BY <1>1, OpenBefore
    <2> QED
      BY <2>1 DEF OpenSlots
  <1>3. IsFiniteSet(S)
    <2> DEFINE all == {eta} \cup {c + gap : c \in taken}
    <2>1. IsFiniteSet({c + gap : c \in taken})
      BY ShiftFinite
    <2>2. IsFiniteSet(all)
      BY <2>1, FS_Singleton, FS_Union
    <2>3. S \subseteq all
      BY DEF OpenSlots
    <2> HIDE DEF S, all
    <2> QED
      BY <2>2, <2>3, FS_Subset
  <1>4. \E t \in S : \A u \in S : t <= u
    <2> HIDE DEF S
    <2> QED
      BY <1>2, <1>3, HasMin
  <1>5. e \in S /\ \A u \in S : e <= u
    BY <1>4 DEF EarliestSlot
  <1>6. e \in Int /\ e >= eta /\ Clear(e, taken, gap)
    BY <1>2, <1>5 DEF OpenSlots
  <1>7. ASSUME NEW u \in Int, u >= eta, Clear(u, taken, gap) PROVE e <= u
    <2>1. PICK t \in S : t <= u
      BY <1>7, OpenBefore
    <2> HIDE DEF e, S
    <2> QED
      BY <1>2, <1>5, <1>6, <2>1
  <1> QED
    BY <1>6, <1>7

(* Clear is symmetric, holds of fewer crossings, and of a smaller gap.     *)
LEMMA ClearSymmetric ==
  ASSUME NEW a \in Int, NEW b \in Int, NEW gap \in Nat
  PROVE  Clear(a, {b}, gap) <=> Clear(b, {a}, gap)
  BY DEF Clear

LEMMA ClearEach ==
  ASSUME NEW a, NEW taken, NEW gap
  PROVE  Clear(a, taken, gap) <=> \A c \in taken : Clear(a, {c}, gap)
  BY DEF Clear

LEMMA ClearNarrower ==
  ASSUME NEW a \in Int, NEW b \in Int, NEW gap \in Nat, NEW more \in Nat, Clear(a, {b}, gap + more)
  PROVE  Clear(a, {b}, gap)
  BY DEF Clear

-----------------------------------------------------------------------------
(* The metered schedule. *)

Picture(p) == p \in [eta : [Flights -> Int], airborne : SUBSET Flights]
Pins(z)    == z \in [Flights -> Int \cup {NoRelease}]

LeadersOf(p, z, f) == {h \in Flights : Ahead(p, z, h, f)}

SlotOf(p, z, h, f) ==
    IF z[f] # NoRelease THEN z[f]
    ELSE EarliestSlot(p.eta[f], {h[g] : g \in LeadersOf(p, z, f)}, Sep)

LEMMA AheadOrder ==
  ASSUME NEW p, Picture(p), NEW z
  PROVE  /\ \A f \in Flights : ~Ahead(p, z, f, f)
         /\ \A f, g, h \in Flights : Ahead(p, z, f, g) /\ Ahead(p, z, g, h) => Ahead(p, z, f, h)
  <1>1. \A f \in Flights : p.eta[f] \in Int /\ f \in Nat
    BY MeteringAssumption DEF Picture
  <1>2. \A f \in Flights : ~Ahead(p, z, f, f)
    BY <1>1 DEF Ahead
  <1>3. ASSUME NEW f \in Flights, NEW g \in Flights, NEW h \in Flights, Ahead(p, z, f, g), Ahead(p, z, g, h)
        PROVE  Ahead(p, z, f, h)
    <2> DEFINE x == Pinned(p, z, f)
               y == Pinned(p, z, g)
               w == Pinned(p, z, h)
    <2>1. /\ x \in BOOLEAN /\ y \in BOOLEAN /\ w \in BOOLEAN
          /\ (x /\ ~y) \/ (x = y /\ (p.eta[f] < p.eta[g] \/ (p.eta[f] = p.eta[g] /\ f < g)))
          /\ (y /\ ~w) \/ (y = w /\ (p.eta[g] < p.eta[h] \/ (p.eta[g] = p.eta[h] /\ g < h)))
      BY <1>3 DEF Ahead, Pinned
    <2> HIDE DEF x, y, w
    <2>2. (x /\ ~w) \/ (x = w /\ (p.eta[f] < p.eta[h] \/ (p.eta[f] = p.eta[h] /\ f < h)))
      BY <1>1, <2>1
    <2> QED
      BY <2>2 DEF Ahead, x, w
  <1> QED
    BY <1>2, <1>3

(* Of any flights, one has none of the others ahead.                       *)
LEMMA FirstFlight ==
  ASSUME NEW p, Picture(p), NEW z, NEW S \in SUBSET Flights, S # {}
  PROVE  \E f \in S : LeadersOf(p, z, f) \cap S = {}
  <1> DEFINE R == {q \in Flights \X Flights : Ahead(p, z, q[1], q[2])}
  <1>1. \A x, y \in Flights : <<x, y>> \in R <=> Ahead(p, z, x, y)
    OBVIOUS
  <1> HIDE DEF R
  <1>2. /\ \A x \in Flights : <<x, x>> \notin R
        /\ \A x, y, w \in Flights : <<x, y>> \in R /\ <<y, w>> \in R => <<x, w>> \in R
    BY <1>1, AheadOrder, Zenon
  <1>3. IsFiniteSet(S)
    BY MeteringAssumption, FS_Subset
  <1>4. /\ \A x \in S : <<x, x>> \notin R
        /\ \A x, y, w \in S : <<x, y>> \in R /\ <<y, w>> \in R => <<x, w>> \in R
    BY <1>2
  <1>5. \E x \in S : \A y \in S : <<y, x>> \notin R
    BY <1>3, <1>4, HasFirst, Zenon
  <1>6. \E x \in S : \A y \in S : ~Ahead(p, z, y, x)
    BY <1>1, <1>5, Zenon
  <1> QED
    BY <1>6 DEF LeadersOf

LEMMA SlotInt ==
  ASSUME NEW p, Picture(p), NEW z, Pins(z), NEW h, NEW f \in Flights,
         \A g \in LeadersOf(p, z, f) : h[g] \in Int
  PROVE  SlotOf(p, z, h, f) \in Int
  <1>1. IsFiniteSet({h[g] : g \in LeadersOf(p, z, f)})
    <2>1. IsFiniteSet(LeadersOf(p, z, f))
      BY MeteringAssumption, FS_Subset DEF LeadersOf
    <2> QED
      BY <2>1, ValuesFinite
  <1>2. {h[g] : g \in LeadersOf(p, z, f)} \in SUBSET Int
    OBVIOUS
  <1>3. p.eta[f] \in Int /\ z[f] \in Int \cup {NoRelease} /\ Sep \in Nat
    BY MeteringAssumption DEF Picture, Pins
  <1> QED
    BY <1>1, <1>2, <1>3, EarliestSlotFacts DEF SlotOf

(* A schedule that is extended by a flight has fewer left to do.           *)
LEMMA FewerLeft ==
  ASSUME NEW part \in SUBSET Flights, NEW f \in Flights \ part
  PROVE  /\ Cardinality(Flights \ part) \in Nat /\ Cardinality(Flights \ (part \cup {f})) \in Nat
         /\ Cardinality(Flights \ (part \cup {f})) < Cardinality(Flights \ part)
  <1>1. IsFiniteSet(Flights \ part) /\ Cardinality(Flights \ part) \in Nat
    BY MeteringAssumption, FS_Difference, FS_CardinalityType
  <1>2. Flights \ (part \cup {f}) = (Flights \ part) \ {f}
    OBVIOUS
  <1>3. Cardinality((Flights \ part) \ {f}) = Cardinality(Flights \ part) - 1 /\ Cardinality((Flights \ part) \ {f}) \in Nat
    BY <1>1, FS_RemoveElement, FS_CardinalityType
  <1> QED
    BY <1>1, <1>2, <1>3

(* A part of the flights that holds whoever is ahead of any of them, and   *)
(* that has a schedule.                                                    *)
Settles(p, z, part, h) ==
    /\ \A f \in part : LeadersOf(p, z, f) \subseteq part
    /\ \A f \in part : h[f] \in Int /\ h[f] = SlotOf(p, z, h, f)

(* The recursion of meter ends: there is a schedule of all the flights, as *)
(* the part that has one can be extended by the first flight outside it.   *)
LEMMA ScheduleExists ==
  ASSUME NEW p, Picture(p), NEW z, Pins(z)
  PROVE  \E h \in [Flights -> Int] : \A f \in Flights : h[f] = SlotOf(p, z, h, f)
  <1> DEFINE Parts == {part \in SUBSET Flights : \E h \in [Flights -> Int] : Settles(p, z, part, h)}
             N == {Cardinality(Flights \ part) : part \in Parts}
  <1>1. \A part \in SUBSET Flights : IsFiniteSet(Flights \ part) /\ Cardinality(Flights \ part) \in Nat
    BY MeteringAssumption, FS_Difference, FS_CardinalityType
  <1>2. {} \in Parts
    <2>1. [f \in Flights |-> 0] \in [Flights -> Int]
      OBVIOUS
    <2> QED
      BY <2>1 DEF Settles
  <1>3. PICK part \in Parts : \A other \in Parts : Cardinality(Flights \ part) <= Cardinality(Flights \ other)
    <2>1. N \subseteq Nat /\ N # {}
      BY <1>1, <1>2
    <2>2. \E n \in N : \A m \in N : n <= m
      <3> HIDE DEF N
      <3> QED
        BY <2>1, NatLeast
    <2> HIDE DEF Parts
    <2> QED
      BY <2>2
  <1>4. PICK h \in [Flights -> Int] : Settles(p, z, part, h)
    OBVIOUS
  <1>5. ASSUME Flights \ part # {} PROVE FALSE
    <2>1. PICK f \in Flights \ part : LeadersOf(p, z, f) \cap (Flights \ part) = {}
      <3> DEFINE S == Flights \ part
      <3>1. S \in SUBSET Flights /\ S # {}
        BY <1>5
      <3> HIDE DEF S
      <3>2. \E f \in S : LeadersOf(p, z, f) \cap S = {}
        BY <3>1, FirstFlight
      <3> QED
        BY <3>2 DEF S
    <2>2. LeadersOf(p, z, f) \subseteq part
      BY <2>1 DEF LeadersOf
    <2> DEFINE t == SlotOf(p, z, h, f)
               k == [h EXCEPT ![f] = t]
               more == part \cup {f}
    <2>3. t \in Int
      BY <1>4, <2>2, SlotInt
    <2> HIDE DEF t
    <2>4. k \in [Flights -> Int] /\ k[f] = t /\ \A g \in part : k[g] = h[g]
      BY <1>4, <2>3
    <2> HIDE DEF k
    <2>5. ASSUME NEW x \in more PROVE LeadersOf(p, z, x) \subseteq part /\ SlotOf(p, z, k, x) = SlotOf(p, z, h, x)
      <3>1. LeadersOf(p, z, x) \subseteq part
        BY <1>4, <2>2 DEF Settles
      <3>2. {k[g] : g \in LeadersOf(p, z, x)} = {h[g] : g \in LeadersOf(p, z, x)}
        BY <2>4, <3>1
      <3> QED
        BY <3>1, <3>2 DEF SlotOf
    <2>6. Settles(p, z, more, k)
      BY <1>4, <2>3, <2>4, <2>5 DEF Settles, t
    <2>7. more \in Parts
      BY <2>4, <2>6
    <2>8. /\ Cardinality(Flights \ part) \in Nat /\ Cardinality(Flights \ more) \in Nat
          /\ Cardinality(Flights \ more) < Cardinality(Flights \ part)
      BY FewerLeft
    <2>9. Cardinality(Flights \ part) <= Cardinality(Flights \ more)
      BY <1>3, <2>7
    <2> HIDE DEF Parts, more
    <2> QED
      BY <2>8, <2>9
  <1>6. part = Flights
    BY <1>5
  <1> QED
    BY <1>4, <1>6 DEF Settles

LEMMA MeterAutoFacts ==
  ASSUME NEW p, Picture(p), NEW z, Pins(z)
  PROVE  /\ MeterAuto(p, z) \in [Flights -> Int]
         /\ \A f \in Flights : MeterAuto(p, z)[f] = SlotOf(p, z, MeterAuto(p, z), f)
  <1> DEFINE Recursive(h) == h = [f \in Flights |->
                 IF z[f] # NoRelease THEN z[f]
                 ELSE EarliestSlot(p.eta[f], {h[g] : g \in {x \in Flights : Ahead(p, z, x, f)}}, Sep)]
  <1>1. PICK h \in [Flights -> Int] : \A f \in Flights : h[f] = SlotOf(p, z, h, f)
    BY ScheduleExists
  <1>2. Recursive(h)
    BY <1>1 DEF SlotOf, LeadersOf
  <1>3. MeterAuto(p, z) = CHOOSE k : Recursive(k)
    BY DEF MeterAuto
  <1>4. Recursive(MeterAuto(p, z))
    <2> HIDE DEF Recursive
    <2> QED
      BY <1>2, <1>3
  <1> DEFINE sched == MeterAuto(p, z)
             odd == {f \in Flights : sched[f] \notin Int}
  <1>5. \A f \in Flights : sched[f] = SlotOf(p, z, sched, f)
    BY <1>4 DEF SlotOf, LeadersOf
  <1>6. sched = [f \in Flights |-> sched[f]]
    BY <1>4
  <1> HIDE DEF sched
  <1>7. ASSUME odd # {} PROVE FALSE
    <2>1. PICK f \in odd : LeadersOf(p, z, f) \cap odd = {}
      BY <1>7, FirstFlight
    <2>2. \A g \in LeadersOf(p, z, f) : sched[g] \in Int
      BY <2>1 DEF LeadersOf
    <2> QED
      BY <1>5, <2>1, <2>2, SlotInt
  <1>8. sched \in [Flights -> Int]
    BY <1>6, <1>7
  <1> QED
    BY <1>5, <1>8 DEF sched

(* Of two flights one is ahead.                                            *)
LEMMA AheadTotal ==
  ASSUME NEW p, Picture(p), NEW z, NEW f \in Flights, NEW g \in Flights, f # g
  PROVE  Ahead(p, z, f, g) \/ Ahead(p, z, g, f)
  <1>1. p.eta[f] \in Int /\ p.eta[g] \in Int /\ f \in Nat /\ g \in Nat
    BY MeteringAssumption DEF Picture
  <1> QED
    BY <1>1 DEF Ahead, Pinned

(* meter, auto, for any traffic: a flight without a release crosses no     *)
(* earlier than it can and a separation from everybody sorted ahead of it, *)
(* at the earliest time that is so; hence any two such flights are         *)
(* a separation apart, and one nobody is near is not delayed.              *)
THEOREM MeteredEarliest ==
  ASSUME NEW p, Picture(p), NEW z, Pins(z), NEW f \in Flights, z[f] = NoRelease
  PROVE  LET sched == MeterAuto(p, z)
             ahead == {sched[g] : g \in LeadersOf(p, z, f)}
         IN  /\ sched[f] >= p.eta[f] /\ Clear(sched[f], ahead, Sep)
             /\ \A t \in Int : t >= p.eta[f] /\ Clear(t, ahead, Sep) => sched[f] <= t
             /\ \A g \in Flights \ {f} : z[g] = NoRelease => Clear(sched[f], {sched[g]}, Sep)
  <1> DEFINE sched == MeterAuto(p, z)
             ahead(x) == {sched[g] : g \in LeadersOf(p, z, x)}
  <1>1. sched \in [Flights -> Int] /\ \A x \in Flights : sched[x] = SlotOf(p, z, sched, x)
    BY MeterAutoFacts
  <1> HIDE DEF sched
  <1>2. \A x \in Flights : z[x] = NoRelease => sched[x] = EarliestSlot(p.eta[x], ahead(x), Sep)
    BY <1>1 DEF SlotOf
  <1>3. ASSUME NEW x \in Flights PROVE IsFiniteSet(ahead(x)) /\ ahead(x) \in SUBSET Int
    <2>1. IsFiniteSet(LeadersOf(p, z, x)) /\ LeadersOf(p, z, x) \subseteq Flights
      BY MeteringAssumption, FS_Subset DEF LeadersOf
    <2> QED
      BY <1>1, <2>1, ValuesFinite
  <1>4. \A x \in Flights : p.eta[x] \in Int /\ Sep \in Nat
    BY MeteringAssumption DEF Picture
  <1>5. \A x \in Flights : \A g \in LeadersOf(p, z, x) : sched[g] \in ahead(x)
    OBVIOUS
  <1> HIDE DEF ahead
  <1>6. ASSUME NEW x \in Flights, z[x] = NoRelease
        PROVE  /\ sched[x] >= p.eta[x] /\ Clear(sched[x], ahead(x), Sep)
               /\ \A t \in Int : t >= p.eta[x] /\ Clear(t, ahead(x), Sep) => sched[x] <= t
    <2>1. /\ sched[x] = EarliestSlot(p.eta[x], ahead(x), Sep) /\ p.eta[x] \in Int /\ Sep \in Nat
          /\ IsFiniteSet(ahead(x)) /\ ahead(x) \in SUBSET Int
      BY <1>2, <1>3, <1>4, <1>6
    <2> DEFINE eta == p.eta[x]
               taken == ahead(x)
    <2> HIDE DEF eta, taken
    <2>2. /\ EarliestSlot(eta, taken, Sep) >= eta /\ Clear(EarliestSlot(eta, taken, Sep), taken, Sep)
          /\ \A t \in Int : t >= eta /\ Clear(t, taken, Sep) => EarliestSlot(eta, taken, Sep) <= t
      BY <2>1, EarliestSlotFacts DEF eta, taken
    <2> QED
      BY <2>1, <2>2 DEF eta, taken
  <1>7. ASSUME NEW g \in Flights \ {f}, z[g] = NoRelease PROVE Clear(sched[f], {sched[g]}, Sep)
    <2>1. CASE Ahead(p, z, g, f)
      <3>1. sched[g] \in ahead(f)
        BY <1>5, <2>1 DEF LeadersOf
      <3> QED
        BY <1>6, <3>1, ClearEach
    <2>2. CASE Ahead(p, z, f, g)
      <3>1. sched[f] \in ahead(g)
        BY <1>5, <2>2 DEF LeadersOf
      <3>2. Clear(sched[g], {sched[f]}, Sep)
        BY <1>6, <1>7, <3>1, ClearEach
      <3> QED
        BY <1>1, <1>4, <3>2, ClearSymmetric
    <2> QED
      BY <2>1, <2>2, AheadTotal
  <1> QED
    BY <1>6, <1>7 DEF ahead, sched

-----------------------------------------------------------------------------
(* The crossing time of a flight marked ready, where the sequence is       *)
(* automatic: no earlier than it can, clear of every other flight that is  *)
(* pinned by the separation and the margin, and the earliest such time.    *)
THEOREM ReadySlotEarliest ==
  ASSUME NEW p, Picture(p), NEW z, Pins(z), NEW f \in Flights
  PROVE  /\ RdySlot(p, z, << >>, f) \in Int /\ RdySlot(p, z, << >>, f) >= p.eta[f]
         /\ \A g \in Flights \ {f} : Pinned(p, z, g) =>
               Clear(RdySlot(p, z, << >>, f), {MeterAuto(p, z)[g]}, Sep + Margin)
         /\ \A t \in Int : t >= p.eta[f]
               /\ (\A g \in Flights \ {f} : Pinned(p, z, g) => Clear(t, {MeterAuto(p, z)[g]}, Sep + Margin))
               => RdySlot(p, z, << >>, f) <= t
  <1> DEFINE sched == MeterAuto(p, z)
             taken == Committed(p, z, sched, f)
             others == {h \in Flights \ {f} : Pinned(p, z, h)}
  <1>1. sched \in [Flights -> Int]
    BY MeterAutoFacts
  <1>2. RdySlot(p, z, << >>, f) = EarliestSlot(p.eta[f], taken, Sep + Margin)
    BY DEF RdySlot, Meter
  <1> HIDE DEF sched
  <1>3. taken = {sched[g] : g \in others}
    BY DEF Committed
  <1>4. IsFiniteSet(others)
    BY MeteringAssumption, FS_Subset
  <1>5. IsFiniteSet(taken) /\ taken \in SUBSET Int
    BY <1>1, <1>3, <1>4, ValuesFinite
  <1>6. p.eta[f] \in Int /\ Sep + Margin \in Nat
    BY MeteringAssumption DEF Picture
  <1>7. /\ \A g \in Flights \ {f} : Pinned(p, z, g) => sched[g] \in taken
        /\ \A c \in taken : \E g \in Flights \ {f} : Pinned(p, z, g) /\ c = sched[g]
    BY <1>3
  <1> HIDE DEF taken, others
  <1>8. /\ EarliestSlot(p.eta[f], taken, Sep + Margin) \in Int
        /\ EarliestSlot(p.eta[f], taken, Sep + Margin) >= p.eta[f]
        /\ \A t \in Int : t >= p.eta[f] /\ Clear(t, taken, Sep + Margin) =>
              EarliestSlot(p.eta[f], taken, Sep + Margin) <= t
        /\ Clear(EarliestSlot(p.eta[f], taken, Sep + Margin), taken, Sep + Margin)
    BY <1>5, <1>6, EarliestSlotFacts
  <1>9. ASSUME NEW t \in Int,
               \A g \in Flights \ {f} : Pinned(p, z, g) => Clear(t, {sched[g]}, Sep + Margin)
        PROVE  Clear(t, taken, Sep + Margin)
    BY <1>7, <1>9, ClearEach
  <1> QED
    BY <1>2, <1>7, <1>8, <1>9, ClearEach DEF sched

-----------------------------------------------------------------------------
(* Manual metering: a chain in the controller's order. *)

BeforeIn(p, o, f) == {g \in Flights : Chained(p, o, g, f)}

(* The flight right ahead of another in the chain.                         *)
PrevIn(p, o, f) == CHOOSE g \in BeforeIn(p, o, f) : BeforeIn(p, o, g) = BeforeIn(p, o, f) \ {g}

ChainedSlot(p, z, o, h, f) ==
    IF z[f] # NoRelease THEN z[f]
    ELSE IF BeforeIn(p, o, f) = {} THEN p.eta[f]
    ELSE IF p.eta[f] >= h[PrevIn(p, o, f)] + Sep THEN p.eta[f] ELSE h[PrevIn(p, o, f)] + Sep

(* The chain is a strict total order.                                      *)
LEMMA ChainOrder ==
  ASSUME NEW p, Picture(p), NEW o \in Seq(Flights)
  PROVE  /\ \A f \in Flights : ~Chained(p, o, f, f)
         /\ \A f, g, h \in Flights : Chained(p, o, f, g) /\ Chained(p, o, g, h) => Chained(p, o, f, h)
         /\ \A f, g \in Flights : f # g => Chained(p, o, f, g) \/ Chained(p, o, g, f)
  <1> DEFINE listed == {o[n] : n \in DOMAIN o}
             place(x) == CHOOSE n \in DOMAIN o : o[n] = x
             sooner(g, f) == p.eta[g] < p.eta[f] \/ (p.eta[g] = p.eta[f] /\ g < f)
  <1>1. \A f \in Flights : p.eta[f] \in Int /\ f \in Nat
    BY MeteringAssumption DEF Picture
  <1>2. \A x \in listed : place(x) \in Nat /\ o[place(x)] = x
    <2>1. DOMAIN o \subseteq Nat
      OBVIOUS
    <2>2. ASSUME NEW x \in listed PROVE place(x) \in DOMAIN o /\ o[place(x)] = x
      OBVIOUS
    <2> HIDE DEF place
    <2> QED
      BY <2>1, <2>2
  <1>3. \A x, y \in listed : x # y => place(x) # place(y)
    <2> HIDE DEF place
    <2> QED
      BY <1>2
  <1>4. \A g, f : Chained(p, o, g, f) <=>
          \/ g \in listed /\ f \notin listed
          \/ g \in listed /\ f \in listed /\ place(g) < place(f)
          \/ {g, f} \cap listed = {} /\ sooner(g, f)
    BY DEF Chained
  <1>5. /\ \A f \in Flights : ~sooner(f, f)
        /\ \A f, g, h \in Flights : sooner(f, g) /\ sooner(g, h) => sooner(f, h)
        /\ \A f, g \in Flights : f # g => sooner(f, g) \/ sooner(g, f)
    BY <1>1
  <1> HIDE DEF listed, place, sooner
  <1>6. \A f \in Flights : ~Chained(p, o, f, f)
    BY <1>2, <1>4, <1>5
  <1>7. ASSUME NEW f \in Flights, NEW g \in Flights, NEW h \in Flights,
               Chained(p, o, f, g), Chained(p, o, g, h)
        PROVE  Chained(p, o, f, h)
    <2>1. CASE f \in listed /\ h \in listed
      <3>1. g \in listed /\ place(f) < place(g) /\ place(g) < place(h)
        BY <1>4, <1>7, <2>1
      <3> QED
        BY <1>2, <1>4, <2>1, <3>1
    <2>2. CASE f \in listed /\ h \notin listed
      BY <1>4, <2>2
    <2>3. CASE f \notin listed
      BY <1>4, <1>5, <1>7, <2>3
    <2> QED
      BY <2>1, <2>2, <2>3
  <1>8. ASSUME NEW f \in Flights, NEW g \in Flights, f # g
        PROVE  Chained(p, o, f, g) \/ Chained(p, o, g, f)
    <2>1. CASE f \in listed /\ g \in listed
      BY <1>2, <1>3, <1>4, <1>8, <2>1
    <2>2. CASE f \notin listed /\ g \notin listed
      BY <1>4, <1>5, <1>8, <2>2
    <2> QED
      BY <1>4, <2>1, <2>2
  <1> QED
    BY <1>6, <1>7, <1>8

(* Of any flights, one is first and one is last in the chain.              *)
LEMMA ChainEnds ==
  ASSUME NEW p, Picture(p), NEW o \in Seq(Flights), NEW S \in SUBSET Flights, S # {}
  PROVE  /\ \E f \in S : BeforeIn(p, o, f) \cap S = {}
         /\ \E f \in S : \A g \in S \ {f} : Chained(p, o, g, f)
  <1> DEFINE R == {q \in Flights \X Flights : Chained(p, o, q[1], q[2])}
             L == {q \in Flights \X Flights : Chained(p, o, q[2], q[1])}
  <1>1. \A x, y \in Flights : (<<x, y>> \in R <=> Chained(p, o, x, y)) /\ (<<x, y>> \in L <=> Chained(p, o, y, x))
    OBVIOUS
  <1> HIDE DEF R, L
  <1>2. /\ \A x \in S : <<x, x>> \notin R
        /\ \A x, y, w \in S : <<x, y>> \in R /\ <<y, w>> \in R => <<x, w>> \in R
    BY <1>1, ChainOrder, Zenon
  <1>3. /\ \A x \in S : <<x, x>> \notin L
        /\ \A x, y, w \in S : <<x, y>> \in L /\ <<y, w>> \in L => <<x, w>> \in L
    BY <1>1, ChainOrder, Zenon
  <1>4. IsFiniteSet(S)
    BY MeteringAssumption, FS_Subset
  <1>5. \E x \in S : \A y \in S : <<y, x>> \notin R
    BY <1>2, <1>4, HasFirst, Zenon
  <1>6. \E x \in S : \A y \in S : <<y, x>> \notin L
    BY <1>3, <1>4, HasFirst, Zenon
  <1>7. \E x \in S : \A y \in S : ~Chained(p, o, y, x)
    BY <1>1, <1>5, Zenon
  <1>8. \E x \in S : \A y \in S : ~Chained(p, o, x, y)
    BY <1>1, <1>6, Zenon
  <1> QED
    BY <1>7, <1>8, ChainOrder DEF BeforeIn

(* Whoever is not first has somebody right ahead of him.                   *)
LEMMA PrevFacts ==
  ASSUME NEW p, Picture(p), NEW o \in Seq(Flights), NEW f \in Flights, BeforeIn(p, o, f) # {}
  PROVE  /\ PrevIn(p, o, f) \in Flights /\ Chained(p, o, PrevIn(p, o, f), f)
         /\ BeforeIn(p, o, PrevIn(p, o, f)) = BeforeIn(p, o, f) \ {PrevIn(p, o, f)}
  <1> DEFINE S == BeforeIn(p, o, f)
  <1>1. S \in SUBSET Flights /\ \A g \in Flights : g \in S <=> Chained(p, o, g, f)
    BY DEF BeforeIn
  <1> HIDE DEF S
  <1>2. PICK g \in S : \A h \in S \ {g} : Chained(p, o, h, g)
    BY <1>1, ChainEnds DEF S
  <1>3. BeforeIn(p, o, g) = S \ {g}
    <2>1. ASSUME NEW h \in Flights, Chained(p, o, h, g) PROVE h \in S \ {g}
      BY <1>1, <2>1, ChainOrder
    <2> QED
      BY <1>1, <1>2, <2>1 DEF BeforeIn
  <1>4. PrevIn(p, o, f) \in S /\ BeforeIn(p, o, PrevIn(p, o, f)) = S \ {PrevIn(p, o, f)}
    BY <1>2, <1>3 DEF PrevIn, S
  <1> QED
    BY <1>1, <1>4 DEF S

LEMMA ChainedSlotInt ==
  ASSUME NEW p, Picture(p), NEW z, Pins(z), NEW o, NEW h, NEW f \in Flights,
         BeforeIn(p, o, f) # {} => h[PrevIn(p, o, f)] \in Int
  PROVE  ChainedSlot(p, z, o, h, f) \in Int
  <1>1. p.eta[f] \in Int /\ z[f] \in Int \cup {NoRelease} /\ Sep \in Nat
    BY MeteringAssumption DEF Picture, Pins
  <1> QED
    BY <1>1 DEF ChainedSlot

ChainSettles(p, z, o, part, h) ==
    /\ \A f \in part : BeforeIn(p, o, f) \subseteq part
    /\ \A f \in part : h[f] \in Int /\ h[f] = ChainedSlot(p, z, o, h, f)

(* This recursion ends, too.                                               *)
LEMMA ChainExists ==
  ASSUME NEW p, Picture(p), NEW z, Pins(z), NEW o \in Seq(Flights)
  PROVE  \E h \in [Flights -> Int] : \A f \in Flights : h[f] = ChainedSlot(p, z, o, h, f)
  <1> DEFINE Parts == {part \in SUBSET Flights : \E h \in [Flights -> Int] : ChainSettles(p, z, o, part, h)}
             N == {Cardinality(Flights \ part) : part \in Parts}
  <1>1. \A part \in SUBSET Flights : IsFiniteSet(Flights \ part) /\ Cardinality(Flights \ part) \in Nat
    BY MeteringAssumption, FS_Difference, FS_CardinalityType
  <1>0. \A S \in SUBSET Flights : S # {} => \E f \in S : BeforeIn(p, o, f) \cap S = {}
    BY ChainEnds
  <1>2. {} \in Parts
    <2>1. [f \in Flights |-> 0] \in [Flights -> Int]
      OBVIOUS
    <2> QED
      BY <2>1 DEF ChainSettles
  <1>3. PICK part \in Parts : \A other \in Parts : Cardinality(Flights \ part) <= Cardinality(Flights \ other)
    <2>1. N \subseteq Nat /\ N # {}
      BY <1>1, <1>2
    <2>2. \E n \in N : \A m \in N : n <= m
      <3> HIDE DEF N
      <3> QED
        BY <2>1, NatLeast
    <2> HIDE DEF Parts
    <2> QED
      BY <2>2
  <1>4. PICK h \in [Flights -> Int] : ChainSettles(p, z, o, part, h)
    OBVIOUS
  <1>5. ASSUME Flights \ part # {} PROVE FALSE
    <2>1. PICK f \in Flights \ part : BeforeIn(p, o, f) \cap (Flights \ part) = {}
      <3> DEFINE S == Flights \ part
      <3>1. S \in SUBSET Flights /\ S # {}
        BY <1>5
      <3> HIDE DEF S
      <3>2. \E f \in S : BeforeIn(p, o, f) \cap S = {}
        BY <1>0, <3>1, Zenon
      <3> QED
        BY <3>2 DEF S
    <2>2. BeforeIn(p, o, f) \subseteq part
      BY <2>1 DEF BeforeIn
    <2> DEFINE t == ChainedSlot(p, z, o, h, f)
               k == [h EXCEPT ![f] = t]
               more == part \cup {f}
    <2>3. t \in Int
      <3>1. BeforeIn(p, o, f) # {} => h[PrevIn(p, o, f)] \in Int
        BY PrevFacts
      <3> QED
        BY <3>1, ChainedSlotInt
    <2> HIDE DEF t
    <2>4. k \in [Flights -> Int] /\ k[f] = t /\ \A g \in part : k[g] = h[g]
      BY <1>4, <2>3
    <2> HIDE DEF k
    <2>5. ASSUME NEW x \in more
          PROVE  BeforeIn(p, o, x) \subseteq part /\ ChainedSlot(p, z, o, k, x) = ChainedSlot(p, z, o, h, x)
      <3>1. BeforeIn(p, o, x) \subseteq part
        BY <1>4, <2>2 DEF ChainSettles
      <3>2. BeforeIn(p, o, x) # {} => PrevIn(p, o, x) \in BeforeIn(p, o, x)
        BY PrevFacts DEF BeforeIn
      <3>3. BeforeIn(p, o, x) # {} => k[PrevIn(p, o, x)] = h[PrevIn(p, o, x)]
        BY <2>4, <3>1, <3>2
      <3> QED
        BY <3>1, <3>3 DEF ChainedSlot
    <2>6. ChainSettles(p, z, o, more, k)
      BY <1>4, <2>3, <2>4, <2>5 DEF ChainSettles, t
    <2>7. more \in Parts
      BY <2>4, <2>6
    <2>8. /\ Cardinality(Flights \ part) \in Nat /\ Cardinality(Flights \ more) \in Nat
          /\ Cardinality(Flights \ more) < Cardinality(Flights \ part)
      BY FewerLeft
    <2>9. Cardinality(Flights \ part) <= Cardinality(Flights \ more)
      BY <1>3, <2>7
    <2> HIDE DEF Parts, more
    <2> QED
      BY <2>8, <2>9
  <1>6. part = Flights
    BY <1>5
  <1> QED
    BY <1>4, <1>6 DEF ChainSettles

LEMMA MeterManualFacts ==
  ASSUME NEW p, Picture(p), NEW z, Pins(z), NEW o \in Seq(Flights)
  PROVE  /\ MeterManual(p, z, o) \in [Flights -> Int]
         /\ \A f \in Flights : MeterManual(p, z, o)[f] = ChainedSlot(p, z, o, MeterManual(p, z, o), f)
  <1> DEFINE Recursive(h) == h = [f \in Flights |->
                 IF z[f] # NoRelease THEN z[f]
                 ELSE IF {g \in Flights : Chained(p, o, g, f)} = {} THEN p.eta[f]
                 ELSE LET prev == CHOOSE g \in {x \in Flights : Chained(p, o, x, f)} :
                                    {x \in Flights : Chained(p, o, x, g)} = {x \in Flights : Chained(p, o, x, f)} \ {g}
                      IN  IF p.eta[f] >= h[prev] + Sep THEN p.eta[f] ELSE h[prev] + Sep]
  <1>1. PICK h \in [Flights -> Int] : \A f \in Flights : h[f] = ChainedSlot(p, z, o, h, f)
    BY ChainExists
  <1>2. Recursive(h)
    BY <1>1 DEF ChainedSlot, BeforeIn, PrevIn
  <1>3. MeterManual(p, z, o) = CHOOSE k : Recursive(k)
    BY DEF MeterManual
  <1>4. Recursive(MeterManual(p, z, o))
    <2> HIDE DEF Recursive
    <2> QED
      BY <1>2, <1>3
  <1> DEFINE sched == MeterManual(p, z, o)
             odd == {f \in Flights : sched[f] \notin Int}
  <1>5. \A f \in Flights : sched[f] = ChainedSlot(p, z, o, sched, f)
    BY <1>4 DEF ChainedSlot, BeforeIn, PrevIn
  <1>6. sched = [f \in Flights |-> sched[f]]
    BY <1>4
  <1> HIDE DEF sched
  <1>7. ASSUME odd # {} PROVE FALSE
    <2>1. PICK f \in odd : BeforeIn(p, o, f) \cap odd = {}
      BY <1>7, ChainEnds
    <2>2. BeforeIn(p, o, f) # {} => sched[PrevIn(p, o, f)] \in Int
      BY <2>1, PrevFacts DEF BeforeIn
    <2> QED
      BY <1>5, <2>1, <2>2, ChainedSlotInt
  <1>8. sched \in [Flights -> Int]
    BY <1>6, <1>7
  <1> QED
    BY <1>5, <1>8 DEF sched

(* meter, manual, for any order and any traffic: a flight without a        *)
(* release crosses no earlier than it can, a separation behind every       *)
(* flight ahead of it in the controller's order that no release parts it   *)
(* from, and no later than one of these two asks for.                      *)
THEOREM ChainedApart ==
  ASSUME NEW p, Picture(p), NEW z, Pins(z), NEW o \in Seq(Flights), NEW f \in Flights, z[f] = NoRelease
  PROVE  LET sched == MeterManual(p, z, o) IN
         /\ sched[f] >= p.eta[f]
         /\ sched[f] = p.eta[f] \/ \E g \in Flights : Chained(p, o, g, f) /\ sched[f] = sched[g] + Sep
         /\ \A g \in Flights :
               /\ Chained(p, o, g, f)
               /\ \A h \in Flights : Chained(p, o, g, h) /\ Chained(p, o, h, f) => z[h] = NoRelease
               => sched[f] >= sched[g] + Sep
  <1> DEFINE sched == MeterManual(p, z, o)
             prev(x) == PrevIn(p, o, x)
             late(g) == {x \in Flights : /\ z[x] = NoRelease /\ Chained(p, o, g, x)
                                         /\ \A h \in Flights : Chained(p, o, g, h) /\ Chained(p, o, h, x) => z[h] = NoRelease
                                         /\ ~(sched[x] >= sched[g] + Sep)}
  <1>1. /\ sched \in [Flights -> Int]
        /\ \A x \in Flights : sched[x] = ChainedSlot(p, z, o, sched, x)
    BY MeterManualFacts
  <1> HIDE DEF sched
  <1>2. \A x \in Flights : p.eta[x] \in Int /\ Sep \in Nat
    BY MeteringAssumption DEF Picture
  <1>3. ASSUME NEW x \in Flights, BeforeIn(p, o, x) # {}
        PROVE  prev(x) \in Flights /\ Chained(p, o, prev(x), x)
    BY <1>3, PrevFacts
  <1>4. ASSUME NEW x \in Flights, z[x] = NoRelease
        PROVE  /\ sched[x] >= p.eta[x]
               /\ BeforeIn(p, o, x) = {} => sched[x] = p.eta[x]
               /\ BeforeIn(p, o, x) # {} => /\ sched[x] >= sched[prev(x)] + Sep
                                            /\ sched[x] = p.eta[x] \/ sched[x] = sched[prev(x)] + Sep
    <2>1. CASE BeforeIn(p, o, x) = {}
      BY <1>1, <1>2, <1>4, <2>1 DEF ChainedSlot
    <2>2. CASE BeforeIn(p, o, x) # {}
      <3>1. sched[x] = IF p.eta[x] >= sched[prev(x)] + Sep THEN p.eta[x] ELSE sched[prev(x)] + Sep
        BY <1>1, <1>4, <2>2 DEF ChainedSlot
      <3>2. p.eta[x] \in Int /\ Sep \in Nat /\ sched[prev(x)] \in Int
        BY <1>1, <1>2, <1>3, <2>2
      <3> HIDE DEF prev
      <3> QED
        BY <2>2, <3>1, <3>2
    <2> QED
      BY <2>1, <2>2
  <1>5. ASSUME NEW g \in Flights, late(g) # {} PROVE FALSE
    <2>1. PICK x \in late(g) : BeforeIn(p, o, x) \cap late(g) = {}
      <3>1. late(g) \in SUBSET Flights
        OBVIOUS
      <3> HIDE DEF late
      <3> QED
        BY <1>5, <3>1, ChainEnds
    <2>2. /\ x \in Flights /\ z[x] = NoRelease /\ Chained(p, o, g, x) /\ ~(sched[x] >= sched[g] + Sep)
          /\ \A h \in Flights : Chained(p, o, g, h) /\ Chained(p, o, h, x) => z[h] = NoRelease
      OBVIOUS
    <2>3. BeforeIn(p, o, x) # {}
      BY <2>2 DEF BeforeIn
    <2>4. prev(x) \in Flights /\ Chained(p, o, prev(x), x) /\ sched[x] >= sched[prev(x)] + Sep
      BY <1>3, <1>4, <2>2, <2>3
    <2>5. prev(x) # g
      BY <2>2, <2>4
    <2>6. Chained(p, o, g, prev(x))
      BY <2>2, <2>3, <2>5, PrevFacts DEF BeforeIn
    <2>7. prev(x) \notin late(g)
      BY <2>1, <2>4 DEF BeforeIn
    <2>8. z[prev(x)] = NoRelease
      BY <2>2, <2>4, <2>6
    <2>9. \A h \in Flights : Chained(p, o, g, h) /\ Chained(p, o, h, prev(x)) => z[h] = NoRelease
      BY <2>2, <2>4, ChainOrder
    <2> HIDE DEF prev
    <2>10. sched[prev(x)] >= sched[g] + Sep
      BY <2>4, <2>6, <2>7, <2>8, <2>9
    <2>11. sched[x] \in Int /\ sched[g] \in Int /\ sched[prev(x)] \in Int /\ Sep \in Nat
      BY <1>1, <1>2, <2>2, <2>4
    <2> QED
      BY <2>2, <2>4, <2>10, <2>11
  <1>6. sched[f] = p.eta[f] \/ \E g \in Flights : Chained(p, o, g, f) /\ sched[f] = sched[g] + Sep
    BY <1>3, <1>4
  <1>7. ASSUME NEW g \in Flights, Chained(p, o, g, f),
               \A h \in Flights : Chained(p, o, g, h) /\ Chained(p, o, h, f) => z[h] = NoRelease
        PROVE  sched[f] >= sched[g] + Sep
    <2>1. f \notin late(g)
      BY <1>5
    <2> QED
      BY <1>7, <2>1
  <1> QED
    BY <1>4, <1>6, <1>7 DEF sched

-----------------------------------------------------------------------------
(* Releases and arrivals. *)

NoPins == [f \in Flights |-> NoRelease]

(* Releases that are clear of the arrivals do not move them: metered with  *)
(* the releases in place, an airborne flight crosses when it would cross   *)
(* without them.                                                           *)
THEOREM ArrivalsStay ==
  ASSUME NEW p, Picture(p), NEW z, Pins(z),
         \A g \in p.airborne : z[g] = NoRelease,
         \A f \in Flights, g \in p.airborne :
             z[f] # NoRelease => Clear(z[f], {MeterAuto(p, NoPins)[g]}, Sep)
  PROVE  \A g \in p.airborne : MeterAuto(p, z)[g] = MeterAuto(p, NoPins)[g]
  <1> DEFINE sched == MeterAuto(p, z)
             base == MeterAuto(p, NoPins)
             moved == {g \in p.airborne : sched[g] # base[g]}
  <1>0. Pins(NoPins) /\ p.airborne \subseteq Flights /\ Sep \in Nat
    BY MeteringAssumption DEF Pins, NoPins, Picture
  <1>1. /\ sched \in [Flights -> Int]
        /\ \A f \in Flights : sched[f] = SlotOf(p, z, sched, f)
    BY MeterAutoFacts
  <1>2. /\ base \in [Flights -> Int]
        /\ \A f \in Flights : base[f] = SlotOf(p, NoPins, base, f)
    BY <1>0, MeterAutoFacts
  <1>3. \A f \in Flights, g \in p.airborne : z[f] # NoRelease => Clear(z[f], {base[g]}, Sep)
    OBVIOUS
  <1> HIDE DEF sched, base
  <1>4. ASSUME moved # {} PROVE FALSE
    <2>1. moved \in SUBSET Flights
      BY <1>0
    <2>2. PICK g \in moved : LeadersOf(p, z, g) \cap moved = {}
      <3> HIDE DEF moved
      <3> QED
        BY <1>4, <2>1, FirstFlight
    <2> DEFINE near == {sched[h] : h \in LeadersOf(p, z, g)}
               far == {base[h] : h \in LeadersOf(p, NoPins, g)}
               eta == p.eta[g]
    <2>3. g \in p.airborne /\ g \in Flights /\ eta \in Int /\ z[g] = NoRelease
      BY <1>0, <2>1, <2>2 DEF Picture
    <2>4. sched[g] = EarliestSlot(eta, near, Sep) /\ base[g] = EarliestSlot(eta, far, Sep)
      BY <1>1, <1>2, <2>3 DEF SlotOf, NoPins
    <2>5. IsFiniteSet(near) /\ near \in SUBSET Int
      <3>1. IsFiniteSet(LeadersOf(p, z, g))
        BY MeteringAssumption, FS_Subset DEF LeadersOf
      <3>2. IsFiniteSet(near)
        BY <3>1, ValuesFinite
      <3> QED
        BY <1>1, <3>2 DEF LeadersOf
    <2>6. IsFiniteSet(far) /\ far \in SUBSET Int
      <3>1. IsFiniteSet(LeadersOf(p, NoPins, g))
        BY MeteringAssumption, FS_Subset DEF LeadersOf
      <3>2. IsFiniteSet(far)
        BY <3>1, ValuesFinite
      <3> QED
        BY <1>2, <3>2 DEF LeadersOf
    <2>7. \A h \in LeadersOf(p, NoPins, g) : h \in LeadersOf(p, z, g) /\ h \in p.airborne
      BY <1>0, <2>3 DEF LeadersOf, Ahead, Pinned, NoPins
    <2>8. \A h \in LeadersOf(p, z, g) : h \in p.airborne => h \in LeadersOf(p, NoPins, g)
      BY <1>0, <2>3 DEF LeadersOf, Ahead, Pinned, NoPins
    <2>9. \A h \in LeadersOf(p, z, g) : h \in p.airborne => sched[h] = base[h]
      BY <2>2
    <2>10. \A h \in LeadersOf(p, z, g) : h \notin p.airborne => z[h] # NoRelease /\ h \in Flights
      BY <2>3 DEF LeadersOf, Ahead, Pinned
    <2>11. \A c \in far : c \in near
      BY <2>7, <2>9
    <2>12. ASSUME NEW c \in near PROVE Clear(base[g], {c}, Sep)
      <3>1. PICK h \in LeadersOf(p, z, g) : c = sched[h]
        OBVIOUS
      <3>2. CASE h \in p.airborne
        <4>1. c \in far
          BY <2>8, <2>9, <3>1, <3>2
        <4>2. Clear(base[g], far, Sep)
          <5> HIDE DEF far, eta
          <5> QED
            BY <1>0, <2>3, <2>4, <2>6, EarliestSlotFacts
        <4> QED
          BY <4>1, <4>2, ClearEach
      <3>3. CASE h \notin p.airborne
        <4>1. z[h] # NoRelease /\ h \in Flights
          BY <2>10, <3>1, <3>3
        <4>2. c = z[h] /\ c \in Int /\ base[g] \in Int
          BY <1>1, <1>2, <2>3, <3>1, <4>1 DEF SlotOf
        <4>3. Clear(c, {base[g]}, Sep)
          BY <1>3, <2>3, <4>1, <4>2
        <4> QED
          BY <1>0, <4>2, <4>3, ClearSymmetric
      <3> QED
        BY <3>2, <3>3
    <2> HIDE DEF near, far, eta
    <2>13. Clear(base[g], near, Sep)
      BY <2>12, ClearEach
    <2>14. base[g] \in Int /\ base[g] >= eta
      BY <1>0, <2>3, <2>4, <2>6, EarliestSlotFacts
    <2>15. sched[g] <= base[g]
      BY <1>0, <2>3, <2>4, <2>5, <2>13, <2>14, EarliestSlotFacts
    <2>16. sched[g] \in Int /\ sched[g] >= eta /\ Clear(sched[g], near, Sep)
      BY <1>0, <2>3, <2>4, <2>5, EarliestSlotFacts
    <2>17. Clear(sched[g], far, Sep)
      BY <2>11, <2>16 DEF Clear
    <2>18. base[g] <= sched[g]
      BY <1>0, <2>3, <2>4, <2>6, <2>16, <2>17, EarliestSlotFacts
    <2> QED
      BY <2>2, <2>14, <2>15, <2>16, <2>18
  <1> QED
    BY <1>4 DEF sched, base

-----------------------------------------------------------------------------
(* Calls that take turns. *)

Turns == env \cap {"overlap", "set", "manual"} = {}

(* A time that is clear of every release but the flight's own.             *)
ClearOfOthers(f, t) ==
    /\ t \in Int
    /\ \A g \in Flights \ {f} : release[g] # NoRow => Clear(t, {release[g].cta}, Sep + Margin)

RowsOf(a, b) == [f \in Flights |-> IF f \in {a, b} THEN release[f] ELSE NoRow]

(* A swap still finds both rows as its statement saw them, and will have   *)
(* locked both when it ends.                                               *)
Swapping(w) ==
    \E a, b \in Flights :
        /\ a # b /\ Holds(w, a) /\ Holds(w, b)
        /\ call[w].saw = RowsOf(a, b)
        /\ call[w].left \cup call[w].locked = {a, b}

OneAtATime == \A v, w \in Writers : call[v] # Idle /\ call[w] # Idle => v = w

TurnInv ==
    Turns =>
        /\ order = << >> /\ OneAtATime
        /\ \A f \in Flights : release[f] # NoRow => ClearOfOthers(f, release[f].cta)
        /\ \A w \in Writers : call[w].pc = "mark" => ClearOfOthers(call[w].flight, call[w].cta)
        /\ \A w \in Writers : call[w].pc = "swap" => Swapping(w)

(* While the traffic stands still and departures alone are marked, what is *)
(* given out is clear of where the arrivals cross without any release.     *)
Standing == Turns /\ env \cap {"feed", "airborne"} = {}

Arrival(g) == MeterAuto(pic, NoPins)[g]

ClearOfArrivals(f, t) == \A g \in pic.airborne : f # g /\ Clear(t, {Arrival(g)}, Sep + Margin)

StandInv ==
    Standing =>
        /\ \A f \in Flights : release[f] # NoRow => ClearOfArrivals(f, release[f].cta)
        /\ \A w \in Writers : call[w].pc = "mark" => ClearOfArrivals(call[w].flight, call[w].cta)

LEMMA DeskConditions == [Next]_vars => env' = env
  BY DEF Next, Reorder, FeedMoves, BeginMark, BeginClear, SwapRow, BeginSwap, WriteMark, WriteClear, EndSwap,
         Victim, vars

LEMMA PictureFacts == ASSUME TypeOK PROVE Picture(pic) /\ pic.airborne \subseteq Flights
  BY DeskAssumption DEF TypeOK, Picture

(* Releases pin the schedule at their times.                               *)
LEMMA FrozenPins ==
  ASSUME TypeOK, \A f \in Flights : release[f] # NoRow => release[f].cta \in Int
  PROVE  /\ Pins(Frozen)
         /\ \A f \in Flights : release[f] # NoRow =>
               /\ Frozen[f] = release[f].cta /\ Frozen[f] # NoRelease
               /\ Pinned(pic, Frozen, f)
               /\ MeterAuto(pic, Frozen)[f] = release[f].cta
         /\ \A f \in Flights : release[f] = NoRow => Frozen[f] = NoRelease
  <1>1. Frozen \in [Flights -> Int \cup {NoRelease}]
    BY DEF Frozen
  <1>2. \A f \in Flights : release[f] # NoRow => Frozen[f] = release[f].cta /\ Frozen[f] # NoRelease
    BY MeteringAssumption DEF Frozen
  <1>3. \A f \in Flights : release[f] = NoRow => Frozen[f] = NoRelease
    BY DEF Frozen
  <1>4. Pins(Frozen)
    BY <1>1 DEF Pins
  <1>5. \A f \in Flights : MeterAuto(pic, Frozen)[f] = SlotOf(pic, Frozen, MeterAuto(pic, Frozen), f)
    BY <1>4, PictureFacts, MeterAutoFacts
  <1> QED
    BY <1>2, <1>3, <1>4, <1>5 DEF SlotOf, Pinned

LEMMA ArrivalsStand ==
  ASSUME TypeOK, \A f \in Flights : release[f] # NoRow => release[f].cta \in Int,
         \A f \in Flights : release[f] # NoRow => ClearOfArrivals(f, release[f].cta)
  PROVE  \A g \in pic.airborne : /\ MeterAuto(pic, Frozen)[g] = Arrival(g)
                                 /\ Arrival(g) \in Int /\ release[g] = NoRow
  <1>1. Picture(pic) /\ pic.airborne \subseteq Flights /\ Pins(Frozen) /\ Pins(NoPins) /\ Sep \in Nat /\ Margin \in Nat
    BY PictureFacts, FrozenPins, MeteringAssumption DEF Pins, NoPins
  <1>2. \A g \in pic.airborne : Arrival(g) \in Int
    BY <1>1, MeterAutoFacts DEF Arrival
  <1>3. \A g \in pic.airborne : release[g] = NoRow /\ Frozen[g] = NoRelease
    BY <1>1, FrozenPins DEF ClearOfArrivals
  <1>4. ASSUME NEW f \in Flights, NEW g \in pic.airborne, Frozen[f] # NoRelease
        PROVE  Clear(Frozen[f], {MeterAuto(pic, NoPins)[g]}, Sep)
    <2>1. release[f] # NoRow /\ Frozen[f] = release[f].cta /\ release[f].cta \in Int
      BY <1>4, FrozenPins
    <2>2. Clear(Frozen[f], {Arrival(g)}, Sep + Margin)
      BY <2>1 DEF ClearOfArrivals
    <2> QED
      BY <1>1, <1>2, <2>1, <2>2, ClearNarrower DEF Arrival
  <1>5. \A g \in pic.airborne : MeterAuto(pic, Frozen)[g] = MeterAuto(pic, NoPins)[g]
    BY <1>1, <1>3, <1>4, ArrivalsStay
  <1> QED
    BY <1>2, <1>3, <1>5 DEF Arrival

(* The time a flight marked ready is given.                                *)
LEMMA MarkedClear ==
  ASSUME TypeOK, NEW f \in Flights,
         \A g \in Flights : release[g] # NoRow => release[g].cta \in Int
  PROVE  /\ ClearOfOthers(f, RdySlot(pic, Frozen, << >>, f))
         /\ (/\ \A g \in Flights : release[g] # NoRow => ClearOfArrivals(g, release[g].cta)
             /\ f \notin pic.airborne) => ClearOfArrivals(f, RdySlot(pic, Frozen, << >>, f))
  <1> DEFINE t == RdySlot(pic, Frozen, << >>, f)
  <1>1. /\ t \in Int
        /\ \A g \in Flights \ {f} : Pinned(pic, Frozen, g) => Clear(t, {MeterAuto(pic, Frozen)[g]}, Sep + Margin)
    BY PictureFacts, FrozenPins, ReadySlotEarliest
  <1> HIDE DEF t
  <1>2. ClearOfOthers(f, t)
    BY <1>1, FrozenPins DEF ClearOfOthers
  <1>3. ASSUME \A g \in Flights : release[g] # NoRow => ClearOfArrivals(g, release[g].cta), f \notin pic.airborne
        PROVE  ClearOfArrivals(f, t)
    <2>1. \A g \in pic.airborne : g \in Flights /\ f # g /\ Pinned(pic, Frozen, g)
      BY <1>3, PictureFacts DEF Pinned
    <2>2. \A g \in pic.airborne : MeterAuto(pic, Frozen)[g] = Arrival(g)
      BY <1>3, ArrivalsStand
    <2> QED
      BY <1>1, <2>1, <2>2 DEF ClearOfArrivals
  <1> QED
    BY <1>2, <1>3 DEF t

(* A step of one call that changes no row.                                 *)
LEMMA TurnCall ==
  ASSUME DeskInv, TurnInv, StandInv, NEW w \in Writers, NEW c, Call(w, c), Goto(w, c),
         UNCHANGED <<pic, order, release, env>>,
         call[w] # Idle \/ (Turns => Busy = {}),
         Turns /\ c.pc = "mark" => ClearOfOthers(c.flight, c.cta),
         Standing /\ c.pc = "mark" => ClearOfArrivals(c.flight, c.cta),
         Turns /\ c.pc = "swap" => Swapping(w)'
  PROVE  TurnInv' /\ StandInv'
  <1>1. /\ call'[w] = c /\ \A v \in Writers \ {w} : call'[v] = call[v]
    BY CallMoves DEF DeskInv
  <1>2. ASSUME Turns, NEW v \in Writers \ {w} PROVE call[v] = Idle
    BY <1>2 DEF TurnInv, OneAtATime, Busy
  <1>3. TurnInv'
    <2> SUFFICES ASSUME Turns
                 PROVE  /\ order = << >> /\ OneAtATime'
                        /\ \A f \in Flights : release[f] # NoRow => ClearOfOthers(f, release[f].cta)
                        /\ \A v \in Writers : call'[v].pc = "mark" => ClearOfOthers(call'[v].flight, call'[v].cta)
                        /\ \A v \in Writers : call'[v].pc = "swap" => Swapping(v)'
      BY DEF TurnInv, Turns, ClearOfOthers
    <2>1. OneAtATime'
      BY <1>1, <1>2 DEF OneAtATime
    <2>2. \A v \in Writers \ {w} : call'[v].pc = "idle"
      BY <1>1, <1>2, IdleCall
    <2> QED
      BY <1>1, <2>1, <2>2 DEF TurnInv
  <1>4. StandInv'
    <2> SUFFICES ASSUME Standing
                 PROVE  /\ \A f \in Flights : release[f] # NoRow => ClearOfArrivals(f, release[f].cta)
                        /\ \A v \in Writers : call'[v].pc = "mark" => ClearOfArrivals(call'[v].flight, call'[v].cta)
      BY DEF StandInv, Standing, Turns, ClearOfArrivals, Arrival
    <2>1. \A v \in Writers \ {w} : call'[v].pc = "idle"
      BY <1>1, <1>2, IdleCall DEF Standing
    <2> QED
      BY <1>1, <2>1 DEF StandInv
  <1> QED
    BY <1>3, <1>4

LEMMA TurnBegin ==
  ASSUME DeskInv, TurnInv, StandInv, NEW w \in Writers, NEW f \in Flights, BeginMark(w, f) \/ BeginClear(w, f)
  PROVE  TurnInv' /\ StandInv'
  <1>0. w \in Tools => Remembered(w, f) \subseteq Versions
    BY RememberedVersions DEF DeskInv
  <1>1. (Turns => Busy = {}) /\ UNCHANGED <<pic, order, release, env>>
    BY DEF BeginMark, BeginClear, MayBegin, Turns
  <1>2. CASE BeginMark(w, f)
    <2>1. PICK t, e : /\ t \in {RdySlot(pic, Frozen, order, f)} \cup (IF "set" \in env THEN SetTimes ELSE {})
                      /\ e \in (IF w \in People THEN {Anything} ELSE {Absent} \cup Remembered(w, f))
                      /\ Goto(w, [pc |-> "mark", flight |-> f, cta |-> t, expect |-> e])
      BY <1>2 DEF BeginMark
    <2> DEFINE c == [pc |-> "mark", flight |-> f, cta |-> t, expect |-> e]
    <2>2. Call(w, c) /\ c.pc = "mark" /\ c.flight = f /\ c.cta = t /\ Goto(w, c)
      BY <2>1, <1>0, DeskAssumption DEF Call, Writers
    <2> HIDE DEF c
    <2>3. Turns => t = RdySlot(pic, Frozen, << >>, f) /\ \A g \in Flights : release[g] # NoRow => release[g].cta \in Int
      BY <2>1 DEF TurnInv, Turns, ClearOfOthers
    <2>4. Turns => ClearOfOthers(f, t)
      BY <2>3, MarkedClear DEF DeskInv
    <2>5. Standing => f \notin pic.airborne /\ \A g \in Flights : release[g] # NoRow => ClearOfArrivals(g, release[g].cta)
      BY <1>2 DEF StandInv, Standing, BeginMark
    <2>6. Standing => ClearOfArrivals(f, t)
      BY <2>3, <2>5, MarkedClear DEF DeskInv, Standing
    <2> QED
      BY <1>1, <2>2, <2>4, <2>6, TurnCall
  <1>3. CASE BeginClear(w, f)
    <2>1. PICK e : /\ e \in (IF w \in People THEN {Anything} ELSE Remembered(w, f))
                   /\ Goto(w, [pc |-> "clear", flight |-> f, expect |-> e])
      BY <1>3 DEF BeginClear
    <2> DEFINE c == [pc |-> "clear", flight |-> f, expect |-> e]
    <2>2. Call(w, c) /\ c.pc = "clear" /\ Goto(w, c)
      BY <2>1, <1>0, DeskAssumption DEF Call, Writers
    <2> HIDE DEF c
    <2> QED
      BY <1>1, <2>2, TurnCall
  <1> QED
    BY <1>2, <1>3

LEMMA TurnSwaps ==
  ASSUME DeskInv, TurnInv, StandInv, NEW w \in Writers,
         \/ \E a, b \in Flights : BeginSwap(w, a, b)
         \/ \E f \in Flights : SwapRow(w, f)
         \/ Victim(w)
  PROVE  TurnInv' /\ StandInv'
  <1>1. ASSUME NEW a \in Flights, NEW b \in Flights, BeginSwap(w, a, b) PROVE TurnInv' /\ StandInv'
    <2> DEFINE c == [pc |-> "swap", left |-> {a, b}, locked |-> {},
                saw |-> [f \in Flights |-> IF f \in {a, b} THEN release[f] ELSE NoRow]]
    <2>1. /\ Call(w, c) /\ c.pc = "swap" /\ c.left = {a, b} /\ c.locked = {}
          /\ c.saw = RowsOf(a, b)
      BY DEF Call, RowsOf
    <2>2. Goto(w, c) /\ UNCHANGED <<pic, order, release, env>> /\ (Turns => Busy = {})
      BY <1>1 DEF BeginSwap, MayBegin, Turns
    <2>3. a # b /\ Holds(w, a) /\ Holds(w, b)
      BY <1>1, DeskAssumption, MeteringAssumption DEF BeginSwap
    <2> HIDE DEF c
    <2>4. call'[w] = c
      BY <2>1, <2>2, CallMoves DEF DeskInv
    <2>5. RowsOf(a, b)' = RowsOf(a, b)
      BY <2>2 DEF RowsOf
    <2>6. Swapping(w)'
      BY <2>1, <2>2, <2>3, <2>4, <2>5 DEF Swapping, Holds
    <2> QED
      BY <2>1, <2>2, <2>6, TurnCall
  <1>2. ASSUME NEW f \in Flights, SwapRow(w, f) PROVE TurnInv' /\ StandInv'
    <2> DEFINE c == [call[w] EXCEPT !.left = @ \ {f}, !.locked = IF Keeps(w, f) THEN @ \cup {f} ELSE @]
    <2>1. Goto(w, c) /\ UNCHANGED <<pic, order, release, env>>
      BY <1>2 DEF SwapRow
    <2>2. call[w].pc = "swap" /\ Call(w, call[w]) /\ f \in call[w].left /\ call[w] # Idle
      BY <1>2, CallFacts DEF SwapRow, DeskInv, TypeOK
    <2>3. /\ DOMAIN call[w] = {"pc", "saw", "left", "locked"}
          /\ call[w].left \subseteq Flights /\ call[w].locked \subseteq Flights
      BY <2>2, CallFacts
    <2>4. /\ DOMAIN c = {"pc", "saw", "left", "locked"} /\ c.pc = "swap"
          /\ c.left = call[w].left \ {f} /\ c.saw = call[w].saw
          /\ c.locked = IF Keeps(w, f) THEN call[w].locked \cup {f} ELSE call[w].locked
      BY <2>2, <2>3
    <2> HIDE DEF c
    <2>5. Call(w, c)
      BY <2>3, <2>4 DEF Call
    <2>6. call'[w] = c
      BY <2>1, <2>5, CallMoves DEF DeskInv
    <2>7. Turns => Swapping(w)'
      <3>1. SUFFICES ASSUME Turns PROVE Swapping(w)'
        OBVIOUS
      <3>2. PICK a \in Flights, b \in Flights :
              /\ a # b /\ Holds(w, a) /\ Holds(w, b)
              /\ call[w].saw = RowsOf(a, b)
              /\ call[w].left \cup call[w].locked = {a, b}
        BY <2>2, <3>1 DEF TurnInv, Swapping
      <3>3. Keeps(w, f)
        BY <2>2, <3>2 DEF Keeps
      <3>4. c.left \cup c.locked = {a, b}
        BY <2>2, <2>4, <3>2, <3>3
      <3>5. RowsOf(a, b)' = RowsOf(a, b)
        BY <2>1 DEF RowsOf
      <3> QED
        BY <2>1, <2>4, <2>6, <3>2, <3>4, <3>5 DEF Swapping, Holds
    <2> QED
      BY <2>1, <2>2, <2>4, <2>5, <2>7, TurnCall
  <1>3. CASE Victim(w)
    <2>1. call[w] # Idle
      BY <1>3, IdleCall DEF Victim, WaitsFor
    <2> QED
      BY <1>3, <2>1, IdleCall, TurnCall DEF Victim
  <1> QED
    BY <1>1, <1>2, <1>3

(* A write ends the one call there is.                                     *)
LEMMA TurnWritten ==
  ASSUME DeskInv, TurnInv, StandInv, NEW w \in Writers, call[w] # Idle, call'[w] = Idle,
         \A v \in Writers \ {w} : call[v] = Idle => call'[v] = Idle,
         UNCHANGED <<pic, order, env>>,
         Turns => (\A f \in Flights : release[f] # NoRow => ClearOfOthers(f, release[f].cta))',
         Standing => \A f \in Flights : release'[f] # NoRow => ClearOfArrivals(f, release'[f].cta)
  PROVE  TurnInv' /\ StandInv'
  <1>1. ASSUME Turns PROVE \A v \in Writers : call'[v] = Idle /\ call'[v].pc = "idle"
    <2>1. \A v \in Writers \ {w} : call[v] = Idle
      BY <1>1 DEF TurnInv, OneAtATime
    <2> QED
      BY <2>1, IdleCall
  <1>2. TurnInv'
    <2> SUFFICES ASSUME Turns
                 PROVE  /\ order = << >> /\ OneAtATime'
                        /\ (\A f \in Flights : release[f] # NoRow => ClearOfOthers(f, release[f].cta))'
                        /\ (\A v \in Writers : call[v].pc = "mark" => ClearOfOthers(call[v].flight, call[v].cta))'
                        /\ \A v \in Writers : call'[v].pc = "swap" => Swapping(v)'
      BY DEF TurnInv, Turns
    <2> QED
      BY <1>1 DEF TurnInv, OneAtATime
  <1>3. StandInv'
    <2> SUFFICES ASSUME Standing
                 PROVE  /\ \A f \in Flights : release'[f] # NoRow => ClearOfArrivals(f, release'[f].cta)
                        /\ (\A v \in Writers : call[v].pc = "mark" => ClearOfArrivals(call[v].flight, call[v].cta))'
      BY DEF StandInv, Standing, Turns, ClearOfArrivals, Arrival
    <2> QED
      BY <1>1 DEF Standing
  <1> QED
    BY <1>2, <1>3

LEMMA TurnMark ==
  ASSUME DeskInv, TurnInv, StandInv, NEW w \in Writers, WriteMark(w)
  PROVE  TurnInv' /\ StandInv'
  <1> DEFINE f == call[w].flight
             t == call[w].cta
             row == Written(w, f, t)
  <1>0. call[w].pc = "mark" /\ f \in Flights /\ Goto(w, Idle) /\ UNCHANGED <<pic, order, env>> /\ call[w] # Idle
    BY CallFacts, IdleCall DEF WriteMark, DeskInv, TypeOK
  <1>1. CASE UNCHANGED release
    BY <1>0, <1>1, IdleCall, TurnCall
  <1>2. CASE release' = [release EXCEPT ![f] = row]
    <2>1. /\ release'[f] = row /\ \A g \in Flights \ {f} : release'[g] = release[g]
          /\ row.cta = t
      BY <1>0, <1>2 DEF DeskInv, TypeOK, Written
    <2>2. call'[w] = Idle /\ \A v \in Writers \ {w} : call'[v] = call[v]
      BY <1>0, IdleCall, CallMoves DEF DeskInv
    <2>3. Turns => ClearOfOthers(f, t)
      BY <1>0 DEF TurnInv
    <2>4. Standing => ClearOfArrivals(f, t)
      BY <1>0 DEF StandInv
    <2> HIDE DEF f, t, row
    <2>5. ASSUME Turns, NEW g \in Flights, release'[g] # NoRow PROVE (ClearOfOthers(g, release[g].cta))'
      <3>1. CASE g = f
        BY <2>1, <2>3, <2>5, <3>1 DEF ClearOfOthers
      <3>2. CASE g # f
        <4>1. ClearOfOthers(g, release[g].cta) /\ release'[g] = release[g]
          BY <2>1, <2>5, <3>2 DEF TurnInv
        <4>2. t \in Int /\ Clear(t, {release[g].cta}, Sep + Margin) /\ release[g].cta \in Int
          BY <2>1, <2>3, <2>5, <3>2, <4>1 DEF ClearOfOthers
        <4>3. Clear(release[g].cta, {t}, Sep + Margin)
          BY <4>2, ClearSymmetric, MeteringAssumption
        <4> QED
          BY <2>1, <4>1, <4>3 DEF ClearOfOthers
      <3> QED
        BY <3>1, <3>2
    <2>6. ASSUME Standing, NEW g \in Flights, release'[g] # NoRow PROVE ClearOfArrivals(g, release'[g].cta)
      BY <2>1, <2>4, <2>6 DEF StandInv
    <2> QED
      BY <1>0, <2>2, <2>5, <2>6, TurnWritten
  <1> QED
    BY <1>1, <1>2 DEF WriteMark

LEMMA TurnClear ==
  ASSUME DeskInv, TurnInv, StandInv, NEW w \in Writers, WriteClear(w)
  PROVE  TurnInv' /\ StandInv'
  <1> DEFINE f == call[w].flight
  <1>0. call[w].pc = "clear" /\ f \in Flights /\ UNCHANGED <<pic, order, env>> /\ call[w] # Idle
    BY CallFacts, IdleCall DEF WriteClear, DeskInv, TypeOK
  <1>1. CASE Goto(w, Idle) /\ UNCHANGED release
    BY <1>0, <1>1, IdleCall, TurnCall
  <1>2. CASE ~(Goto(w, Idle) /\ UNCHANGED release)
    <2>1. /\ call'[w] = Idle
          /\ \A v \in Writers \ {w} : call[v].pc # "swap" => call'[v] = call[v]
      BY <1>0, <1>2, ClearCalls DEF WriteClear, DeskInv
    <2>2. release'[f] = NoRow /\ \A g \in Flights \ {f} : release'[g] = release[g]
      BY <1>0, <1>2 DEF WriteClear, DeskInv, TypeOK
    <2> HIDE DEF f
    <2>3. \A g \in Flights : release'[g] # NoRow => release[g] # NoRow /\ release'[g] = release[g]
      BY <2>2
    <2>4. ASSUME Turns, NEW g \in Flights, release'[g] # NoRow PROVE (ClearOfOthers(g, release[g].cta))'
      BY <2>3, <2>4 DEF TurnInv, ClearOfOthers
    <2>5. ASSUME Standing, NEW g \in Flights, release'[g] # NoRow PROVE ClearOfArrivals(g, release'[g].cta)
      BY <2>3, <2>5 DEF StandInv
    <2>6. \A v \in Writers \ {w} : call[v] = Idle => call'[v] = Idle
      BY <2>1, IdleCall
    <2> QED
      BY <1>0, <2>1, <2>4, <2>5, <2>6, TurnWritten
  <1> QED
    BY <1>1, <1>2

LEMMA TurnEndSwap ==
  ASSUME DeskInv, TurnInv, StandInv, NEW w \in Writers, EndSwap(w)
  PROVE  TurnInv' /\ StandInv'
  <1>0. /\ call[w].pc = "swap" /\ call[w].left = {} /\ Goto(w, Idle)
        /\ UNCHANGED <<pic, order, env>> /\ call[w] # Idle
    BY IdleCall DEF EndSwap
  <1>1. call'[w] = Idle /\ \A v \in Writers \ {w} : call'[v] = call[v]
    BY <1>0, IdleCall, CallMoves DEF DeskInv
  <1>2. ASSUME Turns
        PROVE  \E a, b \in Flights :
                 /\ a # b /\ release[a] # NoRow /\ release[b] # NoRow
                 /\ release'[a].cta = release[b].cta /\ release'[b].cta = release[a].cta
                 /\ \A g \in Flights \ {a, b} : release'[g] = release[g]
    <2>1. PICK a \in Flights, b \in Flights :
            /\ a # b /\ Holds(w, a) /\ Holds(w, b)
            /\ call[w].saw = RowsOf(a, b)
            /\ call[w].left \cup call[w].locked = {a, b}
      BY <1>0, <1>2 DEF TurnInv, Swapping
    <2>2. call[w].locked = {a, b} /\ release[a] # NoRow /\ release[b] # NoRow
      BY <1>0, <2>1 DEF Holds
    <2>3. /\ call[w].saw[a] = release[a] /\ call[w].saw[b] = release[b]
          /\ \A g \in Flights : call[w].saw[g] # NoRow => g = a \/ g = b
      BY <2>1 DEF RowsOf
    <2>4. Other(w, a) = b /\ Other(w, b) = a
      BY <2>1, <2>2, <2>3 DEF Other
    <2>5. release'[a] = Written(w, a, release[b].cta) /\ release'[b] = Written(w, b, release[a].cta)
      BY <2>2, <2>3, <2>4 DEF EndSwap
    <2>6. \A g \in Flights \ {a, b} : release'[g] = release[g]
      BY <2>2 DEF EndSwap
    <2> QED
      BY <2>1, <2>2, <2>5, <2>6 DEF Written
  <1>3. ASSUME Turns, NEW g \in Flights, release'[g] # NoRow PROVE (ClearOfOthers(g, release[g].cta))'
    <2>1. PICK a \in Flights, b \in Flights :
            /\ a # b /\ release[a] # NoRow /\ release[b] # NoRow
            /\ release'[a].cta = release[b].cta /\ release'[b].cta = release[a].cta
            /\ \A h \in Flights \ {a, b} : release'[h] = release[h]
      BY <1>2, <1>3
    <2>2. \A h \in Flights : release[h] # NoRow => ClearOfOthers(h, release[h].cta)
      BY <1>3 DEF TurnInv
    <2> DEFINE before(h) == IF h = a THEN b ELSE IF h = b THEN a ELSE h
    <2>3. ASSUME NEW h \in Flights, release'[h] # NoRow
          PROVE  /\ before(h) \in Flights /\ release[before(h)] # NoRow
                 /\ release'[h].cta = release[before(h)].cta
      BY <2>1, <2>3
    <2>4. \A h \in Flights : h # g => before(h) # before(g)
      BY <2>1
    <2> HIDE DEF before
    <2>5. release'[g].cta \in Int
      BY <1>3, <2>2, <2>3 DEF ClearOfOthers
    <2>6. ASSUME NEW h \in Flights \ {g}, release'[h] # NoRow
          PROVE  Clear(release'[g].cta, {release'[h].cta}, Sep + Margin)
      BY <1>3, <2>2, <2>3, <2>4, <2>6 DEF ClearOfOthers
    <2> QED
      BY <2>5, <2>6 DEF ClearOfOthers
  <1>4. ASSUME Standing, NEW g \in Flights, release'[g] # NoRow PROVE ClearOfArrivals(g, release'[g].cta)
    <2>1. PICK a \in Flights, b \in Flights :
            /\ a # b /\ release[a] # NoRow /\ release[b] # NoRow
            /\ release'[a].cta = release[b].cta /\ release'[b].cta = release[a].cta
            /\ \A h \in Flights \ {a, b} : release'[h] = release[h]
      BY <1>2, <1>4 DEF Standing
    <2>2. \A h \in Flights : release[h] # NoRow => ClearOfArrivals(h, release[h].cta)
      BY <1>4 DEF StandInv
    <2>3. CASE g = a
      BY <2>1, <2>2, <2>3 DEF ClearOfArrivals
    <2>4. CASE g = b
      BY <2>1, <2>2, <2>4 DEF ClearOfArrivals
    <2>5. CASE g \notin {a, b}
      BY <1>4, <2>1, <2>2, <2>5
    <2> QED
      BY <2>3, <2>4, <2>5
  <1> QED
    BY <1>0, <1>1, <1>3, <1>4, TurnWritten

LEMMA TurnOutside ==
  ASSUME TurnInv, StandInv, Reorder \/ FeedMoves \/ UNCHANGED vars
  PROVE  TurnInv' /\ StandInv'
  <1>1. UNCHANGED <<release, call, env>> /\ (Turns => order' = order)
    BY DEF Reorder, FeedMoves, vars, Turns
  <1>2. TurnInv'
    <2>1. \A a, b \in Flights : RowsOf(a, b)' = RowsOf(a, b)
      BY <1>1 DEF RowsOf
    <2>2. \A w \in Writers : Swapping(w) => Swapping(w)'
      BY <1>1, <2>1 DEF Swapping, Holds
    <2> QED
      BY <1>1, <2>2 DEF TurnInv, Turns, OneAtATime, ClearOfOthers
  <1>3. Standing => pic' = pic
    BY DEF Reorder, FeedMoves, vars, Standing
  <1>4. StandInv'
    <2> SUFFICES ASSUME Standing'
                 PROVE  /\ (\A f \in Flights : release[f] # NoRow => ClearOfArrivals(f, release[f].cta))'
                        /\ (\A w \in Writers : call[w].pc = "mark" => ClearOfArrivals(call[w].flight, call[w].cta))'
      BY DEF StandInv
    <2>1. Standing /\ UNCHANGED <<release, call, pic>>
      BY <1>1, <1>3 DEF Standing, Turns
    <2> QED
      BY <2>1 DEF StandInv, ClearOfArrivals, Arrival
  <1> QED
    BY <1>2, <1>4

LEMMA TurnStart == Init => TurnInv /\ StandInv
  BY IdleCall DEF Init, TurnInv, StandInv, OneAtATime

LEMMA TurnStep == DeskInv /\ TurnInv /\ StandInv /\ [Next]_vars => TurnInv' /\ StandInv'
  BY TurnBegin, TurnSwaps, TurnMark, TurnClear, TurnEndSwap, TurnOutside DEF Next

LEMMA TurnAlways == Spec => [](TurnInv /\ StandInv)
  BY TurnStart, TurnStep, DeskAlways, PTL DEF Spec

(* Where calls take turns and the desk gives the slots out, no two releases*)
(* come closer than the separation and its margin: for any traffic, any    *)
(* rate and any number of flights and writers, however marks, clears and   *)
(* swaps follow one another while the traffic moves.                       *)
THEOREM ReleasesApartEver == Spec => []ReleasesApart
  <1>1. TurnInv => ReleasesApart
    <2> SUFFICES ASSUME TurnInv, BySlots, NEW f \in Released, NEW g \in Released, f # g
                 PROVE  Clear(release[f].cta, {release[g].cta}, Sep + Margin)
      BY DEF ReleasesApart
    <2> QED
      BY DEF TurnInv, Turns, BySlots, Released, ClearOfOthers
  <1> QED
    BY <1>1, TurnAlways, PTL

(* While the traffic stands still no gap closes under a departure: metered *)
(* again with every release in place, the arrivals cross where they did    *)
(* without any, clear of every release.                                    *)
THEOREM GapHoldsEver == Spec => []GapHolds
  <1>1. DeskInv /\ TurnInv /\ StandInv => GapHolds
    <2> SUFFICES ASSUME DeskInv, TurnInv, StandInv, Standing, NEW f \in Released, NEW g \in pic.airborne
                 PROVE  Clear(MeterAuto(pic, Frozen)[f], {MeterAuto(pic, Frozen)[g]}, Sep)
      BY DEF GapHolds, Standing, Turns, BySlots
    <2>1. /\ \A h \in Flights : release[h] # NoRow => release[h].cta \in Int
          /\ \A h \in Flights : release[h] # NoRow => ClearOfArrivals(h, release[h].cta)
      BY DEF TurnInv, StandInv, Standing, ClearOfOthers
    <2>2. f \in Flights /\ release[f] # NoRow
      BY DEF Released
    <2>3. MeterAuto(pic, Frozen)[f] = release[f].cta /\ release[f].cta \in Int
      BY <2>1, <2>2, FrozenPins DEF DeskInv
    <2>4. MeterAuto(pic, Frozen)[g] = Arrival(g) /\ Arrival(g) \in Int
      BY <2>1, ArrivalsStand DEF DeskInv
    <2>5. Clear(release[f].cta, {Arrival(g)}, Sep + Margin)
      BY <2>1, <2>2 DEF ClearOfArrivals
    <2> QED
      BY <2>3, <2>4, <2>5, ClearNarrower, MeteringAssumption
  <1> QED
    BY <1>1, TurnAlways, DeskAlways, PTL
=============================================================================
