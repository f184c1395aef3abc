----------------------------- MODULE ReleaseDesk -----------------------------
(***************************************************************************)
(* The releases of one flow constrained area (flow.fca_release), as        *)
(* controllers and external tools mark, clear and swap them                *)
(* (handlers/flow.rs, handlers/release_authority.rs, repos/flow.rs).       *)
(*                                                                         *)
(* A call reads first, releases and traffic, and writes in one statement   *)
(* of its own.  A mark or a clear is one row and one step.  A swap is one  *)
(* statement over two rows: it takes both times from the snapshot it began *)
(* with, locks row after row, looks at each row again if somebody changed  *)
(* it in between, and shows nothing before its end (READ COMMITTED).       *)
(*                                                                         *)
(* People may write anything and send no precondition, as the web client   *)
(* does.  A tool must say which version it replaces, or that there is      *)
(* none.                                                                   *)
(***************************************************************************)
EXTENDS FcaMetering

CONSTANTS
    People, Tools,   \* writers: controllers; service accounts and API keys
    Pictures,        \* pictures of the traffic
    SetTimes,        \* crossing times a controller may type in
    Orders,          \* manual sequences a controller may drag together
    WriteBound,      \* bound: rows written
    Environments     \* sets of conditions, one of which a behaviour runs with

Conditions == {"overlap",  \* calls overlap
               "stray",    \* a tool's requests are delayed or repeated, its answers get lost
               "clear",    \* releases are cleared
               "set",      \* controllers type times in
               "airborne", \* flights in the air are marked: the web client offers it for
                           \* departures only, the handler refuses nobody
               "manual",   \* controllers reorder the sequence
               "feed"}     \* the traffic moves

ASSUME DeskAssumption ==
    /\ Flights # {} /\ IsFiniteSet(People \cup Tools) /\ People \cap Tools = {}
    /\ SetTimes \subseteq Int /\ WriteBound \in Nat
    /\ Pictures \subseteq [eta : [Flights -> Int], airborne : SUBSET Flights]
    /\ \A o \in Orders : o \in Seq(Flights) /\ o # << >>
    /\ Environments \subseteq SUBSET Conditions

Writers == People \cup Tools

VARIABLES
    pic,      \* the traffic picture in the feed
    order,    \* manual_order, empty when the sequence is automatic
    release,  \* per flight: its row, or NoRow
    known,    \* per tool: the versions it was answered, the latest last
    writes,   \* number of rows written so far
    call,     \* per writer: the call under way
    env

vars == <<pic, order, release, known, writes, call, env>>

(* A row as written: its crossing time, who holds it, its version and, what*)
(* the table has not, a serial that tells one write from every other.      *)
NoRow       == [version |-> 0]
Answers     == [flight : Flights, version : Nat \ {0}, serial : Nat \ {0}]
Anything    == [kind |-> "any"]
Absent      == [kind |-> "absent"]
Versions    == [kind : {"version"}, version : Nat \ {0}, serial : Nat \ {0}]
Idle        == [pc |-> "idle"]

Frozen == [f \in Flights |-> IF release[f] = NoRow THEN NoRelease ELSE release[f].cta]

Init ==
    /\ pic \in Pictures /\ order = << >>
    /\ release = [f \in Flights |-> NoRow]
    /\ known = [m \in Tools |-> << >>]
    /\ writes = 0
    /\ call = [w \in Writers |-> Idle]
    /\ env \in Environments

Busy        == {w \in Writers : call[w] # Idle}
MayBegin(w) ==
    /\ call[w] = Idle /\ ("overlap" \in env \/ Busy = {})
    /\ writes + Cardinality(Busy) < WriteBound
Goto(w, c)  == call' = [call EXCEPT ![w] = c]

(* authorize: a tool leaves alone what a person or another tool holds.     *)
Authorized(w, f) == (w \in Tools /\ release[f] # NoRow) => release[f].holder = w

(* A tool's precondition: the version it was answered last or, delayed,    *)
(* one it was answered before; or that there is no release.                *)
Remembered(w, f) ==
    LET about == {n \in DOMAIN known[w] : known[w][n].flight = f}
        used  == IF "stray" \in env THEN about ELSE {n \in about : \A k \in about : k <= n}
    IN  {[kind |-> "version", version |-> known[w][n].version, serial |-> known[w][n].serial] : n \in used}

(* The answer to a tool's write carries the new version as its ETag.       *)
Answer(w, f, row) ==
    known' = IF w \in Tools
             THEN [known EXCEPT ![w] = Append(@, [flight |-> f, version |-> row.version, serial |-> row.serial])]
             ELSE known

Locked(f) == \E w \in Writers : call[w].pc = "swap" /\ f \in call[w].locked

-----------------------------------------------------------------------------
(* mark_release *)

BeginMark(w, f) ==
    /\ MayBegin(w) /\ Authorized(w, f)
    /\ f \in pic.airborne => "airborne" \in env
    /\ \E cta \in {RdySlot(pic, Frozen, order, f)} \cup (IF "set" \in env THEN SetTimes ELSE {}),
          expect \in (IF w \in People THEN {Anything} ELSE {Absent} \cup Remembered(w, f)) :
         Goto(w, [pc |-> "mark", flight |-> f, cta |-> cta, expect |-> expect])
    /\ UNCHANGED <<pic, order, release, known, writes, env>>

Applies_Unversioned(w, f, expect) ==   \* mutant: the version is not compared
    \/ expect = Anything
    \/ expect = Absent /\ release[f] = NoRow
    \/ /\ expect.kind = "version" /\ release[f] # NoRow
       /\ w \in Tools => release[f].holder = w

(* upsert_release, delete_release: the precondition, in the statement.     *)
Applies(w, f, expect) ==
    \/ expect = Anything
    \/ expect = Absent /\ release[f] = NoRow
    \/ /\ expect.kind = "version" /\ release[f] # NoRow
       /\ release[f].version = expect.version
       /\ w \in Tools => release[f].holder = w

(* A new row starts at version 1, a write makes it the next.               *)
Written(w, f, cta) ==
    [cta |-> cta, holder |-> w, serial |-> writes + 1,
     version |-> release[f].version + 1]

WriteMark(w) ==
    /\ call[w].pc = "mark"
    /\ LET f   == call[w].flight
           row == Written(w, f, call[w].cta)
       IN  /\ ~Locked(f)
           /\ IF Applies(w, f, call[w].expect)
              THEN /\ release' = [release EXCEPT ![f] = row]
                   /\ writes' = writes + 1
                   /\ \/ Answer(w, f, row)
                      \/ "stray" \in env /\ UNCHANGED known
              ELSE UNCHANGED <<release, known, writes>>
    /\ Goto(w, Idle)
    /\ UNCHANGED <<pic, order, env>>

-----------------------------------------------------------------------------
(* clear_release *)

BeginClear(w, f) ==
    /\ "clear" \in env
    /\ MayBegin(w) /\ Authorized(w, f)
    /\ \E expect \in (IF w \in People THEN {Anything} ELSE Remembered(w, f)) :
         Goto(w, [pc |-> "clear", flight |-> f, expect |-> expect])
    /\ UNCHANGED <<pic, order, release, known, writes, env>>

(* A swap that has yet to come to the row finds it gone.                   *)
WriteClear(w) ==
    /\ call[w].pc = "clear"
    /\ LET f == call[w].flight IN
         /\ ~Locked(f)
         /\ IF Applies(w, f, call[w].expect)
            THEN /\ release' = [release EXCEPT ![f] = NoRow]
                 /\ call' = [v \in Writers |-> IF v = w THEN Idle
                                               ELSE IF call[v].pc = "swap"
                                               THEN [call[v] EXCEPT !.left = @ \ {f}]
                                               ELSE call[v]]
            ELSE Goto(w, Idle) /\ UNCHANGED release
    /\ UNCHANGED <<pic, order, known, writes, env>>

-----------------------------------------------------------------------------
(* swap_releases *)

Holds(w, f) == release[f] # NoRow /\ (w \in Tools => release[f].holder = w)

(* The statement begins: it finds both rows, or it finds nothing to do.    *)
BeginSwap(w, a, b) ==
    /\ MayBegin(w)
    /\ a < b /\ Holds(w, a) /\ Holds(w, b)
    /\ Goto(w, [pc |-> "swap", left |-> {a, b}, locked |-> {},
                saw |-> [f \in Flights |-> IF f \in {a, b} THEN release[f] ELSE NoRow]])
    /\ UNCHANGED <<pic, order, release, known, writes, env>>

Keeps_Regardless(w, f) == release[f] # NoRow   \* mutant: a row taken over meanwhile is written

(* What a row that changed since must still satisfy.                       *)
Keeps(w, f) == Holds(w, f)

(* It comes to its next row and waits for whoever has it.                  *)
SwapRow(w, f) ==
    /\ call[w].pc = "swap" /\ f \in call[w].left
    /\ ~Locked(f)
    /\ Goto(w, [call[w] EXCEPT !.left = @ \ {f}, !.locked = IF Keeps(w, f) THEN @ \cup {f} ELSE @])
    /\ UNCHANGED <<pic, order, release, known, writes, env>>

Other(w, f) == CHOOSE g \in Flights : g # f /\ call[w].saw[g] # NoRow

EndSwap(w) ==
    /\ call[w].pc = "swap" /\ call[w].left = {}
    /\ release' = [f \in Flights |-> IF f \in call[w].locked
                                      THEN Written(w, f, call[w].saw[Other(w, f)].cta)
                                      ELSE release[f]]
    /\ writes' = IF call[w].locked = {} THEN writes ELSE writes + 1
    /\ Goto(w, Idle)
    /\ UNCHANGED <<pic, order, known, env>>

(* Two swaps that wait for each other: Postgres ends one of them.          *)
WaitsFor(w, v) == call[w].pc = "swap" /\ call[v].pc = "swap" /\ call[w].left \cap call[v].locked # {}

Victim(w) ==
    /\ \E v \in Writers \ {w} : WaitsFor(w, v) /\ WaitsFor(v, w)
    /\ Goto(w, Idle)
    /\ UNCHANGED <<pic, order, release, known, writes, env>>

-----------------------------------------------------------------------------

(* reorder_fca: a manual sequence, or none.                                *)
Reorder ==
    /\ "manual" \in env
    /\ order' \in (Orders \cup {<< >>}) \ {order}
    /\ UNCHANGED <<pic, release, known, writes, call, env>>

FeedMoves ==
    /\ "feed" \in env
    /\ pic' \in Pictures \ {pic}
    /\ UNCHANGED <<order, release, known, writes, call, env>>

Next ==
    \/ Reorder \/ FeedMoves
    \/ \E w \in Writers :
         \/ \E f \in Flights : BeginMark(w, f) \/ BeginClear(w, f) \/ SwapRow(w, f)
         \/ \E a, b \in Flights : BeginSwap(w, a, b)
         \/ WriteMark(w) \/ WriteClear(w) \/ EndSwap(w) \/ Victim(w)

Spec == Init /\ [][Next]_vars

-----------------------------------------------------------------------------
(* Properties. *)

(* Rows and calls have their columns and parameters; a crossing time is    *)
(* whatever metering makes it.                                             *)
Row(r) ==
    /\ DOMAIN r = {"cta", "holder", "version", "serial"}
    /\ r.holder \in Writers /\ r.version \in Nat \ {0} /\ r.serial \in Nat \ {0}

Call(w, c) ==
    \/ c = Idle
    \/ /\ c.pc = "mark" /\ DOMAIN c = {"pc", "flight", "cta", "expect"}
       /\ c.flight \in Flights
       /\ c.expect \in (IF w \in People THEN {Anything} ELSE {Absent} \cup Versions)
    \/ /\ c.pc = "clear" /\ DOMAIN c = {"pc", "flight", "expect"}
       /\ c.flight \in Flights
       /\ c.expect \in (IF w \in People THEN {Anything} ELSE Versions)
    \/ /\ c.pc = "swap" /\ DOMAIN c = {"pc", "saw", "left", "locked"}
       /\ c.left \subseteq Flights /\ c.locked \subseteq Flights

TypeOK ==
    /\ pic \in Pictures /\ order \in Orders \cup {<< >>} /\ env \in Environments
    /\ writes \in Nat
    /\ DOMAIN release = Flights /\ \A f \in Flights : release[f] = NoRow \/ Row(release[f])
    /\ known \in [Tools -> Seq(Answers)]
    /\ DOMAIN call = Writers /\ \A w \in Writers : Call(w, call[w])

Released == {f \in Flights : release[f] # NoRow}

(* A time given out is clear of every other: where calls take turns and    *)
(* the desk gives the slots out, no two releases are closer than the       *)
(* separation and its margin, however marks, re-marks, clears and swaps    *)
(* follow one another and the traffic moves.                               *)
BySlots == env \cap {"overlap", "set", "manual"} = {}

ReleasesApart ==
    BySlots => \A f, g \in Released : f # g =>
        Clear(release[f].cta, {release[g].cta}, Sep + Margin)

(* And while the traffic stands still a departure's time stays clear of    *)
(* the arrivals, metered again with every release in place: no gap closes  *)
(* under it (#356).                                                        *)
GapHolds ==
    (BySlots /\ env \cap {"feed", "airborne"} = {}) =>
        LET sched == MeterAuto(pic, Frozen) IN
        \A f \in Released, g \in pic.airborne : Clear(sched[f], {sched[g]}, Sep)

(* A tool's write never falls on a release that a person or another tool   *)
(* holds, whoever takes it over between the tool's check and its write.    *)
ToolsKeepOff ==
    [][\A f \in Flights, m \in Tools :
         (release'[f] # release[f] /\ call[m] # Idle /\ call'[m] = Idle) =>
             release[f] = NoRow \/ release[f].holder = m]_vars

(* A tool replaces nothing but the write it was answered for: a repeated   *)
(* or delayed request cannot replace what came after it.                   *)
ReplacesWhatItSaw ==
    \A m \in Tools :
        (call[m].pc \in {"mark", "clear"} /\ Applies(m, call[m].flight, call[m].expect)
           /\ release[call[m].flight] # NoRow) =>
            release[call[m].flight].serial = call[m].expect.serial

(* So it is while nothing is cleared or every answer arrives in time.      *)
NoSilentOverwrite == ("stray" \notin env \/ "clear" \notin env) => ReplacesWhatItSaw
=============================================================================
