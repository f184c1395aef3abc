------------------------ MODULE SectorConsolidations ------------------------
(***************************************************************************)
(* The sectors of one ARTCC that are worked at another sector's position   *)
(* (flow.sector_consolidation, repos/sector_consolidations.rs).            *)
(*                                                                         *)
(* A save or a batch is one transaction under the ARTCC's advisory lock,   *)
(* statement by statement: it resolves its target, writes the row, moves   *)
(* the sectors worked at the source.  A single release takes no lock: it   *)
(* is one DELETE that waits only for the row.                              *)
(***************************************************************************)
EXTENDS Naturals, FiniteSets, FiniteSetsExt, Functions

CONSTANTS
    Sectors,       \* one ARTCC's sectors, in the order of their ids
    Batches,       \* what a save may ask: a target, or OwnRow, per sector
    Savers,        \* calls that save, batch or release
    Arranged,      \* arrangements stored when a behaviour without saves begins
    OwnRow,        \* a sector that is not worked elsewhere
    Environments   \* sets of conditions, one of which a behaviour runs with

ASSUME SectorAssumption ==
    /\ Sectors \subseteq Nat /\ OwnRow \notin Nat
    /\ \A b \in Batches : /\ DOMAIN b # {} /\ DOMAIN b \subseteq Sectors
                          /\ \A x \in DOMAIN b : b[x] \in Sectors \cup {OwnRow}

VARIABLES
    rows,   \* the committed arrangement
    saves,  \* per saver: the call under way
    env

Arrangements == [Sectors -> Sectors \cup {OwnRow}]
Drafts       == UNION {[S -> Sectors \cup {OwnRow}] : S \in SUBSET Sectors}
NoDraft      == [x \in {} |-> OwnRow]
NoBatch      == [x \in {} |-> OwnRow]

\* The sector whose row x's airspace counts under.
RowOf(arrangement, x) == IF arrangement[x] = OwnRow THEN x ELSE arrangement[x]

InTransaction(s) == saves[s].pc \in {"release", "resolve", "upsert", "move", "commit"}

\* What the statements of s see: its own writes over what is committed.
Seen(s) == [x \in Sectors |-> IF x \in DOMAIN saves[s].draft THEN saves[s].draft[x] ELSE rows[x]]

\* Another transaction has written row x and not ended.
Locked(s, x) == \E o \in Savers \ {s} : x \in DOMAIN saves[o].draft

Write(draft, xs, value) ==
    [x \in DOMAIN draft \cup xs |-> IF x \in xs THEN value ELSE draft[x]]

IsFlat(arrangement) ==
    \A x \in Sectors :
        arrangement[x] # OwnRow => arrangement[x] # x /\ arrangement[arrangement[x]] = OwnRow

ASSUME ArrangedAssumption == Arranged \subseteq {a \in Arrangements : IsFlat(a)}

Saves == [pc : {"idle", "lock", "release", "resolve", "upsert", "move", "commit", "load", "store"},
          batch : Batches \cup {NoBatch}, todo : SUBSET Sectors,
          resolved : Sectors \cup {OwnRow}, draft : Drafts]

NoRows == [x \in Sectors |-> OwnRow]

Idle == [pc |-> "idle", batch |-> NoBatch, todo |-> {}, resolved |-> OwnRow, draft |-> NoDraft]

ConsolidationsInit ==
    /\ rows \in IF "save" \in env THEN {NoRows} ELSE Arranged
    /\ saves = [s \in Savers |-> Idle]

------------------------------------------------------------------------------
(* consolidate, apply_batch *)

\* A self-reference is refused before the transaction.
NoSelfReference(b) == \A x \in DOMAIN b : b[x] # x

BeginBatch(s) ==
    /\ saves[s].pc = "idle"
    /\ \E b \in Batches :
          /\ NoSelfReference(b)
          /\ saves' = [saves EXCEPT ![s] = [Idle EXCEPT !.pc = "lock", !.batch = b]]
    /\ UNCHANGED <<rows, env>>

LockFree_Always(s) == TRUE    \* mutant: the writes of one ARTCC are not serialised

LockFree(s) == \A o \in Savers \ {s} : ~InTransaction(o)

AdvisoryLock(s) ==
    /\ saves[s].pc = "lock"
    /\ LockFree(s)
    /\ saves' = [saves EXCEPT ![s].pc = "release"]
    /\ UNCHANGED <<rows, env>>

ToSave(b) == {x \in DOMAIN b : b[x] # OwnRow}

\* release_in: every release of the batch in one statement, before the saves.
ReleaseIn(s) ==
    LET deleted == {x \in DOMAIN saves[s].batch \ ToSave(saves[s].batch) : rows[x] # OwnRow}
        todo == ToSave(saves[s].batch)
    IN  /\ saves[s].pc = "release"
        /\ \A x \in deleted : ~Locked(s, x)
        /\ saves' = [saves EXCEPT ![s].draft = Write(@, deleted, OwnRow),
                                  ![s].todo = todo,
                                  ![s].pc = IF todo = {} THEN "commit" ELSE "resolve"]
        /\ UNCHANGED <<rows, env>>

Source(s) == Min(saves[s].todo)

Resolved(s) == RowOf(Seen(s), saves[s].batch[Source(s)])

\* A target that is worked at the source would make a loop: nothing is written.
Resolve(s) ==
    /\ saves[s].pc = "resolve"
    /\ saves' = IF Resolved(s) = Source(s)
                THEN [saves EXCEPT ![s] = Idle]
                ELSE [saves EXCEPT ![s].resolved = Resolved(s), ![s].pc = "upsert"]
    /\ UNCHANGED <<rows, env>>

Upsert(s) ==
    /\ saves[s].pc = "upsert"
    /\ ~Locked(s, Source(s))
    /\ saves' = [saves EXCEPT ![s].draft = Write(@, {Source(s)}, saves[s].resolved), ![s].pc = "move"]
    /\ UNCHANGED <<rows, env>>

WorkedAt_Nobody(s) == {}    \* mutant: the sectors worked at the source stay behind

WorkedAt(s) == {x \in Sectors : Seen(s)[x] = Source(s)}

Move(s) ==
    LET todo == saves[s].todo \ {Source(s)}
    IN  /\ saves[s].pc = "move"
        /\ \A x \in WorkedAt(s) : ~Locked(s, x)
        /\ saves' = [saves EXCEPT ![s].draft = Write(@, WorkedAt(s), saves[s].resolved),
                                  ![s].todo = todo,
                                  ![s].pc = IF todo = {} THEN "commit" ELSE "resolve"]
        /\ UNCHANGED <<rows, env>>

Commit(s) ==
    /\ saves[s].pc = "commit"
    /\ rows' = Seen(s)
    /\ saves' = [saves EXCEPT ![s].draft = NoDraft, ![s].pc = "load"]
    /\ UNCHANGED env

\* release: one statement of its own.  A row nobody has committed is not seen.
Release(s) ==
    /\ "release" \in env
    /\ saves[s].pc = "idle"
    /\ \E x \in Sectors :
          /\ rows[x] # OwnRow => ~Locked(s, x)
          /\ rows' = [rows EXCEPT ![x] = OwnRow]
    /\ saves' = [saves EXCEPT ![s] = [Idle EXCEPT !.pc = "load"]]
    /\ UNCHANGED env

\* A statement fails, or the commit does: the transaction is rolled back and
\* the call answers 500.
Rollback(s) ==
    /\ "fail" \in env
    /\ InTransaction(s)
    /\ saves' = [saves EXCEPT ![s] = Idle]
    /\ UNCHANGED <<rows, env>>

------------------------------------------------------------------------------
(* Properties of the arrangement. *)

(* A sector that others are worked at is worked at itself: no chain and no *)
(* loop, whatever saves, batches and releases overlap (the comment of      *)
(* `consolidate`: "two concurrent saves can't build a loop between them"). *)
Flat == IsFlat(rows)

(* A batch lands whole: when it commits, each sector it released has its   *)
(* own row, and each one it saved is counted in the row of the sector it   *)
(* was to be worked at, whatever its other entries moved before or after.  *)
(* There is one exception in the code: a target that was worked elsewhere  *)
(* and that a later entry of the batch moves leaves behind what was saved  *)
(* to it before.  A single release that overlaps the batch may undo a part *)
(* of it.                                                                  *)
BatchLands ==
    [][\A s \in Savers :
          LET b == saves[s].batch IN
          (saves[s].pc = "commit" /\ saves'[s].pc = "load" /\ "release" \notin env) =>
          \A x \in DOMAIN b :
              IF b[x] = OwnRow
              THEN rows'[x] = OwnRow
              ELSE (b[x] \in ToSave(b) /\ b[x] > x => rows[b[x]] = OwnRow) =>
                   RowOf(rows', x) = RowOf(rows', b[x])]_<<rows, saves>>
==============================================================================
