-------------------------- MODULE SectorDemandProofs --------------------------
(***************************************************************************)
(* What holds of one ARTCC's sectors and of the demand answered for them,  *)
(* for any number of sectors, savers, setters, viewers and publishes.      *)
(*                                                                         *)
(* The arrangement stays flat because its writers are serialised: the      *)
(* inductive invariant says that at most one transaction is under way,     *)
(* that what it sees is flat between two entries, and how far from flat it *)
(* is between an entry's row and the rows that move with it.               *)
(***************************************************************************)
EXTENDS SectorDemand, WellFoundedInduction, TLAPS

Values == Sectors \cup {OwnRow}

(* One transaction at a time.                                              *)
OneWriter ==
    \A s, o \in Savers : InTransaction(s) /\ InTransaction(o) => s = o

(* What lies under a draft: the committed rows it does not write.          *)
Over(a, d) == [x \in Sectors |-> IF x \in DOMAIN d THEN d[x] ELSE a[x]]

(* Source x is to be worked at t, which has its own row.                   *)
MayWorkAt(a, x, t) == t \in Sectors /\ t # x /\ a[t] = OwnRow

(* x is worked at t already, what is worked at x has yet to move.          *)
HalfMoved(a, x, t) ==
    /\ MayWorkAt(a, x, t) /\ a[x] = t
    /\ \A y \in Sectors : a[y] # OwnRow => a[y] # y /\ (a[y] = x \/ a[a[y]] = OwnRow)

(* What one call has done over the committed rows a: it writes inside its  *)
(* transaction only, what is left of its batch are sectors it asked to     *)
(* work elsewhere, and what it sees is flat but for the sectors that have  *)
(* yet to move.                                                            *)
CallFine(a, c) ==
    /\ c.draft # NoDraft => c.pc \in {"resolve", "upsert", "move", "commit"}
    /\ c.pc \in {"resolve", "upsert", "move"} =>
          /\ c.todo # {} /\ c.todo \subseteq DOMAIN c.batch
          /\ \A x \in c.todo : c.batch[x] \in Sectors
    /\ c.pc \in {"resolve", "upsert", "commit"} => IsFlat(Over(a, c.draft))
    /\ c.pc = "upsert" => MayWorkAt(Over(a, c.draft), Min(c.todo), c.resolved)
    /\ c.pc = "move" => /\ HalfMoved(Over(a, c.draft), Min(c.todo), c.resolved)
                        /\ Min(c.todo) \in DOMAIN c.draft

FlatInv ==
    /\ rows \in Arrangements /\ saves \in [Savers -> Saves]
    /\ OneWriter
    /\ \A s \in Savers : CallFine(rows, saves[s])
    /\ Flat

-----------------------------------------------------------------------------
(* Arrangements. *)

LEMMA MinInSet ==
  ASSUME NEW S, S \subseteq Nat, S # {}
  PROVE  Min(S) \in S /\ \A y \in S : Min(S) =< y
  <1>1. PICK x \in S : \A y \in S : ~(<<y, x>> \in OpToRel(<, Nat))
    BY NatLessThanWellFounded, WFMin, Zenon
  <1>2. ASSUME NEW y \in S, y < x PROVE FALSE
    <2>1. <<y, x>> \in Nat \X Nat /\ <<y, x>>[1] = y /\ <<y, x>>[2] = x
      OBVIOUS
    <2>2. <<y, x>>[1] < <<y, x>>[2]
      BY <1>2, <2>1
    <2>3. <<y, x>> \in OpToRel(<, Nat)
      BY <2>1, <2>2, Zenon DEF OpToRel
    <2> QED
      BY <1>1, <2>3
  <1>3. \A y \in S : x =< y
    BY <1>2
  <1> QED
    BY <1>3, Zenon DEF Min

LEMMA NotSectors == OwnRow \notin Sectors /\ Sectors \subseteq Nat
  BY SectorAssumption

LEMMA DraftFacts ==
  ASSUME NEW d \in Drafts
  PROVE  DOMAIN d \subseteq Sectors /\ \A x \in DOMAIN d : d[x] \in Values
  BY DEF Drafts, Values

LEMMA WriteFacts ==
  ASSUME NEW d \in Drafts, NEW xs \in SUBSET Sectors, NEW v \in Values
  PROVE  /\ Write(d, xs, v) \in Drafts
         /\ DOMAIN Write(d, xs, v) = DOMAIN d \cup xs
         /\ \A x \in xs : Write(d, xs, v)[x] = v
         /\ \A x \in DOMAIN d \ xs : Write(d, xs, v)[x] = d[x]
  <1> DEFINE D == DOMAIN d \cup xs
  <1>1. D \in SUBSET Sectors
    BY DraftFacts
  <1>2. Write(d, xs, v) \in [D -> Values]
    BY DraftFacts DEF Write
  <1>3. Write(d, xs, v) \in Drafts
    BY <1>1, <1>2 DEF Drafts, Values
  <1> QED
    BY <1>3 DEF Write

LEMMA NoDraftFacts == NoDraft \in Drafts /\ DOMAIN NoDraft = {}
  BY DEF NoDraft, Drafts

LEMMA OverFacts ==
  ASSUME NEW a \in Arrangements, NEW d \in Drafts
  PROVE  Over(a, d) \in Arrangements
  BY DraftFacts DEF Over, Arrangements, Values

LEMMA FreeingStaysFlat ==
  ASSUME NEW a \in Arrangements, NEW b \in Arrangements, IsFlat(a),
         \A x \in Sectors : b[x] = a[x] \/ b[x] = OwnRow
  PROVE  IsFlat(b)
  BY NotSectors DEF IsFlat, Arrangements

LEMMA ResolvedHasOwnRow ==
  ASSUME NEW a \in Arrangements, IsFlat(a), NEW t \in Sectors
  PROVE  RowOf(a, t) \in Sectors /\ a[RowOf(a, t)] = OwnRow
  BY NotSectors DEF IsFlat, RowOf, Arrangements

LEMMA UpsertHalfMoves ==
  ASSUME NEW a \in Arrangements, NEW b \in Arrangements, IsFlat(a),
         NEW x \in Sectors, NEW t, MayWorkAt(a, x, t),
         b[x] = t, \A y \in Sectors \ {x} : b[y] = a[y]
  PROVE  HalfMoved(b, x, t)
  BY NotSectors DEF IsFlat, HalfMoved, MayWorkAt, Arrangements

LEMMA MoveFlattens ==
  ASSUME NEW a \in Arrangements, NEW b \in Arrangements,
         NEW x \in Sectors, NEW t, HalfMoved(a, x, t),
         \A y \in Sectors : b[y] = IF a[y] = x THEN t ELSE a[y]
  PROVE  IsFlat(b)
  BY NotSectors DEF IsFlat, HalfMoved, MayWorkAt, Arrangements
-----------------------------------------------------------------------------
(* One call, over the committed rows a. *)

LEMMA CallFields ==
  ASSUME NEW s \in Savers, saves \in [Savers -> Saves]
  PROVE  /\ saves[s] \in Saves
         /\ saves[s].draft \in Drafts /\ saves[s].todo \subseteq Sectors
         /\ saves[s].resolved \in Values
         /\ saves[s].batch \in Batches \cup {NoBatch}
  BY DEF Saves, Values

LEMMA IdleFine ==
  ASSUME NEW a, NEW c \in Saves, c.draft = NoDraft, c.pc \in {"idle", "lock", "release", "load", "store"}
  PROVE  CallFine(a, c)
  BY DEF CallFine

LEMMA IdleIsSave == Idle \in Saves /\ Idle.draft = NoDraft /\ Idle.pc = "idle"
  BY NoDraftFacts DEF Idle, Saves, Values

(* A step of s that leaves the rows alone: only its own call changes.      *)
LEMMA OwnStep ==
  ASSUME FlatInv, NEW s \in Savers, NEW c \in Saves,
         rows' = rows, saves' = [saves EXCEPT ![s] = c],
         CallFine(rows, c),
         (c.pc \in {"release", "resolve", "upsert", "move", "commit"}) =>
             \A o \in Savers \ {s} : ~InTransaction(o)
  PROVE  FlatInv'
  <1>1. saves' \in [Savers -> Saves] /\ \A o \in Savers : saves'[o] = IF o = s THEN c ELSE saves[o]
    BY DEF FlatInv
  <1>2. OneWriter'
    BY <1>1 DEF FlatInv, OneWriter, InTransaction
  <1>3. \A o \in Savers : CallFine(rows', saves'[o])
    BY <1>1 DEF FlatInv
  <1> QED
    BY <1>1, <1>2, <1>3 DEF FlatInv, Flat

LEMMA BeginBatchKeeps == ASSUME FlatInv, NEW s \in Savers, BeginBatch(s) PROVE FlatInv'
  <1>0. PICK b \in Batches : saves' = [saves EXCEPT ![s] = [Idle EXCEPT !.pc = "lock", !.batch = b]]
    BY DEF BeginBatch
  <1> DEFINE c == [Idle EXCEPT !.pc = "lock", !.batch = b]
  <1>1. saves' = [saves EXCEPT ![s] = c]
    BY <1>0
  <1>2. c \in Saves /\ c.draft = NoDraft /\ c.pc = "lock"
    BY NoDraftFacts DEF Idle, Saves, Values
  <1>3. CallFine(rows, c)
    BY <1>2, IdleFine
  <1> HIDE DEF c
  <1> QED
    BY <1>1, <1>2, <1>3, OwnStep DEF BeginBatch

LEMMA AdvisoryLockKeeps == ASSUME FlatInv, NEW s \in Savers, AdvisoryLock(s) PROVE FlatInv'
  <1> DEFINE c == [saves[s] EXCEPT !.pc = "release"]
  <1>1. saves' = [saves EXCEPT ![s] = c]
    BY DEF AdvisoryLock, FlatInv
  <1>2. saves[s] \in Saves /\ saves[s].draft = NoDraft
    BY CallFields DEF FlatInv, CallFine, AdvisoryLock
  <1>3. c \in Saves /\ c.draft = NoDraft /\ c.pc = "release"
    BY <1>2 DEF Saves
  <1>4. CallFine(rows, c)
    BY <1>3, IdleFine
  <1> HIDE DEF c
  <1> QED
    BY <1>1, <1>3, <1>4, OwnStep DEF AdvisoryLock, LockFree

LEMMA AnswerKeeps ==
  ASSUME FlatInv, NEW s \in Savers, rows' = rows,
         \/ saves[s].pc = "load" /\ saves' = [saves EXCEPT ![s].pc = "store"]
         \/ saves' = [saves EXCEPT ![s] = Idle]
  PROVE  FlatInv'
  <1>1. CASE saves' = [saves EXCEPT ![s] = Idle]
    BY <1>1, IdleIsSave, IdleFine, OwnStep
  <1>2. CASE saves[s].pc = "load" /\ saves' = [saves EXCEPT ![s].pc = "store"]
    <2> DEFINE c == [saves[s] EXCEPT !.pc = "store"]
    <2>1. saves' = [saves EXCEPT ![s] = c]
      BY <1>2 DEF FlatInv
    <2>2. saves[s] \in Saves /\ saves[s].draft = NoDraft
      BY <1>2, CallFields DEF FlatInv, CallFine
    <2>3. c \in Saves /\ c.draft = NoDraft /\ c.pc = "store"
      BY <2>2 DEF Saves
    <2>4. CallFine(rows, c)
      BY <2>3, IdleFine
    <2> HIDE DEF c
    <2> QED
      BY <2>1, <2>3, <2>4, OwnStep
  <1> QED
    BY <1>1, <1>2
-----------------------------------------------------------------------------
(* Inside a transaction. *)

LEMMA InTransactionFacts ==
  ASSUME FlatInv, NEW s \in Savers, InTransaction(s)
  PROVE  /\ \A o \in Savers \ {s} : ~InTransaction(o)
         /\ Seen(s) = Over(rows, saves[s].draft)
         /\ Seen(s) \in Arrangements
         /\ CallFine(rows, saves[s])
  <1>1. Seen(s) = Over(rows, saves[s].draft)
    BY DEF Seen, Over
  <1>2. Seen(s) \in Arrangements
    BY <1>1, OverFacts, CallFields DEF FlatInv
  <1> QED
    BY <1>1, <1>2 DEF FlatInv, OneWriter

LEMMA BatchFacts ==
  ASSUME NEW b \in Batches \cup {NoBatch}
  PROVE  /\ DOMAIN b \subseteq Sectors
         /\ ToSave(b) \subseteq DOMAIN b
         /\ \A x \in ToSave(b) : b[x] \in Sectors
  <1>1. DOMAIN b \subseteq Sectors /\ \A x \in DOMAIN b : b[x] \in Sectors \cup {OwnRow}
    BY SectorAssumption DEF NoBatch
  <1> QED
    BY <1>1 DEF ToSave

(* A draft that grows shows the rows it writes over what it showed.        *)
LEMMA OverWrite ==
  ASSUME NEW a \in Arrangements, NEW d \in Drafts, NEW xs \in SUBSET Sectors, NEW v \in Values
  PROVE  /\ Over(a, Write(d, xs, v)) \in Arrangements
         /\ \A x \in Sectors : Over(a, Write(d, xs, v))[x] = IF x \in xs THEN v ELSE Over(a, d)[x]
  <1>1. Write(d, xs, v) \in Drafts
    BY WriteFacts
  <1>2. Over(a, Write(d, xs, v)) \in Arrangements
    BY <1>1, OverFacts
  <1>3. ASSUME NEW x \in Sectors
        PROVE  Over(a, Write(d, xs, v))[x] = IF x \in xs THEN v ELSE Over(a, d)[x]
    <2> DEFINE w == Write(d, xs, v)
    <2>1. w = [y \in DOMAIN d \cup xs |-> IF y \in xs THEN v ELSE d[y]]
      BY DEF Write
    <2> HIDE DEF w
    <2>2. Over(a, w)[x] = IF x \in xs THEN v ELSE Over(a, d)[x]
      BY <2>1 DEF Over
    <2> QED
      BY <2>2 DEF w
  <1> QED
    BY <1>2, <1>3

LEMMA ReleaseInKeeps == ASSUME FlatInv, NEW s \in Savers, ReleaseIn(s) PROVE FlatInv'
  <1> DEFINE b == saves[s].batch
             xs == {x \in DOMAIN b \ ToSave(b) : rows[x] # OwnRow}
             d == Write(saves[s].draft, xs, OwnRow)
             c == [saves[s] EXCEPT !.draft = d, !.todo = ToSave(b),
                                   !.pc = IF ToSave(b) = {} THEN "commit" ELSE "resolve"]
  <1>1. saves[s] \in Saves /\ saves[s].draft \in Drafts /\ b \in Batches \cup {NoBatch} /\ saves[s].pc = "release"
    BY CallFields DEF FlatInv, ReleaseIn
  <1>2. InTransaction(s)
    BY <1>1 DEF InTransaction
  <1>3. saves' = [saves EXCEPT ![s] = c]
    BY DEF ReleaseIn, FlatInv
  <1>4. saves[s].draft = NoDraft
    BY <1>1, <1>2, InTransactionFacts DEF CallFine
  <1>5. xs \in SUBSET Sectors /\ OwnRow \in Values /\ rows \in Arrangements
    BY <1>1, BatchFacts DEF Values, FlatInv
  <1> HIDE DEF xs
  <1>6. d \in Drafts
    BY <1>1, <1>5, WriteFacts
  <1>7. /\ Over(rows, d) \in Arrangements
        /\ \A x \in Sectors : Over(rows, d)[x] = IF x \in xs THEN OwnRow ELSE Over(rows, saves[s].draft)[x]
    <2> DEFINE old == saves[s].draft
    <2>1. old \in Drafts /\ xs \in SUBSET Sectors /\ OwnRow \in Values /\ rows \in Arrangements
      BY <1>1, <1>5
    <2>2. d = Write(old, xs, OwnRow)
      OBVIOUS
    <2> HIDE DEF d, old
    <2>3. /\ Over(rows, Write(old, xs, OwnRow)) \in Arrangements
          /\ \A x \in Sectors :
                 Over(rows, Write(old, xs, OwnRow))[x] = IF x \in xs THEN OwnRow ELSE Over(rows, old)[x]
      BY <2>1, OverWrite
    <2> QED
      BY <2>2, <2>3 DEF old
  <1>8. \A x \in Sectors : Over(rows, saves[s].draft)[x] = rows[x]
    BY <1>4, NoDraftFacts DEF Over
  <1>9. IsFlat(Over(rows, d))
    BY <1>5, <1>7, <1>8, FreeingStaysFlat DEF FlatInv, Flat
  <1>10. ToSave(b) \in SUBSET Sectors
    BY <1>1, BatchFacts
  <1> HIDE DEF d
  <1>11. /\ c \in Saves /\ c.batch = b /\ c.draft = d /\ c.todo = ToSave(b)
         /\ c.pc = IF ToSave(b) = {} THEN "commit" ELSE "resolve"
    BY <1>1, <1>6, <1>10 DEF Saves
  <1> HIDE DEF c
  <1>12. CallFine(rows, c)
    BY <1>1, <1>9, <1>11, BatchFacts DEF CallFine
  <1> QED
    BY <1>2, <1>3, <1>11, <1>12, InTransactionFacts, OwnStep DEF ReleaseIn

LEMMA ResolveKeeps == ASSUME FlatInv, NEW s \in Savers, Resolve(s) PROVE FlatInv'
  <1> DEFINE t == saves[s].batch[Min(saves[s].todo)]
             r == RowOf(Seen(s), t)
             c == [saves[s] EXCEPT !.resolved = r, !.pc = "upsert"]
  <1>1. saves[s] \in Saves /\ saves[s].pc = "resolve" /\ InTransaction(s)
    BY CallFields DEF FlatInv, Resolve, InTransaction
  <1>2. /\ saves[s].todo # {} /\ saves[s].todo \subseteq Sectors
        /\ saves[s].todo \subseteq DOMAIN saves[s].batch
        /\ \A x \in saves[s].todo : saves[s].batch[x] \in Sectors
        /\ IsFlat(Seen(s)) /\ Seen(s) \in Arrangements
        /\ Seen(s) = Over(rows, saves[s].draft)
    BY <1>1, InTransactionFacts, CallFields DEF CallFine, FlatInv
  <1>3. Min(saves[s].todo) \in saves[s].todo
    BY <1>2, NotSectors, MinInSet
  <1>4. t \in Sectors
    BY <1>2, <1>3
  <1>5. r \in Sectors /\ Seen(s)[r] = OwnRow
    BY <1>2, <1>4, ResolvedHasOwnRow
  <1>6. CASE Resolved(s) = Source(s)
    BY <1>6, AnswerKeeps DEF Resolve
  <1>7. CASE Resolved(s) # Source(s)
    <2>1. r = Resolved(s) /\ Min(saves[s].todo) = Source(s)
      BY DEF Resolved, Source
    <2> HIDE DEF r
    <2>2. saves' = [saves EXCEPT ![s] = c]
      BY <1>7, <2>1 DEF Resolve, FlatInv
    <2>3. /\ c \in Saves /\ c.batch = saves[s].batch /\ c.draft = saves[s].draft /\ c.todo = saves[s].todo
          /\ c.pc = "upsert" /\ c.resolved = r
      BY <1>1, <1>5 DEF Saves, Values
    <2> HIDE DEF c
    <2>4. MayWorkAt(Over(rows, c.draft), Min(c.todo), c.resolved)
      BY <1>2, <1>5, <1>7, <2>1, <2>3 DEF MayWorkAt
    <2>5. CallFine(rows, c)
      BY <1>2, <2>3, <2>4 DEF CallFine
    <2> QED
      BY <1>1, <2>2, <2>3, <2>5, InTransactionFacts, OwnStep DEF Resolve
  <1> QED
    BY <1>6, <1>7

LEMMA UpsertKeeps == ASSUME FlatInv, NEW s \in Savers, Upsert(s) PROVE FlatInv'
  <1> DEFINE x == Min(saves[s].todo)
             r == saves[s].resolved
             d == Write(saves[s].draft, {x}, r)
             c == [saves[s] EXCEPT !.draft = d, !.pc = "move"]
  <1>1. saves[s] \in Saves /\ saves[s].pc = "upsert" /\ InTransaction(s) /\ saves[s].draft \in Drafts
    BY CallFields DEF FlatInv, Upsert, InTransaction
  <1>2. /\ saves[s].todo # {} /\ saves[s].todo \subseteq Sectors
        /\ saves[s].todo \subseteq DOMAIN saves[s].batch
        /\ \A y \in saves[s].todo : saves[s].batch[y] \in Sectors
        /\ IsFlat(Over(rows, saves[s].draft)) /\ Over(rows, saves[s].draft) \in Arrangements
        /\ MayWorkAt(Over(rows, saves[s].draft), x, r)
    BY <1>1, InTransactionFacts, CallFields DEF CallFine, FlatInv
  <1>3. x \in saves[s].todo /\ x \in Sectors
    BY <1>2, NotSectors, MinInSet
  <1>4. {x} \in SUBSET Sectors /\ r \in Values /\ rows \in Arrangements
    BY <1>2, <1>3 DEF MayWorkAt, Values, FlatInv
  <1>5. saves' = [saves EXCEPT ![s] = c]
    BY DEF Upsert, FlatInv, Source
  <1>6. d \in Drafts /\ x \in DOMAIN d
    <2>1. d \in Drafts /\ DOMAIN d = DOMAIN saves[s].draft \cup {x}
      <3> HIDE DEF x, r
      <3> QED
        BY <1>1, <1>4, WriteFacts, Zenon
    <2> QED
      BY <2>1
  <1>7. /\ Over(rows, d) \in Arrangements
        /\ Over(rows, d)[x] = r
        /\ \A y \in Sectors \ {x} : Over(rows, d)[y] = Over(rows, saves[s].draft)[y]
    BY <1>1, <1>3, <1>4, OverWrite
  <1>8. HalfMoved(Over(rows, d), x, r)
    <2> HIDE DEF x, r, d
    <2> QED
      BY <1>2, <1>3, <1>7, UpsertHalfMoves
  <1> HIDE DEF d
  <1>9. /\ c \in Saves /\ c.batch = saves[s].batch /\ c.draft = d /\ c.todo = saves[s].todo
        /\ c.pc = "move" /\ c.resolved = r
    BY <1>1, <1>6 DEF Saves
  <1> HIDE DEF c
  <1>10. CallFine(rows, c)
    BY <1>2, <1>6, <1>8, <1>9 DEF CallFine
  <1> QED
    BY <1>1, <1>5, <1>9, <1>10, InTransactionFacts, OwnStep DEF Upsert

LEMMA MoveKeeps == ASSUME FlatInv, NEW s \in Savers, Move(s) PROVE FlatInv'
  <1> DEFINE x == Min(saves[s].todo)
             r == saves[s].resolved
             w == WorkedAt(s)
             d == Write(saves[s].draft, w, r)
             todo == saves[s].todo \ {x}
             c == [saves[s] EXCEPT !.draft = d, !.todo = todo,
                                   !.pc = IF todo = {} THEN "commit" ELSE "resolve"]
  <1>1. saves[s] \in Saves /\ saves[s].pc = "move" /\ InTransaction(s) /\ saves[s].draft \in Drafts
    BY CallFields DEF FlatInv, Move, InTransaction
  <1>2. /\ saves[s].todo # {} /\ saves[s].todo \subseteq Sectors
        /\ saves[s].todo \subseteq DOMAIN saves[s].batch
        /\ \A y \in saves[s].todo : saves[s].batch[y] \in Sectors
        /\ Seen(s) = Over(rows, saves[s].draft)
        /\ Seen(s) \in Arrangements
        /\ HalfMoved(Seen(s), x, r)
    BY <1>1, InTransactionFacts, CallFields DEF CallFine, FlatInv
  <1>3. x \in saves[s].todo /\ x \in Sectors
    BY <1>2, NotSectors, MinInSet
  <1>4. w \in SUBSET Sectors /\ r \in Values /\ rows \in Arrangements
    BY <1>2 DEF HalfMoved, MayWorkAt, Values, FlatInv, WorkedAt
  <1>5. saves' = [saves EXCEPT ![s] = c]
    BY DEF Move, FlatInv, Source
  <1>6. d \in Drafts
    <2> HIDE DEF w, r
    <2> QED
      BY <1>1, <1>4, WriteFacts
  <1>7. /\ Over(rows, d) \in Arrangements
        /\ \A y \in Sectors : Over(rows, d)[y] = IF y \in w THEN r ELSE Over(rows, saves[s].draft)[y]
    BY <1>1, <1>4, OverWrite
  <1>8. \A y \in Sectors : y \in w <=> Seen(s)[y] = x
    BY DEF WorkedAt, Source
  <1>9. IsFlat(Over(rows, d))
    <2>1. \A y \in Sectors : Over(rows, d)[y] = IF Seen(s)[y] = x THEN r ELSE Seen(s)[y]
      BY <1>2, <1>7, <1>8
    <2> HIDE DEF x, r, d, w
    <2> QED
      BY <1>2, <1>3, <1>7, <2>1, MoveFlattens
  <1>10. todo \in SUBSET Sectors /\ todo \subseteq saves[s].todo
    BY <1>2
  <1> HIDE DEF d, todo
  <1>11. /\ c \in Saves /\ c.batch = saves[s].batch /\ c.draft = d /\ c.todo = todo
         /\ c.pc = IF todo = {} THEN "commit" ELSE "resolve"
    BY <1>1, <1>6, <1>10 DEF Saves
  <1> HIDE DEF c
  <1>12. CallFine(rows, c)
    BY <1>2, <1>9, <1>10, <1>11 DEF CallFine
  <1> QED
    BY <1>1, <1>5, <1>11, <1>12, InTransactionFacts, OwnStep DEF Move

LEMMA CommitKeeps == ASSUME FlatInv, NEW s \in Savers, Commit(s) PROVE FlatInv'
  <1> DEFINE c == [saves[s] EXCEPT !.draft = NoDraft, !.pc = "load"]
  <1>1. saves[s] \in Saves /\ saves[s].pc = "commit" /\ InTransaction(s)
    BY CallFields DEF FlatInv, Commit, InTransaction
  <1>2. rows' \in Arrangements /\ IsFlat(rows') /\ \A o \in Savers \ {s} : ~InTransaction(o)
    BY <1>1, InTransactionFacts DEF CallFine, Commit
  <1>3. saves' = [saves EXCEPT ![s] = c]
    BY DEF Commit, FlatInv
  <1>4. c \in Saves /\ c.draft = NoDraft /\ c.pc = "load"
    BY <1>1, NoDraftFacts DEF Saves
  <1> HIDE DEF c
  <1>5. saves' \in [Savers -> Saves] /\ \A o \in Savers : saves'[o] = IF o = s THEN c ELSE saves[o]
    BY <1>3, <1>4 DEF FlatInv
  <1>6. \A o \in Savers : CallFine(rows', saves'[o])
    BY <1>2, <1>4, <1>5 DEF FlatInv, CallFine, InTransaction
  <1>7. OneWriter'
    BY <1>2, <1>4, <1>5 DEF OneWriter, InTransaction
  <1> QED
    BY <1>2, <1>5, <1>6, <1>7 DEF FlatInv, Flat

(* A sector is given its own row under a transaction that has not written  *)
(* its row.                                                                *)
LEMMA FreedUnder ==
  ASSUME NEW a \in Arrangements, NEW b \in Arrangements, NEW x \in Sectors,
         b = [a EXCEPT ![x] = OwnRow],
         NEW c, c.draft \in Drafts, CallFine(a, c)
  PROVE  CallFine(b, c)
  <1> DEFINE aa == Over(a, c.draft)
             bb == Over(b, c.draft)
  <1>1. aa \in Arrangements /\ bb \in Arrangements
    BY OverFacts
  <1>2. \A y \in Sectors : bb[y] = aa[y] \/ bb[y] = OwnRow
    BY DEF Over, Arrangements
  <1>3. \A y \in DOMAIN c.draft : bb[y] = aa[y]
    BY DraftFacts DEF Over
  <1> HIDE DEF aa, bb
  <1>4. IsFlat(aa) => IsFlat(bb)
    BY <1>1, <1>2, FreeingStaysFlat
  <1>5. \A y, t : MayWorkAt(aa, y, t) => MayWorkAt(bb, y, t)
    BY <1>2 DEF MayWorkAt
  <1>6. \A y \in DOMAIN c.draft : \A t : HalfMoved(aa, y, t) => HalfMoved(bb, y, t)
    BY <1>1, <1>2, <1>3, <1>5, NotSectors DEF HalfMoved, Arrangements
  <1>7. CallFine(a, c) /\ aa = Over(a, c.draft) /\ bb = Over(b, c.draft)
    BY DEF aa, bb
  <1> QED
    BY <1>4, <1>5, <1>6, <1>7 DEF CallFine

LEMMA ReleaseKeeps == ASSUME FlatInv, NEW s \in Savers, Release(s) PROVE FlatInv'
  <1> DEFINE c == [Idle EXCEPT !.pc = "load"]
  <1>1. PICK x \in Sectors : rows' = [rows EXCEPT ![x] = OwnRow]
    BY DEF Release
  <1>2. rows' \in Arrangements /\ IsFlat(rows')
    <2>1. rows' \in Arrangements /\ \A y \in Sectors : rows'[y] = rows[y] \/ rows'[y] = OwnRow
      BY <1>1 DEF FlatInv, Arrangements
    <2> QED
      BY <2>1, FreeingStaysFlat DEF FlatInv, Flat
  <1>3. saves' = [saves EXCEPT ![s] = c]
    BY DEF Release
  <1>4. c \in Saves /\ c.draft = NoDraft /\ c.pc = "load"
    BY NoDraftFacts DEF Idle, Saves, Values
  <1> HIDE DEF c
  <1>5. saves' \in [Savers -> Saves] /\ \A o \in Savers : saves'[o] = IF o = s THEN c ELSE saves[o]
    BY <1>3, <1>4 DEF FlatInv
  <1>6. CallFine(rows', c)
    BY <1>4, IdleFine
  <1>7. ASSUME NEW o \in Savers PROVE CallFine(rows', saves[o])
    BY <1>1, <1>2, FreedUnder, CallFields DEF FlatInv
  <1>8. \A o \in Savers : CallFine(rows', saves'[o])
    BY <1>5, <1>6, <1>7
  <1>9. OneWriter'
    BY <1>4, <1>5 DEF FlatInv, OneWriter, InTransaction
  <1> QED
    BY <1>2, <1>5, <1>8, <1>9 DEF FlatInv, Flat
-----------------------------------------------------------------------------
(* The replica's steps. *)

LEMMA FlatAtStart == Init => FlatInv
  <1> SUFFICES ASSUME Init PROVE FlatInv
    OBVIOUS
  <1>1. rows \in Arrangements /\ IsFlat(rows)
    <2>1. NoRows \in Arrangements /\ IsFlat(NoRows)
      BY DEF NoRows, Arrangements, IsFlat
    <2>2. rows = NoRows \/ rows \in Arranged
      BY DEF Init, ConsolidationsInit
    <2> QED
      BY <2>1, <2>2, ArrangedAssumption
  <1>2. saves \in [Savers -> Saves] /\ \A s \in Savers : saves[s] = Idle
    BY IdleIsSave DEF Init, ConsolidationsInit
  <1>3. OneWriter
    BY <1>2, IdleIsSave DEF OneWriter, InTransaction
  <1>4. \A s \in Savers : CallFine(rows, saves[s])
    BY <1>2, IdleIsSave, IdleFine
  <1> QED
    BY <1>1, <1>2, <1>3, <1>4 DEF FlatInv, Flat

LEMMA SaveKeeps == ASSUME FlatInv, NEW s \in Savers, Save(s) PROVE FlatInv'
  <1>1. CASE Rollback(s)
    BY <1>1, AnswerKeeps DEF Rollback
  <1>2. CASE CallLoad("consolidations", s, saves[s].pc) /\ saves' = [saves EXCEPT ![s].pc = "store"]
    BY <1>2, AnswerKeeps DEF CallLoad
  <1>3. CASE CallStore("consolidations", s, saves[s].pc) /\ saves' = [saves EXCEPT ![s] = Idle]
    BY <1>3, AnswerKeeps DEF CallStore
  <1>4. CASE CallLeaves(s, saves[s].pc) /\ saves' = [saves EXCEPT ![s] = Idle]
    BY <1>4, AnswerKeeps DEF CallLeaves
  <1> QED
    BY <1>1, <1>2, <1>3, <1>4, BeginBatchKeeps, AdvisoryLockKeeps, ReleaseInKeeps, ResolveKeeps,
       UpsertKeeps, MoveKeeps, CommitKeeps, ReleaseKeeps DEF Save

LEMMA OthersLeaveRows ==
  ASSUME [Next]_vars
  PROVE  (\E s \in Savers : Save(s)) \/ UNCHANGED <<rows, saves>>
  <1>1. CASE UNCHANGED vars
    BY <1>1 DEF vars, tableVars
  <1>2. ASSUME NEW t \in Tables, RefreshLoad(t) \/ RefreshStore(t) PROVE UNCHANGED <<rows, saves>>
    BY <1>2 DEF RefreshLoad, RefreshStore, tableVars
  <1>3. ASSUME NEW s \in Setters, Set(s) PROVE UNCHANGED <<rows, saves>>
    BY <1>3 DEF Set, CallLoad, CallStore, CallLeaves
  <1>4. ASSUME NEW r \in Requests, Read(r) \/ Serve(r) \/ Drop(r) PROVE UNCHANGED <<rows, saves>>
    BY <1>4 DEF Read, Serve, Drop, tableVars
  <1>5. CASE MarkLoaded \/ Poll \/ WheelsMove \/ Projected \/ ProjectionFails
    BY <1>5 DEF MarkLoaded, Poll, WheelsMove, Projected, ProjectionFails, tableVars
  <1> QED
    BY <1>1, <1>2, <1>3, <1>4, <1>5 DEF Next

LEMMA RowsLeftAlone == ASSUME FlatInv, UNCHANGED <<rows, saves>> PROVE FlatInv'
  BY DEF FlatInv, Flat, OneWriter, InTransaction

LEMMA FlatStep == FlatInv /\ [Next]_vars => FlatInv'
  BY SaveKeeps, OthersLeaveRows, RowsLeftAlone

(* The arrangement is flat, whatever saves, batches and releases overlap:  *)
(* two saves cannot build a chain or a loop between them.                  *)
THEOREM ArrangementFlat == Spec => []Flat
  <1>1. FlatInv => Flat
    BY DEF FlatInv
  <1> QED
    BY <1>1, FlatAtStart, FlatStep, PTL DEF Spec
-----------------------------------------------------------------------------
(* Types. *)

LEMMA TableValues ==
  ASSUME TypeOK
  PROVE  /\ Stored("limits") = limit /\ Stored("limits") \in Limits
         /\ Stored("consolidations") = rows /\ Stored("consolidations") \in Arrangements
         /\ Stored("sectors") = cache.sectors + 1
         /\ cache.sectors < ReloadBound => Stored("sectors") \in 0..ReloadBound
  BY DemandAssumption DEF Stored, TypeOK

LEMMA TypeOKAtStart == Init => TypeOK
  <1> SUFFICES ASSUME Init PROVE TypeOK
    OBVIOUS
  <1>1. rows \in Arrangements /\ saves \in [Savers -> Saves]
    BY FlatAtStart DEF FlatInv
  <1>2. \A s \in Savers : saves[s].pc # "store"
    BY DEF Init, ConsolidationsInit, Idle
  <1>3. NoInputs \in Inputs
    BY DemandAssumption DEF NoInputs, Inputs, NoRows, Arrangements
  <1>4. asked \in [Requests -> [pc : RequestSteps, loaded : BOOLEAN, in : Inputs, answer : {None} \cup Inputs]]
    BY <1>3 DEF Init, Away, RequestSteps
  <1>5. cache \in [sectors : 0..ReloadBound, limits : Limits, consolidations : Arrangements]
    BY <1>1, DemandAssumption DEF Init, NoRows, Arrangements
  <1>6. /\ limit \in Limits
        /\ sets \in [Setters -> [pc : {"idle", "compare", "write", "load", "store"}, limit : Limits]]
        /\ \A s \in Setters : sets[s].pc # "store"
        /\ snapshot \in 0..PublishBound
    BY DemandAssumption DEF Init, NotSet
  <1>10. loaded \in BOOLEAN
    BY Zenon DEF Init, Warm
  <1>11. wheels \in BOOLEAN
    BY Zenon DEF Init
  <1>7. /\ reading = [p \in Tables \cup Savers \cup Setters |-> reading[p]]
        /\ \A t \in Tables : reading[t] = None
    BY DEF Init
  <1>8. queue \in Seq(Requests) /\ task = None /\ entry = None
    BY DEF Init
  <1>9. projected \in [0..PublishBound -> 0..2]
    BY DEF Init
  <1> QED
    BY <1>1, <1>2, <1>4, <1>5, <1>6, <1>7, <1>8, <1>9, <1>10, <1>11 DEF TypeOK, Tables

LEMMA RefreshTypes ==
  ASSUME TypeOK, NEW t \in Tables, RefreshLoad(t) \/ RefreshStore(t)
  PROVE  TypeOK'
  <1> USE ReaderAssumption
  <1>1. CASE RefreshLoad(t)
    <2>1. /\ reading' = [p \in Tables \cup Savers \cup Setters |-> reading'[p]]
          /\ reading'[t] = Stored(t)
          /\ \A p \in (Tables \cup Savers \cup Setters) \ {t} : reading'[p] = reading[p]
      BY <1>1 DEF RefreshLoad, TypeOK
    <2>2. t = "sectors" => cache.sectors < ReloadBound
      BY <1>1 DEF RefreshLoad
    <2>3. /\ reading'["sectors"] \in {None} \cup 0..ReloadBound
          /\ reading'["limits"] \in {None} \cup Limits
          /\ reading'["consolidations"] \in {None} \cup Arrangements
      BY <2>1, <2>2, TableValues DEF TypeOK, Tables
    <2>4. /\ \A s \in Savers : saves[s].pc = "store" => reading'[s] \in Arrangements
          /\ \A s \in Setters : sets[s].pc = "store" => reading'[s] \in Limits
      BY <2>1 DEF TypeOK
    <2> QED
      BY <1>1, <2>1, <2>3, <2>4 DEF TypeOK, RefreshLoad, tableVars, feedVars, slotVars
  <1>2. CASE RefreshStore(t)
    <2>1. /\ reading' = [p \in Tables \cup Savers \cup Setters |-> reading'[p]]
          /\ reading'[t] = None
          /\ \A p \in (Tables \cup Savers \cup Setters) \ {t} : reading'[p] = reading[p]
      BY <1>2 DEF RefreshStore, TypeOK
    <2>2. cache' \in [sectors : 0..ReloadBound, limits : Limits, consolidations : Arrangements]
      <3>1. CASE t = "sectors"
        BY <1>2, <3>1 DEF RefreshStore, Reloaded, TypeOK
      <3>2. CASE t = "limits"
        BY <1>2, <3>2 DEF RefreshStore, Reloaded, TypeOK
      <3>3. CASE t = "consolidations"
        BY <1>2, <3>3 DEF RefreshStore, Reloaded, TypeOK
      <3> QED
        BY <3>1, <3>2, <3>3 DEF Tables
    <2>3. /\ reading'["sectors"] \in {None} \cup 0..ReloadBound
          /\ reading'["limits"] \in {None} \cup Limits
          /\ reading'["consolidations"] \in {None} \cup Arrangements
      BY <2>1 DEF TypeOK, Tables
    <2>4. /\ \A s \in Savers : saves[s].pc = "store" => reading'[s] \in Arrangements
          /\ \A s \in Setters : sets[s].pc = "store" => reading'[s] \in Limits
      BY <2>1 DEF TypeOK
    <2> QED
      BY <1>2, <2>1, <2>2, <2>3, <2>4 DEF TypeOK, RefreshStore, tableVars, feedVars, slotVars
  <1> QED
    BY <1>1, <1>2

(* A call reads its table and stores it, or leaves it.                     *)
LEMMA CallTypes ==
  ASSUME TypeOK, NEW t \in {"limits", "consolidations"}, NEW s \in Savers \cup Setters, NEW pc,
         pc = "store" => reading[s] \in IF t = "limits" THEN Limits ELSE Arrangements,
         CallLoad(t, s, pc) \/ CallStore(t, s, pc) \/ CallLeaves(s, pc)
  PROVE  /\ reading' = [p \in Tables \cup Savers \cup Setters |-> reading'[p]]
         /\ \A p \in (Tables \cup Savers \cup Setters) \ {s} : reading'[p] = reading[p]
         /\ CallLoad(t, s, pc) => reading'[s] = Stored(t)
         /\ cache' \in [sectors : 0..ReloadBound, limits : Limits, consolidations : Arrangements]
         /\ loaded' = loaded
  <1>1. CASE CallLoad(t, s, pc)
    BY <1>1 DEF CallLoad, TypeOK, CallStore
  <1>2. CASE CallStore(t, s, pc)
    <2>1. cache' \in [sectors : 0..ReloadBound, limits : Limits, consolidations : Arrangements]
      <3>1. CASE t = "limits"
        BY <1>2, <3>1 DEF CallStore, TypeOK
      <3>2. CASE t = "consolidations"
        BY <1>2, <3>2 DEF CallStore, TypeOK
      <3> QED
        BY <3>1, <3>2
    <2> QED
      BY <1>2, <2>1 DEF CallStore, CallLoad, TypeOK
  <1>3. CASE CallLeaves(s, pc)
    BY <1>3 DEF CallLeaves, CallLoad, TypeOK, cacheVars
  <1> QED
    BY <1>1, <1>2, <1>3

LEMMA SaveTypes ==
  ASSUME FlatInv, TypeOK, NEW s \in Savers, Save(s)
  PROVE  TypeOK'
  <1>0. rows' \in Arrangements /\ saves' \in [Savers -> Saves]
    BY SaveKeeps DEF FlatInv
  <1>1. CASE UNCHANGED <<limit, sets, cacheVars, feedVars, slotVars>> /\ \A o \in Savers : saves'[o].pc = "store" => saves[o].pc = "store"
    BY <1>0, <1>1 DEF TypeOK, cacheVars, feedVars, slotVars
  <1>2. ASSUME \/ CallLoad("consolidations", s, saves[s].pc) /\ saves' = [saves EXCEPT ![s].pc = "store"]
               \/ /\ CallStore("consolidations", s, saves[s].pc) \/ CallLeaves(s, saves[s].pc)
                  /\ saves' = [saves EXCEPT ![s] = Idle],
               UNCHANGED sets
        PROVE  TypeOK'
    <2>1. /\ reading' = [p \in Tables \cup Savers \cup Setters |-> reading'[p]]
          /\ \A p \in (Tables \cup Savers \cup Setters) \ {s} : reading'[p] = reading[p]
          /\ CallLoad("consolidations", s, saves[s].pc) => reading'[s] \in Arrangements
          /\ cache' \in [sectors : 0..ReloadBound, limits : Limits, consolidations : Arrangements]
          /\ loaded' = loaded
      BY <1>2, CallTypes, TableValues DEF TypeOK
    <2>2. \A o \in Savers : saves'[o].pc = "store" => reading'[o] \in Arrangements
      BY <1>2, <2>1, IdleIsSave DEF TypeOK
    <2>3. /\ \A o \in Setters : sets'[o].pc = "store" => reading'[o] \in Limits
          /\ \A t \in Tables : reading'[t] = reading[t]
      BY <1>2, <2>1, ReaderAssumption DEF TypeOK
    <2>4. UNCHANGED <<limit, sets, feedVars, slotVars>>
      BY <1>2 DEF CallLoad, CallStore, CallLeaves
    <2> QED
      BY <1>0, <2>1, <2>2, <2>3, <2>4 DEF TypeOK, feedVars, slotVars, Tables
  <1>3. ASSUME \/ BeginBatch(s) \/ AdvisoryLock(s) \/ ReleaseIn(s) \/ Resolve(s) \/ Upsert(s) \/ Move(s)
               \/ Rollback(s) \/ Commit(s) \/ Release(s)
        PROVE  \A o \in Savers : saves'[o].pc = "store" => saves[o].pc = "store"
    <2>1. \A o \in Savers \ {s} : saves'[o] = saves[o]
      BY <1>3 DEF BeginBatch, AdvisoryLock, ReleaseIn, Resolve, Upsert, Move, Rollback, Commit, Release, TypeOK
    <2>2. saves'[s].pc # "store"
      <3>1. saves[s] \in Saves
        BY DEF TypeOK
      <3>2. CASE BeginBatch(s) \/ Release(s) \/ Rollback(s)
        <4>1. CASE BeginBatch(s)
          <5>1. PICK b \in Batches : saves' = [saves EXCEPT ![s] = [Idle EXCEPT !.pc = "lock", !.batch = b]]
            BY <4>1 DEF BeginBatch
          <5>2. saves'[s] = [Idle EXCEPT !.pc = "lock", !.batch = b]
            BY <5>1 DEF TypeOK
          <5> QED
            BY <5>2 DEF Idle
        <4>2. CASE Release(s)
          <5>1. saves'[s] = [Idle EXCEPT !.pc = "load"]
            BY <4>2 DEF Release, TypeOK
          <5> QED
            BY <5>1 DEF Idle
        <4>3. CASE Rollback(s)
          BY <4>3, IdleIsSave DEF Rollback, TypeOK
        <4> QED
          BY <3>2, <4>1, <4>2, <4>3
      <3>3. CASE Resolve(s)
        <4>1. CASE saves' = [saves EXCEPT ![s] = Idle]
          BY <4>1, IdleIsSave DEF TypeOK
        <4>2. CASE saves' = [saves EXCEPT ![s].resolved = Resolved(s), ![s].pc = "upsert"]
          BY <3>1, <4>2 DEF TypeOK, Saves
        <4> QED
          BY <3>3, <4>1, <4>2 DEF Resolve
      <3>4. CASE AdvisoryLock(s)
        BY <3>1, <3>4 DEF AdvisoryLock, TypeOK, Saves
      <3>5. CASE ReleaseIn(s)
        <4> DEFINE next == IF ToSave(saves[s].batch) = {} THEN "commit" ELSE "resolve"
        <4>1. next # "store"
          OBVIOUS
        <4>2. saves'[s].pc = next
          BY <3>1, <3>5 DEF ReleaseIn, TypeOK, Saves
        <4> QED
          BY <4>1, <4>2
      <3>6. CASE Upsert(s)
        BY <3>1, <3>6 DEF Upsert, TypeOK, Saves
      <3>7. CASE Move(s)
        <4> DEFINE next == IF saves[s].todo \ {Source(s)} = {} THEN "commit" ELSE "resolve"
        <4>1. next # "store"
          OBVIOUS
        <4>2. saves'[s].pc = next
          BY <3>1, <3>7 DEF Move, TypeOK, Saves
        <4> QED
          BY <4>1, <4>2
      <3>8. CASE Commit(s)
        BY <3>1, <3>8 DEF Commit, TypeOK, Saves
      <3> QED
        BY <1>3, <3>2, <3>3, <3>4, <3>5, <3>6, <3>7, <3>8
    <2> QED
      BY <2>1, <2>2
  <1> QED
    BY <1>1, <1>2, <1>3 DEF Save

LEMMA SetTypes ==
  ASSUME TypeOK, NEW s \in Setters, Set(s)
  PROVE  TypeOK'
  <1>1. CASE /\ BeginSet(s) \/ Compare(s) \/ WriteLimit(s)
             /\ UNCHANGED <<rows, saves, cacheVars, feedVars, slotVars>>
    <2>0. sets[s] \in [pc : {"idle", "compare", "write", "load", "store"}, limit : Limits]
      BY DEF TypeOK
    <2>1. limit' \in Limits
      BY <1>1, <2>0 DEF Set, WriteLimit, CallLoad, CallStore, CallLeaves, BeginSet, Compare, TypeOK
    <2>2. /\ sets' \in [Setters -> [pc : {"idle", "compare", "write", "load", "store"}, limit : Limits]]
          /\ \A o \in Setters : sets'[o].pc = "store" => sets[o].pc = "store"
      <3>1. CASE BeginSet(s)
        <4>1. PICK l \in Limits : sets' = [sets EXCEPT ![s] = [pc |-> "compare", limit |-> l]]
          BY <3>1 DEF BeginSet
        <4> QED
          BY <4>1 DEF TypeOK
      <3>2. CASE Compare(s)
        <4> DEFINE c == IF Unchanged(s) THEN NotSet ELSE [sets[s] EXCEPT !.pc = "write"]
        <4>1. sets' = [sets EXCEPT ![s] = c]
          BY <3>2 DEF Compare
        <4>2. c \in [pc : {"idle", "write"}, limit : Limits]
          BY <2>0, DemandAssumption DEF NotSet
        <4> HIDE DEF c
        <4> QED
          BY <4>1, <4>2 DEF TypeOK
      <3>3. CASE WriteLimit(s)
        <4>1. sets' = [sets EXCEPT ![s] = [sets[s] EXCEPT !.pc = "load"]]
          BY <3>3 DEF WriteLimit, TypeOK
        <4>2. [sets[s] EXCEPT !.pc = "load"] \in [pc : {"load"}, limit : Limits]
          BY <2>0
        <4> QED
          BY <4>1, <4>2 DEF TypeOK
      <3> QED
        BY <1>1, <3>1, <3>2, <3>3
    <2> QED
      BY <1>1, <2>1, <2>2 DEF TypeOK, cacheVars, feedVars, slotVars
  <1>2. CASE \/ CallLoad("limits", s, sets[s].pc) /\ sets' = [sets EXCEPT ![s].pc = "store"]
             \/ /\ CallStore("limits", s, sets[s].pc) \/ CallLeaves(s, sets[s].pc)
                /\ sets' = [sets EXCEPT ![s] = NotSet]
    <2>1. /\ reading' = [p \in Tables \cup Savers \cup Setters |-> reading'[p]]
          /\ \A p \in (Tables \cup Savers \cup Setters) \ {s} : reading'[p] = reading[p]
          /\ CallLoad("limits", s, sets[s].pc) => reading'[s] \in Limits
          /\ cache' \in [sectors : 0..ReloadBound, limits : Limits, consolidations : Arrangements]
          /\ loaded' = loaded
      BY <1>2, CallTypes, TableValues DEF TypeOK
    <2>2. /\ sets' \in [Setters -> [pc : {"idle", "compare", "write", "load", "store"}, limit : Limits]]
          /\ \A o \in Setters : sets'[o].pc = "store" => reading'[o] \in Limits
      <3>1. CASE sets' = [sets EXCEPT ![s] = NotSet]
        <4>1. NotSet \in [pc : {"idle"}, limit : Limits]
          BY DemandAssumption DEF NotSet
        <4> QED
          BY <2>1, <3>1, <4>1 DEF TypeOK
      <3>2. CASE CallLoad("limits", s, sets[s].pc) /\ sets' = [sets EXCEPT ![s].pc = "store"]
        <4>1. sets' = [sets EXCEPT ![s] = [sets[s] EXCEPT !.pc = "store"]]
          BY <3>2 DEF TypeOK
        <4>2. [sets[s] EXCEPT !.pc = "store"] \in [pc : {"store"}, limit : Limits]
          BY DEF TypeOK
        <4> QED
          BY <2>1, <3>2, <4>1, <4>2 DEF TypeOK
      <3> QED
        BY <1>2, <3>1, <3>2
    <2>3. UNCHANGED <<rows, saves, limit, feedVars, slotVars>>
      BY <1>2 DEF Set, CallLoad, CallStore, CallLeaves, BeginSet, Compare, WriteLimit
    <2>4. /\ \A o \in Savers : saves'[o].pc = "store" => reading'[o] \in Arrangements
          /\ \A t \in Tables : reading'[t] = reading[t]
      BY <2>1, <2>3, ReaderAssumption DEF TypeOK
    <2> QED
      BY <2>1, <2>2, <2>3, <2>4 DEF TypeOK, feedVars, slotVars, Tables
  <1> QED
    BY <1>1, <1>2 DEF Set

LEMMA ReadTypes ==
  ASSUME TypeOK, NEW r \in Requests, Read(r)
  PROVE  TypeOK'
  <1> DEFINE Reqs == [pc : RequestSteps, loaded : BOOLEAN, in : Inputs, answer : {None} \cup Inputs]
  <1>0. asked \in [Requests -> Reqs] /\ asked[r].in \in Inputs
    BY DEF TypeOK
  <1>1. CASE Ask(r)
    <2> DEFINE c == [asked[r] EXCEPT !.pc = "table", !.loaded = loaded]
    <2>1. asked' = [asked EXCEPT ![r] = c]
      BY <1>0, <1>1 DEF Ask
    <2>2. c \in Reqs
      <3>1. loaded \in BOOLEAN /\ asked[r] \in Reqs
        BY <1>0 DEF TypeOK
      <3>2. "table" \in RequestSteps
        BY DEF RequestSteps
      <3> QED
        BY <3>1, <3>2, Zenon
    <2> HIDE DEF c
    <2>3. asked' \in [Requests -> Reqs]
      BY <1>0, <2>1, <2>2
    <2> QED
      BY <1>1, <2>3 DEF Ask, Read, TypeOK, tableVars, cacheVars, feedVars
  <1>2. CASE ReadTable(r)
    <2> DEFINE pc == CASE ~asked[r].loaded -> "pending"
                       [] asked[r].loaded /\ cache.sectors = 0 -> "no_sector_data"
                       [] OTHER -> "feed"
               in == [asked[r].in EXCEPT !.sectors = cache.sectors]
               c == [asked[r] EXCEPT !.pc = pc, !.in = in]
    <2>1. asked' = [asked EXCEPT ![r] = c]
      BY <1>0, <1>2 DEF ReadTable
    <2>2. pc \in RequestSteps
      BY DEF RequestSteps
    <2>3. in \in Inputs
      BY <1>0 DEF TypeOK, Inputs
    <2> HIDE DEF pc, in
    <2>4. c \in Reqs
      BY <1>0, <2>2, <2>3
    <2> HIDE DEF c
    <2>5. asked' \in [Requests -> Reqs]
      BY <1>0, <2>1, <2>4
    <2> QED
      BY <1>2, <2>5 DEF ReadTable, Read, TypeOK, tableVars, cacheVars, feedVars
  <1>3. CASE ReadFeed(r)
    <2> DEFINE pc == IF snapshot = 0 THEN "pending" ELSE "wheels"
               in == [asked[r].in EXCEPT !.publish = snapshot]
               c == [asked[r] EXCEPT !.pc = pc, !.in = in]
    <2>1. asked' = [asked EXCEPT ![r] = c]
      BY <1>0, <1>3 DEF ReadFeed
    <2>2. pc \in RequestSteps
      BY DEF RequestSteps
    <2>3. in \in Inputs
      BY <1>0 DEF TypeOK, Inputs
    <2> HIDE DEF pc, in
    <2>4. c \in Reqs
      BY <1>0, <2>2, <2>3
    <2> HIDE DEF c
    <2>5. asked' \in [Requests -> Reqs]
      BY <1>0, <2>1, <2>4
    <2> QED
      BY <1>3, <2>5 DEF ReadFeed, Read, TypeOK, tableVars, cacheVars, feedVars
  <1>4. CASE ReadWheels(r)
    <2> DEFINE in == [asked[r].in EXCEPT !.wheels = wheels]
               c == [asked[r] EXCEPT !.pc = "config", !.in = in]
    <2>1. asked' = [asked EXCEPT ![r] = c]
      BY <1>0, <1>4 DEF ReadWheels
    <2>3. in \in Inputs
      BY <1>0 DEF TypeOK, Inputs
    <2> HIDE DEF in
    <2>4. c \in Reqs
      BY <1>0, <2>3 DEF RequestSteps
    <2> HIDE DEF c
    <2>5. asked' \in [Requests -> Reqs]
      BY <1>0, <2>1, <2>4
    <2> QED
      BY <1>4, <2>5 DEF ReadWheels, Read, TypeOK, tableVars, cacheVars, feedVars
  <1>5. CASE ReadConfig(r)
    <2> DEFINE in == [asked[r].in EXCEPT !.limits = cache.limits, !.consolidations = cache.consolidations]
               c == [asked[r] EXCEPT !.pc = "wait", !.in = in]
    <2>1. asked' = [asked EXCEPT ![r] = c]
      BY <1>0, <1>5 DEF ReadConfig
    <2>3. in \in Inputs
      BY <1>0 DEF TypeOK, Inputs
    <2> HIDE DEF in
    <2>4. c \in Reqs
      BY <1>0, <2>3 DEF RequestSteps
    <2> HIDE DEF c
    <2>5. asked' \in [Requests -> Reqs]
      BY <1>0, <2>1, <2>4
    <2>6. queue' \in Seq(Requests)
      BY <1>5 DEF ReadConfig, TypeOK
    <2> QED
      BY <1>5, <2>5, <2>6 DEF Read, TypeOK, tableVars, cacheVars, feedVars
  <1>6. CASE Done(r)
    <2>1. Away \in Reqs
      BY DemandAssumption DEF Away, NoInputs, Inputs, NoRows, Arrangements, RequestSteps
    <2>2. asked' \in [Requests -> Reqs]
      BY <1>0, <1>6, <2>1 DEF Done
    <2> QED
      BY <1>6, <2>2 DEF Done, Read, TypeOK, tableVars, cacheVars, feedVars
  <1> QED
    BY <1>1, <1>2, <1>3, <1>4, <1>5, <1>6 DEF Read

LEMMA LeavesTheLine ==
  ASSUME TypeOK, NEW r
  PROVE  InLine(r) \in Seq(Requests)
  <1> DEFINE I == {i \in 1..Len(queue) : queue[i] = r}
             k == Min(I)
  <1>0. queue \in Seq(Requests) /\ Len(queue) \in Nat
    BY DEF TypeOK
  <1>1. CASE I = {}
    BY <1>0, <1>1 DEF InLine, RemoveFirst
  <1>2. CASE I # {}
    <2>1. k \in I
      <3>1. I \subseteq Nat
        BY <1>0
      <3> HIDE DEF I
      <3> QED
        BY <1>2, <3>1, MinInSet
    <2>2. SelectInSeq(queue, LAMBDA v : v = r) = k
      BY <1>2 DEF SelectInSeq
    <2>3. InLine(r) = SubSeq(queue, 1, k-1) \o SubSeq(queue, k+1, Len(queue))
      BY <1>2, <2>2 DEF InLine, RemoveFirst, RemoveAt
    <2> HIDE DEF k
    <2>4. k \in 1..Len(queue)
      BY <2>1
    <2>5. SubSeq(queue, 1, k-1) \in Seq(Requests) /\ SubSeq(queue, k+1, Len(queue)) \in Seq(Requests)
      BY <1>0, <2>4
    <2> QED
      BY <2>3, <2>5
  <1> QED
    BY <1>1, <1>2

LEMMA SlotTypes ==
  ASSUME TypeOK, NEW r \in Requests, Serve(r) \/ Drop(r) \/ Projected \/ ProjectionFails
  PROVE  TypeOK'
  <1> DEFINE Reqs == [pc : RequestSteps, loaded : BOOLEAN, in : Inputs, answer : {None} \cup Inputs]
  <1>0. /\ asked \in [Requests -> Reqs] /\ asked[r] \in Reqs
        /\ entry \in {None} \cup Inputs
        /\ \A pc \in {"ready", "projecting", "error"} : pc \in RequestSteps
    BY DEF TypeOK, RequestSteps
  <1>1. ASSUME Serve(r) PROVE TypeOK'
    <2> DEFINE in == asked[r].in
    <2>0. in \in Inputs /\ in.publish \in 0..PublishBound /\ in.limits \in Limits
      BY <1>0 DEF Inputs
    <2>1. queue' \in Seq(Requests)
      BY <1>1 DEF Serve, TypeOK
    <2>2. CASE Matches(in) /\ entry' = [entry EXCEPT !.limits = in.limits]
               /\ asked' = [asked EXCEPT ![r].pc = "ready", ![r].answer = entry']
               /\ UNCHANGED <<task, projected>>
      <3>1. entry' \in Inputs
        BY <2>0, <2>2 DEF Matches
      <3>2. asked' = [asked EXCEPT ![r] = [asked[r] EXCEPT !.pc = "ready", !.answer = entry']]
        BY <1>0, <2>2
      <3>3. [asked[r] EXCEPT !.pc = "ready", !.answer = entry'] \in Reqs
        BY <1>0, <3>1
      <3>4. asked' \in [Requests -> Reqs]
        BY <1>0, <3>2, <3>3
      <3> QED
        BY <1>1, <2>1, <2>2, <3>1, <3>4 DEF Serve, TypeOK, tableVars, cacheVars, feedVars
    <2>3. CASE ~Matches(in) /\ asked' = [asked EXCEPT ![r].pc = "projecting"]
               /\ task' = [for |-> r, in |-> in]
               /\ projected' = [projected EXCEPT ![in.publish] = IF projected[in.publish] = 0 THEN 1 ELSE 2]
               /\ UNCHANGED entry
      <3>1. asked' = [asked EXCEPT ![r] = [asked[r] EXCEPT !.pc = "projecting"]]
        BY <1>0, <2>3
      <3>2. [asked[r] EXCEPT !.pc = "projecting"] \in Reqs
        BY <1>0
      <3>3. asked' \in [Requests -> Reqs]
        BY <1>0, <3>1, <3>2
      <3>4. projected' \in [0..PublishBound -> 0..2]
        BY <2>0, <2>3 DEF TypeOK
      <3>5. task' \in [for : Requests, in : Inputs]
        BY <2>0, <2>3
      <3> QED
        BY <1>1, <2>1, <2>3, <3>3, <3>4, <3>5 DEF Serve, TypeOK, tableVars, cacheVars, feedVars
    <2> QED
      BY <1>1, <2>2, <2>3 DEF Serve
  <1>2. ASSUME Drop(r) PROVE TypeOK'
    <2>1. Away \in Reqs
      BY DemandAssumption DEF Away, NoInputs, Inputs, NoRows, Arrangements, RequestSteps
    <2>2. asked' \in [Requests -> Reqs]
      BY <1>0, <1>2, <2>1 DEF Drop
    <2>3. queue' \in Seq(Requests) /\ task' = task
      BY <1>2, LeavesTheLine DEF Drop, Kept
    <2> QED
      BY <1>2, <2>2, <2>3 DEF Drop, TypeOK, tableVars, cacheVars, feedVars
  <1>3. ASSUME NEW pc \in {"ready", "error"}, task # None, Requester(pc) PROVE asked' \in [Requests -> Reqs]
    <2>0. task.for \in Requests /\ task.in \in Inputs
      BY <1>3 DEF TypeOK
    <2>1. CASE asked' = asked
      BY <1>0, <2>1
    <2>2. CASE asked' = [asked EXCEPT ![task.for].pc = pc, ![task.for].answer = task.in]
      <3>1. asked' = [asked EXCEPT ![task.for] = [asked[task.for] EXCEPT !.pc = pc, !.answer = task.in]]
        BY <1>0, <2>0, <2>2
      <3>2. [asked[task.for] EXCEPT !.pc = pc, !.answer = task.in] \in Reqs
        BY <1>0, <2>0
      <3> QED
        BY <1>0, <3>1, <3>2
    <2> QED
      BY <1>3, <2>1, <2>2 DEF Requester
  <1>4. ASSUME Projected PROVE TypeOK'
    <2>1. entry' \in {None} \cup Inputs
      BY <1>4 DEF Projected, TypeOK
    <2>2. asked' \in [Requests -> Reqs]
      BY <1>3, <1>4 DEF Projected
    <2> QED
      BY <1>4, <2>1, <2>2 DEF Projected, TypeOK, tableVars, cacheVars, feedVars
  <1>5. ASSUME ProjectionFails PROVE TypeOK'
    <2>1. asked' \in [Requests -> Reqs]
      BY <1>3, <1>5 DEF ProjectionFails
    <2> QED
      BY <1>5, <2>1 DEF ProjectionFails, TypeOK, tableVars, cacheVars, feedVars
  <1> QED
    BY <1>1, <1>2, <1>4, <1>5

LEMMA SmallTypes ==
  ASSUME TypeOK, MarkLoaded \/ Poll \/ WheelsMove
  PROVE  TypeOK'
  <1>1. CASE MarkLoaded
    BY <1>1 DEF MarkLoaded, TypeOK, tableVars, feedVars, slotVars
  <1>2. CASE Poll
    BY <1>2, DemandAssumption DEF Poll, TypeOK, tableVars, cacheVars, slotVars
  <1>3. CASE WheelsMove
    <2>1. wheels' \in BOOLEAN
      BY <1>3, Zenon DEF WheelsMove
    <2> QED
      BY <1>3, <2>1 DEF WheelsMove, TypeOK, tableVars, cacheVars, slotVars
  <1> QED
    BY <1>1, <1>2, <1>3

Inv == FlatInv /\ TypeOK

LEMMA InvStep == Inv /\ [Next]_vars => Inv'
  <1> SUFFICES ASSUME Inv, [Next]_vars PROVE Inv'
    OBVIOUS
  <1>1. FlatInv'
    BY FlatStep DEF Inv
  <1>2. CASE UNCHANGED vars
    BY <1>1, <1>2 DEF Inv, vars, TypeOK, tableVars, cacheVars, feedVars, slotVars
  <1>3. CASE Next
    <2>1. CASE Projected \/ ProjectionFails
      <3>1. PICK r \in Requests : r = task.for
        BY <2>1 DEF Projected, ProjectionFails, Inv, TypeOK
      <3>2. TypeOK'
        BY <2>1, SlotTypes DEF Inv
      <3> QED
        BY <1>1, <3>2 DEF Inv
    <2> QED
      BY <1>1, <1>3, <2>1, RefreshTypes, SaveTypes, SetTypes, ReadTypes, SlotTypes, SmallTypes DEF Inv, Next
  <1> QED
    BY <1>2, <1>3

LEMMA InvAlways == Spec => []Inv
  <1>1. Init => Inv
    BY FlatAtStart, TypeOKAtStart DEF Inv
  <1> QED
    BY <1>1, InvStep, PTL DEF Spec

(* Every variable has its type.                                            *)
THEOREM TypeCorrect == Spec => []TypeOK
  <1>1. Inv => TypeOK
    BY DEF Inv
  <1> QED
    BY <1>1, InvAlways, PTL DEF Spec
-----------------------------------------------------------------------------
(* Answers. *)

(* Only the requester of the projection under way waits for it, and it is  *)
(* computed from what that request read.                                   *)
AnswerInv ==
    /\ \A r \in Requests : asked[r].pc = "projecting" =>
           task # None /\ task.for = r /\ task.in = asked[r].in
    /\ AnswersAsRead

LEMMA ReadAnswers ==
  ASSUME Inv, AnswerInv, NEW r \in Requests, Read(r)
  PROVE  AnswerInv'
  <1>1. asked \in [Requests -> [pc : RequestSteps, loaded : BOOLEAN, in : Inputs, answer : {None} \cup Inputs]]
    BY DEF Inv, TypeOK
  <1>2. \A o \in Requests \ {r} : asked'[o] = asked[o]
    BY <1>1 DEF Read, Ask, ReadTable, ReadFeed, ReadWheels, ReadConfig, Done
  <1>3. asked'[r].pc \notin {"projecting", "ready"}
    BY <1>1 DEF Read, Ask, ReadTable, ReadFeed, ReadWheels, ReadConfig, Done, Away
  <1>4. task' = task
    BY DEF Read
  <1> QED
    BY <1>2, <1>3, <1>4 DEF AnswerInv, AnswersAsRead

LEMMA ServeAnswers ==
  ASSUME Inv, AnswerInv, NEW r \in Requests, Serve(r)
  PROVE  AnswerInv'
  <1> DEFINE in == asked[r].in
  <1>1. asked \in [Requests -> [pc : RequestSteps, loaded : BOOLEAN, in : Inputs, answer : {None} \cup Inputs]]
    BY DEF Inv, TypeOK
  <1>2. /\ task = None /\ in \in Inputs
        /\ \A o \in Requests : asked[o].pc # "projecting"
    BY <1>1 DEF Serve, AnswerInv
  <1>3. CASE Matches(in) /\ entry' = [entry EXCEPT !.limits = in.limits]
             /\ asked' = [asked EXCEPT ![r].pc = "ready", ![r].answer = entry']
    <2>1. entry' = in
      BY <1>3 DEF Matches
    <2>2. /\ asked'[r].pc = "ready" /\ asked'[r].answer = in /\ asked'[r].in = in
          /\ \A o \in Requests \ {r} : asked'[o] = asked[o]
      BY <1>1, <1>3, <2>1
    <2> QED
      BY <1>2, <2>2 DEF AnswerInv, AnswersAsRead
  <1>4. CASE asked' = [asked EXCEPT ![r].pc = "projecting"] /\ task' = [for |-> r, in |-> in]
    <2>1. /\ asked'[r].pc = "projecting" /\ asked'[r].in = in
          /\ \A o \in Requests \ {r} : asked'[o] = asked[o]
      BY <1>1, <1>4
    <2>2. task' # None /\ task'.for = r /\ task'.in = in
      BY <1>2, <1>4, NoneAssumption
    <2> QED
      BY <1>2, <2>1, <2>2 DEF AnswerInv, AnswersAsRead
  <1> QED
    BY <1>3, <1>4 DEF Serve

LEMMA DropAnswers ==
  ASSUME Inv, AnswerInv, NEW r \in Requests, Drop(r)
  PROVE  AnswerInv'
  <1>1. /\ asked'[r].pc = "away" /\ task' = task
        /\ \A o \in Requests \ {r} : asked'[o] = asked[o]
    BY DEF Drop, Kept, Inv, TypeOK, Away
  <1> QED
    BY <1>1 DEF AnswerInv, AnswersAsRead

LEMMA TaskAnswers ==
  ASSUME Inv, AnswerInv, Projected \/ ProjectionFails
  PROVE  AnswerInv'
  <1>1. PICK pc \in {"ready", "error"} : Requester(pc)
    BY DEF Projected, ProjectionFails
  <1>2. /\ task # None /\ task.for \in Requests /\ task' = None
        /\ asked \in [Requests -> [pc : RequestSteps, loaded : BOOLEAN, in : Inputs, answer : {None} \cup Inputs]]
    BY DEF Projected, ProjectionFails, Inv, TypeOK
  <1>3. CASE asked[task.for].pc # "projecting"
    <2>1. asked' = asked /\ \A o \in Requests : asked[o].pc # "projecting"
      BY <1>1, <1>2, <1>3 DEF Requester, AnswerInv
    <2> QED
      BY <2>1 DEF AnswerInv, AnswersAsRead
  <1>4. CASE asked[task.for].pc = "projecting"
    <2>1. asked' = [asked EXCEPT ![task.for].pc = pc, ![task.for].answer = task.in]
      BY <1>1, <1>4 DEF Requester
    <2>2. /\ asked'[task.for].pc = pc /\ asked'[task.for].answer = task.in
          /\ asked'[task.for].in = asked[task.for].in
          /\ \A o \in Requests \ {task.for} : asked'[o] = asked[o]
      BY <1>2, <2>1
    <2>3. task.in = asked[task.for].in
      BY <1>2, <1>4 DEF AnswerInv
    <2>4. \A o \in Requests \ {task.for} : asked[o].pc # "projecting"
      BY DEF AnswerInv
    <2> QED
      BY <1>1, <2>2, <2>3, <2>4 DEF AnswerInv, AnswersAsRead
  <1> QED
    BY <1>3, <1>4

LEMMA OthersLeaveSlot ==
  ASSUME [Next]_vars
  PROVE  \/ \E r \in Requests : Read(r) \/ Serve(r) \/ Drop(r)
         \/ Projected \/ ProjectionFails
         \/ UNCHANGED slotVars
  <1>1. CASE UNCHANGED vars
    BY <1>1 DEF vars
  <1>2. ASSUME NEW t \in Tables, RefreshLoad(t) \/ RefreshStore(t) PROVE UNCHANGED slotVars
    BY <1>2 DEF RefreshLoad, RefreshStore
  <1>3. ASSUME NEW s \in Setters, Set(s) PROVE UNCHANGED slotVars
    BY <1>3 DEF Set, CallLoad, CallStore, CallLeaves
  <1>4. ASSUME NEW s \in Savers, Save(s) PROVE UNCHANGED slotVars
    BY <1>4 DEF Save, CallLoad, CallStore, CallLeaves
  <1>5. CASE MarkLoaded \/ Poll \/ WheelsMove
    BY <1>5 DEF MarkLoaded, Poll, WheelsMove
  <1> QED
    BY <1>1, <1>2, <1>3, <1>4, <1>5 DEF Next

LEMMA AnswerStep == Inv /\ AnswerInv /\ [Next]_vars => AnswerInv'
  <1>1. ASSUME AnswerInv, UNCHANGED slotVars PROVE AnswerInv'
    BY <1>1 DEF AnswerInv, AnswersAsRead, slotVars
  <1> QED
    BY <1>1, OthersLeaveSlot, ReadAnswers, ServeAnswers, DropAnswers, TaskAnswers

(* A request is answered from exactly what it read, whoever projected      *)
(* before it and whatever moved while it waited.                           *)
THEOREM AnsweredAsRead == Spec => []AnswersAsRead
  <1>1. Init => AnswerInv
    BY DEF Init, AnswerInv, AnswersAsRead, Away
  <1>2. AnswerInv => AnswersAsRead
    BY DEF AnswerInv
  <1> QED
    BY <1>1, <1>2, AnswerStep, InvAlways, PTL DEF Spec

(* The entry never goes back to an older publish.                          *)
THEOREM EntryMovesForward == Spec => EntryForward
  <1>1. ASSUME Inv, [Next]_vars, entry' # entry, entry # None
        PROVE  entry' # None /\ entry.publish <= entry'.publish
    <2>1. entry \in Inputs
      BY <1>1 DEF Inv, TypeOK
    <2>2. CASE Projected
      <3>1. task.in \in Inputs /\ entry' = task.in /\ Replaces(task.in)
        BY <1>1, <2>2 DEF Projected, Inv, TypeOK
      <3> QED
        BY <1>1, <3>1, NoneAssumption DEF Replaces
    <2>3. ASSUME NEW r \in Requests, Serve(r) PROVE entry' # None /\ entry.publish <= entry'.publish
      <3>1. entry' = asked[r].in /\ [entry EXCEPT !.limits = asked[r].in.limits] = asked[r].in
        BY <1>1, <2>3 DEF Serve, Matches
      <3>2. asked[r].in \in Inputs /\ entry.publish \in Nat
        <4>1. asked[r].in \in Inputs
          BY <1>1 DEF Inv, TypeOK
        <4>2. entry.publish \in Nat
          BY <2>1 DEF Inputs
        <4> QED
          BY <4>1, <4>2
      <3>3. asked[r].in.publish = entry.publish
        BY <2>1, <3>1 DEF Inputs
      <3> QED
        BY <3>1, <3>2, <3>3, NoneAssumption
    <2>4. ~ProjectionFails /\ \A r \in Requests : ~Read(r) /\ ~Drop(r)
      BY <1>1 DEF ProjectionFails, Read, Drop
    <2>5. ~UNCHANGED slotVars
      BY <1>1 DEF slotVars
    <2> QED
      BY <1>1, <2>2, <2>3, <2>4, <2>5, OthersLeaveSlot
  <1>2. Inv /\ [Next]_vars => [entry # None => entry' # None /\ entry.publish <= entry'.publish]_entry
    BY <1>1
  <1> QED
    BY <1>2, InvAlways, PTL DEF Spec, EntryForward
-----------------------------------------------------------------------------
(* A replica that starts. *)

(* The volumes are in memory before their flag is set, and stay there.     *)
GapInv ==
    /\ loaded => cache.sectors > 0
    /\ reading["sectors"] # None => reading["sectors"] > 0
    /\ \A r \in Requests : asked[r].pc = "table" /\ asked[r].loaded => cache.sectors > 0
    /\ NoFalseGap

LEMMA VolumesStay ==
  ASSUME Inv, GapInv, [Next]_vars
  PROVE  /\ cache.sectors > 0 => cache'.sectors > 0
         /\ reading'["sectors"] # None => reading'["sectors"] > 0
  <1>0. /\ cache \in [sectors : 0..ReloadBound, limits : Limits, consolidations : Arrangements]
        /\ reading = [p \in Tables \cup Savers \cup Setters |-> reading[p]]
        /\ "sectors" \in Tables
    BY DEF Inv, TypeOK, Tables
  <1>1. ASSUME NEW t \in Tables, RefreshLoad(t) PROVE cache' = cache /\ (reading'["sectors"] # None => reading'["sectors"] > 0)
    <2>1. cache' = cache /\ reading' = [reading EXCEPT ![t] = Stored(t)]
      BY <1>1 DEF RefreshLoad
    <2>2. t = "sectors" => reading'["sectors"] = cache.sectors + 1
      BY <1>0, <2>1, TableValues DEF Inv
    <2>3. t # "sectors" => reading'["sectors"] = reading["sectors"]
      BY <1>0, <2>1
    <2> QED
      BY <1>0, <2>1, <2>2, <2>3 DEF GapInv
  <1>2. ASSUME NEW t \in Tables, RefreshStore(t)
        PROVE  /\ cache.sectors > 0 => cache'.sectors > 0
               /\ reading'["sectors"] # None => reading'["sectors"] > 0
    <2>1. reading[t] # None /\ cache' = [cache EXCEPT ![t] = reading[t]] /\ reading' = [reading EXCEPT ![t] = None]
      BY <1>2 DEF RefreshStore, Reloaded
    <2>2. cache'.sectors = IF t = "sectors" THEN reading["sectors"] ELSE cache.sectors
      BY <1>0, <2>1
    <2>3. reading'["sectors"] = IF t = "sectors" THEN None ELSE reading["sectors"]
      BY <1>0, <2>1
    <2> QED
      BY <2>1, <2>2, <2>3 DEF GapInv
  <1>3. ASSUME NEW s \in Savers \cup Setters, NEW t \in {"limits", "consolidations"}, NEW pc,
               CallLoad(t, s, pc) \/ CallStore(t, s, pc) \/ CallLeaves(s, pc)
        PROVE  cache'.sectors = cache.sectors /\ reading'["sectors"] = reading["sectors"]
    <2>1. s # "sectors"
      BY <1>0, <1>3, ReaderAssumption
    <2> QED
      BY <1>0, <1>3, <2>1 DEF CallLoad, CallStore, CallLeaves, cacheVars
  <1>4. ASSUME NEW s \in Savers, Save(s) PROVE cache'.sectors = cache.sectors /\ reading'["sectors"] = reading["sectors"]
    BY <1>3, <1>4 DEF Save, cacheVars
  <1>5. ASSUME NEW s \in Setters, Set(s) PROVE cache'.sectors = cache.sectors /\ reading'["sectors"] = reading["sectors"]
    BY <1>3, <1>5 DEF Set, cacheVars
  <1>6. ASSUME NEW r \in Requests, Read(r) \/ Serve(r) \/ Drop(r) PROVE UNCHANGED <<cache, reading>>
    BY <1>6 DEF Read, Serve, Drop, cacheVars
  <1>7. CASE MarkLoaded \/ Poll \/ WheelsMove \/ Projected \/ ProjectionFails \/ UNCHANGED vars
    BY <1>7 DEF MarkLoaded, Poll, WheelsMove, Projected, ProjectionFails, vars, cacheVars, GapInv
  <1> QED
    BY <1>1, <1>2, <1>4, <1>5, <1>6, <1>7 DEF Next, GapInv

LEMMA GapStep == Inv /\ GapInv /\ [Next]_vars => GapInv'
  <1> SUFFICES ASSUME Inv, GapInv, [Next]_vars PROVE GapInv'
    OBVIOUS
  <1>0. asked \in [Requests -> [pc : RequestSteps, loaded : BOOLEAN, in : Inputs, answer : {None} \cup Inputs]]
    BY DEF Inv, TypeOK
  <1>1. loaded' => loaded \/ cache.sectors > 0
    <2>1. ASSUME loaded' # loaded PROVE MarkLoaded
      <3>1. ASSUME NEW t \in Tables, RefreshLoad(t) \/ RefreshStore(t) PROVE loaded' = loaded
        BY <3>1 DEF RefreshLoad, RefreshStore
      <3>2. ASSUME NEW s \in Savers, Save(s) PROVE loaded' = loaded
        BY <3>2 DEF Save, CallLoad, CallStore, CallLeaves, cacheVars
      <3>3. ASSUME NEW s \in Setters, Set(s) PROVE loaded' = loaded
        BY <3>3 DEF Set, CallLoad, CallStore, CallLeaves, cacheVars
      <3>4. ASSUME NEW r \in Requests, Read(r) \/ Serve(r) \/ Drop(r) PROVE loaded' = loaded
        BY <3>4 DEF Read, Serve, Drop, cacheVars
      <3>5. Poll \/ WheelsMove \/ Projected \/ ProjectionFails \/ UNCHANGED vars => loaded' = loaded
        BY DEF Poll, WheelsMove, Projected, ProjectionFails, vars, cacheVars
      <3> QED
        BY <2>1, <3>1, <3>2, <3>3, <3>4, <3>5 DEF Next
    <2>2. MarkLoaded => cache.sectors > 0
      BY DEF MarkLoaded, TableStored
    <2> QED
      BY <2>1, <2>2
  <1>2. ASSUME NEW r \in Requests
        PROVE  /\ asked'[r].pc = "table" /\ asked'[r].loaded => cache'.sectors > 0
               /\ asked'[r].pc # "no_sector_data"
    <2>1. ASSUME asked'[r] = asked[r] PROVE <1>2!2
      BY <2>1, VolumesStay DEF GapInv, NoFalseGap
    <2>2. ASSUME NEW o \in Requests, Read(o) PROVE <1>2!2
      <3>1. cache' = cache
        BY <2>2 DEF Read, cacheVars
      <3>2. CASE o # r
        BY <1>0, <2>1, <2>2, <3>2 DEF Read, Ask, ReadTable, ReadFeed, ReadWheels, ReadConfig, Done
      <3>3. CASE o = r /\ Ask(r)
        BY <1>0, <3>1, <3>3 DEF Ask, GapInv
      <3>4. CASE o = r /\ ReadTable(r)
        <4>1. asked[r].loaded => cache.sectors # 0
          BY <3>4 DEF ReadTable, GapInv, Inv, TypeOK
        <4>2. asked'[r].pc \in {"pending", "feed"}
          BY <1>0, <3>4, <4>1 DEF ReadTable
        <4> QED
          BY <4>2
      <3>5. CASE o = r /\ (ReadFeed(r) \/ ReadWheels(r) \/ ReadConfig(r) \/ Done(r))
        BY <1>0, <3>5 DEF ReadFeed, ReadWheels, ReadConfig, Done, Away
      <3> QED
        BY <2>2, <3>2, <3>3, <3>4, <3>5 DEF Read
    <2>3. ASSUME NEW o \in Requests, Serve(o) PROVE <1>2!2
      BY <1>0, <2>1, <2>3 DEF Serve
    <2>4. ASSUME NEW o \in Requests, Drop(o) PROVE <1>2!2
      BY <1>0, <2>1, <2>4 DEF Drop, Away
    <2>5. ASSUME Projected \/ ProjectionFails PROVE <1>2!2
      <3>1. PICK pc \in {"ready", "error"} : Requester(pc)
        BY <2>5 DEF Projected, ProjectionFails
      <3>2. asked'[r] = asked[r] \/ asked'[r].pc = pc
        BY <1>0, <3>1 DEF Requester
      <3> QED
        BY <2>1, <3>2
    <2>6. ASSUME UNCHANGED slotVars PROVE <1>2!2
      BY <2>1, <2>6 DEF slotVars
    <2> QED
      BY <2>2, <2>3, <2>4, <2>5, <2>6, OthersLeaveSlot
  <1> QED
    BY <1>1, <1>2, VolumesStay DEF GapInv, NoFalseGap

(* An ARTCC that has sectors never answers no_sector_data: a request reads *)
(* the flag before the table, the reload stores the table before the flag. *)
THEOREM NoFalseGapEver == Spec => []NoFalseGap
  <1>1. Init => GapInv
    <2> SUFFICES ASSUME Init PROVE GapInv
      OBVIOUS
    <2>1. loaded => cache.sectors > 0
      <3>1. loaded => Warm
        BY DEF Init
      <3>2. Warm => cache.sectors = 1
        BY DEF Init
      <3> QED
        BY <3>1, <3>2
    <2>2. reading["sectors"] = None /\ \A r \in Requests : asked[r] = Away
      BY DEF Init, Tables
    <2> QED
      BY <2>1, <2>2 DEF GapInv, NoFalseGap, Away
  <1>2. GapInv => NoFalseGap
    BY DEF GapInv
  <1> QED
    BY <1>1, <1>2, GapStep, InvAlways, PTL DEF Spec
-----------------------------------------------------------------------------
(* Tables in memory. *)

Steady == Warm /\ env \cap {"overlap", "replica", "fail"} = {}

(* Where reloads do not overlap, one at a time has a table in hand, and    *)
(* what it has is what is stored.                                          *)
LimitsFollow ==
    /\ reading["limits"] # None =>
           reading["limits"] = limit /\ \A s \in Setters : sets[s].pc \notin {"load", "store"}
    /\ \A s \in Setters : sets[s].pc = "store" => reading[s] = limit
    /\ \A s, o \in Setters : sets[s].pc \in {"load", "store"} /\ sets[o].pc \in {"load", "store"} => s = o
    /\ (\A s \in Setters : sets[s].pc \notin {"load", "store"}) => cache.limits = limit

RowsFollow ==
    /\ reading["consolidations"] # None =>
           reading["consolidations"] = rows /\ \A s \in Savers : saves[s].pc \notin {"load", "store"}
    /\ \A s \in Savers : saves[s].pc = "store" => reading[s] = rows
    /\ \A s, o \in Savers : saves[s].pc \in {"load", "store"} /\ saves[o].pc \in {"load", "store"} => s = o
    /\ (\A s \in Savers : saves[s].pc \notin {"load", "store"}) => cache.consolidations = rows

CurrentInv == Steady => LimitsFollow /\ RowsFollow

LEMMA ConditionsStay == [Next]_vars => env' = env
  <1> SUFFICES ASSUME [Next]_vars PROVE env' = env
    OBVIOUS
  <1>1. ASSUME NEW t \in Tables, RefreshLoad(t) \/ RefreshStore(t) PROVE env' = env
    BY <1>1 DEF RefreshLoad, RefreshStore
  <1>2. ASSUME NEW s \in Savers, Save(s) PROVE env' = env
    BY <1>2 DEF Save, CallLoad, CallStore, CallLeaves, BeginBatch, AdvisoryLock, ReleaseIn, Resolve, Upsert,
                Move, Rollback, Commit, Release
  <1>3. ASSUME NEW s \in Setters, Set(s) PROVE env' = env
    BY <1>3 DEF Set, CallLoad, CallStore, CallLeaves
  <1>4. ASSUME NEW r \in Requests, Read(r) \/ Serve(r) \/ Drop(r) PROVE env' = env
    BY <1>4 DEF Read, Serve, Drop
  <1>5. MarkLoaded \/ Poll \/ WheelsMove \/ Projected \/ ProjectionFails \/ UNCHANGED vars => env' = env
    BY DEF MarkLoaded, Poll, WheelsMove, Projected, ProjectionFails, vars
  <1> QED
    BY <1>1, <1>2, <1>3, <1>4, <1>5 DEF Next

LEMMA RefreshFollows ==
  ASSUME Inv, Steady, LimitsFollow, RowsFollow, NEW t \in Tables, RefreshLoad(t) \/ RefreshStore(t)
  PROVE  LimitsFollow' /\ RowsFollow'
  <1>0. /\ reading = [p \in Tables \cup Savers \cup Setters |-> reading[p]]
        /\ cache \in [sectors : 0..ReloadBound, limits : Limits, consolidations : Arrangements]
        /\ "limits" \in Tables /\ "consolidations" \in Tables
        /\ UNCHANGED <<rows, saves, limit, sets>>
    BY DEF Inv, TypeOK, Tables, RefreshLoad, RefreshStore, tableVars
  <1>1. \A p \in (Tables \cup Savers \cup Setters) \ {t} : reading'[p] = reading[p]
    BY <1>0 DEF RefreshLoad, RefreshStore
  <1>2. \A s \in Savers \cup Setters : reading'[s] = reading[s]
    BY <1>1, ReaderAssumption
  <1>3. CASE RefreshLoad(t)
    <2>1. Alone(t) /\ cache' = cache /\ reading'[t] = Stored(t)
      BY <1>0, <1>3 DEF RefreshLoad
    <2>2. LimitsFollow'
      <3>1. CASE t = "limits"
        BY <1>0, <1>2, <2>1, <3>1, TableValues DEF LimitsFollow, Alone, Steady, Inv
      <3>2. CASE t # "limits"
        BY <1>0, <1>1, <1>2, <2>1, <3>2 DEF LimitsFollow
      <3> QED
        BY <3>1, <3>2
    <2>3. RowsFollow'
      <3>1. CASE t = "consolidations"
        BY <1>0, <1>2, <2>1, <3>1, TableValues DEF RowsFollow, Alone, Steady, Inv
      <3>2. CASE t # "consolidations"
        BY <1>0, <1>1, <1>2, <2>1, <3>2 DEF RowsFollow
      <3> QED
        BY <3>1, <3>2
    <2> QED
      BY <2>2, <2>3
  <1>4. CASE RefreshStore(t)
    <2>1. reading[t] # None /\ cache' = [cache EXCEPT ![t] = reading[t]] /\ reading'[t] = None
      BY <1>0, <1>4 DEF RefreshStore, Reloaded
    <2>2. LimitsFollow'
      <3>1. CASE t = "limits"
        BY <1>0, <1>2, <2>1, <3>1 DEF LimitsFollow
      <3>2. CASE t # "limits"
        BY <1>0, <1>1, <1>2, <2>1, <3>2 DEF LimitsFollow, Tables
      <3> QED
        BY <3>1, <3>2
    <2>3. RowsFollow'
      <3>1. CASE t = "consolidations"
        BY <1>0, <1>2, <2>1, <3>1 DEF RowsFollow
      <3>2. CASE t # "consolidations"
        BY <1>0, <1>1, <1>2, <2>1, <3>2 DEF RowsFollow, Tables
      <3> QED
        BY <3>1, <3>2
    <2> QED
      BY <2>2, <2>3
  <1> QED
    BY <1>3, <1>4

LEMMA SetFollows ==
  ASSUME Inv, Steady, LimitsFollow, RowsFollow, NEW s \in Setters, Set(s)
  PROVE  LimitsFollow' /\ RowsFollow'
  <1>0. /\ reading = [p \in Tables \cup Savers \cup Setters |-> reading[p]]
        /\ cache \in [sectors : 0..ReloadBound, limits : Limits, consolidations : Arrangements]
        /\ sets \in [Setters -> [pc : {"idle", "compare", "write", "load", "store"}, limit : Limits]]
        /\ "limits" \in Tables /\ "consolidations" \in Tables
        /\ s \notin Tables /\ s \notin Savers
    BY ReaderAssumption DEF Inv, TypeOK, Tables
  <1>1. CASE /\ BeginSet(s) \/ Compare(s)
             /\ UNCHANGED <<rows, saves, limit, cacheVars, feedVars, slotVars, env>>
    <2>1. /\ \A o \in Setters \ {s} : sets'[o] = sets[o]
          /\ sets[s].pc \notin {"load", "store"} /\ sets'[s].pc \notin {"load", "store"}
      BY <1>0, <1>1 DEF BeginSet, Compare, NotSet
    <2>2. \A o \in Setters : sets'[o].pc \in {"load", "store"} => sets'[o] = sets[o]
      BY <2>1
    <2>3. \A o \in Setters : sets[o].pc \in {"load", "store"} => sets'[o] = sets[o]
      BY <2>1
    <2> QED
      BY <1>1, <2>2, <2>3 DEF LimitsFollow, RowsFollow, cacheVars
  <1>2. CASE WriteLimit(s) /\ UNCHANGED <<rows, saves, cacheVars, feedVars, slotVars>>
    <2>1. /\ \A o \in Setters \ {s} : sets'[o] = sets[o]
          /\ sets'[s].pc = "load"
      BY <1>0, <1>2 DEF WriteLimit
    <2>2. reading["limits"] = None /\ \A o \in Setters : sets[o].pc \notin {"load", "store"}
      BY <1>2 DEF WriteLimit, Alone, Steady
    <2> QED
      BY <1>2, <2>1, <2>2 DEF LimitsFollow, RowsFollow, cacheVars
  <1>3. CASE CallLoad("limits", s, sets[s].pc) /\ sets' = [sets EXCEPT ![s].pc = "store"] /\ UNCHANGED saves
    <2>1. /\ \A o \in Setters \ {s} : sets'[o] = sets[o]
          /\ sets[s].pc = "load" /\ sets'[s].pc = "store"
      BY <1>0, <1>3 DEF CallLoad
    <2>2. /\ reading'[s] = limit /\ UNCHANGED <<rows, limit, cache>>
          /\ \A p \in (Tables \cup Savers \cup Setters) \ {s} : reading'[p] = reading[p]
      BY <1>0, <1>3, TableValues DEF CallLoad, Inv
    <2>3. /\ reading["limits"] = None
          /\ \A o \in Setters \ {s} : sets[o].pc \notin {"load", "store"}
      BY <2>1 DEF LimitsFollow
    <2>4. LimitsFollow'
      BY <1>0, <1>3, <2>1, <2>2, <2>3 DEF LimitsFollow
    <2>5. RowsFollow'
      BY <1>0, <1>3, <2>2 DEF RowsFollow
    <2> QED
      BY <2>4, <2>5
  <1>4. CASE CallStore("limits", s, sets[s].pc) /\ sets' = [sets EXCEPT ![s] = NotSet] /\ UNCHANGED saves
    <2>1. /\ \A o \in Setters \ {s} : sets'[o] = sets[o]
          /\ sets[s].pc = "store" /\ sets'[s].pc = "idle"
      BY <1>0, <1>4 DEF CallStore, NotSet
    <2>2. /\ UNCHANGED <<rows, limit>> /\ cache'.limits = limit
          /\ cache'.consolidations = cache.consolidations
          /\ \A p \in (Tables \cup Savers \cup Setters) \ {s} : reading'[p] = reading[p]
      BY <1>0, <1>4, <2>1 DEF CallStore, LimitsFollow
    <2>3. \A o \in Setters \ {s} : sets[o].pc \notin {"load", "store"}
      BY <2>1 DEF LimitsFollow
    <2> QED
      BY <1>0, <1>4, <2>1, <2>2, <2>3 DEF LimitsFollow, RowsFollow
  <1>5. ~CallLeaves(s, sets[s].pc)
    BY DEF CallLeaves, NoReload, Elsewhere, Steady
  <1> QED
    BY <1>1, <1>2, <1>3, <1>4, <1>5 DEF Set

(* Until it commits a save is between no write and its reload.             *)
LEMMA SaveSteps ==
  ASSUME Inv, NEW s \in Savers,
         \/ BeginBatch(s) \/ AdvisoryLock(s) \/ ReleaseIn(s) \/ Resolve(s) \/ Upsert(s) \/ Move(s)
         \/ Rollback(s)
  PROVE  /\ \A o \in Savers \ {s} : saves'[o] = saves[o]
         /\ saves[s].pc \notin {"load", "store"} /\ saves'[s].pc \notin {"load", "store"}
         /\ rows' = rows
  <1>0. saves \in [Savers -> Saves] /\ saves[s] \in Saves
    BY DEF Inv, TypeOK
  <1>1. /\ \A o \in Savers \ {s} : saves'[o] = saves[o]
        /\ saves[s].pc \notin {"load", "store"}
        /\ rows' = rows
    BY <1>0 DEF BeginBatch, AdvisoryLock, ReleaseIn, Resolve, Upsert, Move, Rollback, InTransaction
  <1>2. saves'[s].pc \notin {"load", "store"}
    <2>1. CASE BeginBatch(s)
      <3>1. PICK b \in Batches : saves' = [saves EXCEPT ![s] = [Idle EXCEPT !.pc = "lock", !.batch = b]]
        BY <2>1 DEF BeginBatch
      <3>2. saves'[s] = [Idle EXCEPT !.pc = "lock", !.batch = b]
        BY <1>0, <3>1
      <3> QED
        BY <3>2 DEF Idle
    <2>2. CASE AdvisoryLock(s)
      BY <1>0, <2>2 DEF AdvisoryLock, Saves
    <2>3. CASE ReleaseIn(s)
      <3> DEFINE next == IF ToSave(saves[s].batch) = {} THEN "commit" ELSE "resolve"
      <3>1. next \notin {"load", "store"}
        OBVIOUS
      <3>2. saves'[s].pc = next
        BY <1>0, <2>3 DEF ReleaseIn, Saves
      <3> QED
        BY <3>1, <3>2
    <2>4. CASE saves' = [saves EXCEPT ![s] = Idle]
      BY <1>0, <2>4, IdleIsSave
    <2>5. CASE saves' = [saves EXCEPT ![s].resolved = Resolved(s), ![s].pc = "upsert"]
      BY <1>0, <2>5 DEF Saves
    <2>6. CASE Upsert(s)
      BY <1>0, <2>6 DEF Upsert, Saves
    <2>7. CASE Move(s)
      <3> DEFINE next == IF saves[s].todo \ {Source(s)} = {} THEN "commit" ELSE "resolve"
      <3>1. next \notin {"load", "store"}
        OBVIOUS
      <3>2. saves'[s].pc = next
        BY <1>0, <2>7 DEF Move, Saves
      <3> QED
        BY <3>1, <3>2
    <2> QED
      BY <2>1, <2>2, <2>3, <2>4, <2>5, <2>6, <2>7 DEF Resolve, Rollback
  <1> QED
    BY <1>1, <1>2

LEMMA SaveFollows ==
  ASSUME Inv, Steady, LimitsFollow, RowsFollow, NEW s \in Savers, Save(s)
  PROVE  LimitsFollow' /\ RowsFollow'
  <1>0. /\ reading = [p \in Tables \cup Savers \cup Setters |-> reading[p]]
        /\ cache \in [sectors : 0..ReloadBound, limits : Limits, consolidations : Arrangements]
        /\ saves \in [Savers -> Saves] /\ saves[s] \in Saves
        /\ "limits" \in Tables /\ "consolidations" \in Tables
        /\ s \notin Tables /\ s \notin Setters
    BY ReaderAssumption DEF Inv, TypeOK, Tables
  <1>1. CASE /\ \/ BeginBatch(s) \/ AdvisoryLock(s) \/ ReleaseIn(s) \/ Resolve(s) \/ Upsert(s) \/ Move(s)
                \/ Rollback(s)
             /\ UNCHANGED <<limit, sets, cacheVars, feedVars, slotVars>>
    <2>1. /\ \A o \in Savers \ {s} : saves'[o] = saves[o]
          /\ saves[s].pc \notin {"load", "store"} /\ saves'[s].pc \notin {"load", "store"}
          /\ rows' = rows
      BY <1>1, SaveSteps
    <2>2. \A o \in Savers : saves'[o].pc \in {"load", "store"} => saves'[o] = saves[o]
      BY <2>1
    <2>3. \A o \in Savers : saves[o].pc \in {"load", "store"} => saves'[o] = saves[o]
      BY <2>1
    <2> QED
      BY <1>1, <2>1, <2>2, <2>3 DEF LimitsFollow, RowsFollow, cacheVars
  <1>2. CASE Alone("consolidations") /\ (Commit(s) \/ Release(s)) /\ UNCHANGED <<limit, sets, cacheVars, feedVars, slotVars>>
    <2>1. \A o \in Savers \ {s} : saves'[o] = saves[o]
      BY <1>0, <1>2 DEF Commit, Release
    <2>2. saves'[s].pc = "load"
      <3>1. CASE Commit(s)
        BY <1>0, <3>1 DEF Commit, Saves
      <3>2. CASE Release(s)
        BY <1>0, <3>2 DEF Release, Idle
      <3> QED
        BY <1>2, <3>1, <3>2
    <2>3. reading["consolidations"] = None /\ \A o \in Savers : saves[o].pc \notin {"load", "store"}
      BY <1>2 DEF Alone, Steady
    <2> QED
      BY <1>2, <2>1, <2>2, <2>3 DEF LimitsFollow, RowsFollow, cacheVars
  <1>3. CASE CallLoad("consolidations", s, saves[s].pc) /\ saves' = [saves EXCEPT ![s].pc = "store"] /\ UNCHANGED sets
    <2>1. /\ \A o \in Savers \ {s} : saves'[o] = saves[o]
          /\ saves[s].pc = "load" /\ saves'[s].pc = "store"
      BY <1>0, <1>3 DEF CallLoad, Saves
    <2>2. /\ reading'[s] = rows /\ UNCHANGED <<rows, limit, cache>>
          /\ \A p \in (Tables \cup Savers \cup Setters) \ {s} : reading'[p] = reading[p]
      BY <1>0, <1>3, TableValues DEF CallLoad, Inv
    <2>3. /\ reading["consolidations"] = None
          /\ \A o \in Savers \ {s} : saves[o].pc \notin {"load", "store"}
      BY <2>1 DEF RowsFollow
    <2>4. RowsFollow'
      BY <1>0, <1>3, <2>1, <2>2, <2>3 DEF RowsFollow
    <2>5. LimitsFollow'
      BY <1>0, <1>3, <2>2 DEF LimitsFollow
    <2> QED
      BY <2>4, <2>5
  <1>4. CASE CallStore("consolidations", s, saves[s].pc) /\ saves' = [saves EXCEPT ![s] = Idle] /\ UNCHANGED sets
    <2>1. /\ \A o \in Savers \ {s} : saves'[o] = saves[o]
          /\ saves[s].pc = "store" /\ saves'[s].pc = "idle"
      BY <1>0, <1>4 DEF CallStore, Idle
    <2>2. /\ UNCHANGED <<rows, limit>> /\ cache'.limits = cache.limits
          /\ cache'.consolidations = rows
          /\ \A p \in (Tables \cup Savers \cup Setters) \ {s} : reading'[p] = reading[p]
      BY <1>0, <1>4, <2>1 DEF CallStore, RowsFollow
    <2>3. \A o \in Savers \ {s} : saves[o].pc \notin {"load", "store"}
      BY <2>1 DEF RowsFollow
    <2> QED
      BY <1>0, <1>4, <2>1, <2>2, <2>3 DEF LimitsFollow, RowsFollow
  <1>5. ~CallLeaves(s, saves[s].pc)
    BY DEF CallLeaves, NoReload, Elsewhere, Steady
  <1> QED
    BY <1>1, <1>2, <1>3, <1>4, <1>5 DEF Save

LEMMA CurrentStep == Inv /\ CurrentInv /\ [Next]_vars => CurrentInv'
  <1> SUFFICES ASSUME Inv, CurrentInv, [Next]_vars, Steady' PROVE LimitsFollow' /\ RowsFollow'
    BY DEF CurrentInv
  <1>1. Steady /\ LimitsFollow /\ RowsFollow
    BY ConditionsStay DEF Steady, Warm, CurrentInv
  <1>2. ASSUME NEW r \in Requests, Read(r) \/ Serve(r) \/ Drop(r)
        PROVE  UNCHANGED <<rows, saves, limit, sets, cache, reading>>
    BY <1>2 DEF Read, Serve, Drop, tableVars, cacheVars
  <1>3. CASE MarkLoaded \/ Poll \/ WheelsMove \/ Projected \/ ProjectionFails \/ UNCHANGED vars
    <2>1. UNCHANGED <<rows, saves, limit, sets, cache, reading>>
      BY <1>3 DEF MarkLoaded, Poll, WheelsMove, Projected, ProjectionFails, vars, tableVars, cacheVars
    <2> QED
      BY <1>1, <2>1 DEF LimitsFollow, RowsFollow
  <1>4. ASSUME UNCHANGED <<rows, saves, limit, sets, cache, reading>> PROVE LimitsFollow' /\ RowsFollow'
    BY <1>1, <1>4 DEF LimitsFollow, RowsFollow
  <1> QED
    BY <1>1, <1>2, <1>3, <1>4, RefreshFollows, SaveFollows, SetFollows DEF Next

(* Where reloads do not overlap and every call is served here and reloads, *)
(* a table in memory is the stored one as soon as no call is between its   *)
(* write and its reload.                                                   *)
THEOREM TablesCurrent == Spec => []CacheCurrent
  <1>1. Init => CurrentInv
    <2> SUFFICES ASSUME Init, Warm PROVE LimitsFollow /\ RowsFollow
      BY DEF CurrentInv, Steady
    <2>1. /\ reading["limits"] = None /\ reading["consolidations"] = None
          /\ limit = Default /\ cache.limits = Default /\ cache.consolidations = rows
      BY DEF Init, Tables
    <2>2. /\ \A s \in Setters : sets[s].pc = "idle"
          /\ \A s \in Savers : saves[s].pc = "idle"
      BY IdleIsSave DEF Init, ConsolidationsInit, NotSet
    <2> QED
      BY <2>1, <2>2 DEF LimitsFollow, RowsFollow
  <1>2. CurrentInv => CacheCurrent
    BY DEF CurrentInv, CacheCurrent, Steady, LimitsFollow, RowsFollow
  <1> QED
    BY <1>1, <1>2, CurrentStep, InvAlways, PTL DEF Spec
-----------------------------------------------------------------------------
(* A batch lands whole. *)

(* What a call shows once the entry it is at is done, and the entries left *)
(* after that one.                                                         *)
Shown(a, c) ==
    IF c.pc = "move"
    THEN [y \in Sectors |-> IF Over(a, c.draft)[y] = Min(c.todo) THEN c.resolved ELSE Over(a, c.draft)[y]]
    ELSE Over(a, c.draft)

Left(c) == IF c.pc = "move" THEN c.todo \ {Min(c.todo)} ELSE c.todo

(* The target of x is not one that leaves x behind.                        *)
Stays(a, b, x) == (b[x] \in ToSave(b) /\ b[x] > x) => a[b[x]] = OwnRow

(* Every entry done so far is landed in n, and none of those left has been *)
(* given a row that it lacked.                                             *)
Lands(a, b, left, n) ==
    /\ left \subseteq ToSave(b)
    /\ \A x \in DOMAIN b : b[x] = OwnRow => n[x] = OwnRow
    /\ \A x \in ToSave(b) \ left : \A y \in left : x < y
    /\ \A y \in left : a[y] = OwnRow => n[y] = OwnRow
    /\ \A x \in ToSave(b) \ left : Stays(a, b, x) => RowOf(n, x) = RowOf(n, b[x])

Landing(a, c) ==
    /\ c.pc \in {"lock", "release", "resolve", "upsert", "move", "commit"} => NoSelfReference(c.batch)
    /\ c.pc \in {"resolve", "upsert", "move", "commit"} => Lands(a, c.batch, Left(c), Shown(a, c))
    /\ c.pc = "upsert" => c.resolved = RowOf(Over(a, c.draft), c.batch[Min(c.todo)])
    /\ c.pc = "commit" => c.todo = {}

LandInv == "release" \notin env => \A s \in Savers : Landing(rows, saves[s])

LEMMA OneEntry ==
  ASSUME NEW o \in Arrangements, IsFlat(o), NEW n \in Arrangements, NEW z \in Sectors, NEW t,
         MayWorkAt(o, z, t), \A y \in Sectors : n[y] = IF y = z \/ o[y] = z THEN t ELSE o[y]
  PROVE  /\ RowOf(n, z) = t
         /\ \A y \in Sectors \ {z} : RowOf(n, y) = IF RowOf(o, y) = z THEN t ELSE RowOf(o, y)
         /\ \A y \in Sectors \ {z} : o[y] = OwnRow => n[y] = OwnRow
  BY NotSectors DEF MayWorkAt, RowOf, IsFlat, Arrangements

LEMMA EntryLands ==
  ASSUME NEW a \in Arrangements, NEW b \in Batches, NoSelfReference(b),
         NEW left, NEW o \in Arrangements, IsFlat(o), Lands(a, b, left, o),
         NEW n \in Arrangements, NEW z \in left, \A y \in left : z =< y, NEW t,
         t = RowOf(o, b[z]), MayWorkAt(o, z, t),
         \A y \in Sectors : n[y] = IF y = z \/ o[y] = z THEN t ELSE o[y]
  PROVE  Lands(a, b, left \ {z}, n)
  <1>1. /\ DOMAIN b \subseteq Sectors /\ ToSave(b) \subseteq DOMAIN b
        /\ \A x \in ToSave(b) : b[x] \in Sectors
        /\ left \subseteq ToSave(b) /\ z \in Sectors /\ ToSave(b) \subseteq Nat /\ b[z] \in Sectors
    BY BatchFacts, NotSectors DEF Lands
  <1>2. /\ RowOf(n, z) = t
        /\ \A y \in Sectors \ {z} : RowOf(n, y) = IF RowOf(o, y) = z THEN t ELSE RowOf(o, y)
        /\ \A y \in Sectors \ {z} : o[y] = OwnRow => n[y] = OwnRow
    BY <1>1, OneEntry
  <1>3. ASSUME NEW x \in DOMAIN b, b[x] = OwnRow PROVE n[x] = OwnRow
    <2>1. x # z
      BY <1>1, <1>3 DEF ToSave
    <2> QED
      BY <1>1, <1>2, <1>3, <2>1 DEF Lands
  <1>4. ASSUME NEW x \in ToSave(b) \ (left \ {z}), NEW y \in left \ {z} PROVE x < y
    <2>1. CASE x = z
      BY <1>1, <2>1
    <2>2. CASE x # z
      BY <2>2 DEF Lands
    <2> QED
      BY <2>1, <2>2
  <1>5. ASSUME NEW y \in left \ {z}, a[y] = OwnRow PROVE n[y] = OwnRow
    BY <1>1, <1>2, <1>5 DEF Lands
  <1>6. ASSUME NEW x \in ToSave(b) \ (left \ {z}), Stays(a, b, x) PROVE RowOf(n, x) = RowOf(n, b[x])
    <2>0. x \in Sectors /\ b[x] \in Sectors /\ b[x] # x
      BY <1>1 DEF NoSelfReference
    <2>1. CASE x = z
      <3>1. b[z] # z /\ RowOf(o, b[z]) = t /\ t # z
        BY <2>0, <2>1 DEF MayWorkAt
      <3> QED
        BY <1>1, <1>2, <2>1, <3>1
    <2>2. CASE x # z
      <3>1. RowOf(o, x) = RowOf(o, b[x])
        BY <1>6, <2>2 DEF Lands
      <3>2. CASE b[x] # z
        BY <1>2, <2>0, <2>2, <3>1, <3>2
      <3>3. CASE b[x] = z
        <4>1. x < z
          BY <2>2 DEF Lands
        <4>2. z > x
          BY <1>1, <4>1
        <4>3. a[z] = OwnRow
          BY <1>1, <1>6, <3>3, <4>2 DEF Stays
        <4>4. o[z] = OwnRow
          BY <4>3 DEF Lands
        <4>5. RowOf(o, x) = z
          BY <3>1, <3>3, <4>4 DEF RowOf
        <4> QED
          BY <1>2, <2>0, <2>2, <3>3, <4>5
      <3> QED
        BY <3>2, <3>3
    <2> QED
      BY <2>1, <2>2
  <1>7. left \ {z} \subseteq ToSave(b)
    BY <1>1
  <1> QED
    BY <1>3, <1>4, <1>5, <1>6, <1>7 DEF Lands

(* A step of s that leaves the rows alone, or that nobody else writes under. *)
LEMMA OwnLanding ==
  ASSUME Inv, LandInv, "release" \notin env, NEW s \in Savers, NEW c,
         saves' = [saves EXCEPT ![s] = c], rows' = rows, Landing(rows, c)
  PROVE  \A o \in Savers : Landing(rows', saves'[o])
  BY DEF Inv, TypeOK, LandInv

LEMMA QuietLanding ==
  ASSUME NEW a, NEW c, c.pc \in {"idle", "load", "store"}
  PROVE  Landing(a, c)
  BY DEF Landing

LEMMA BeginBatchLands ==
  ASSUME Inv, LandInv, "release" \notin env, NEW s \in Savers, BeginBatch(s)
  PROVE  \A o \in Savers : Landing(rows', saves'[o])
  <1>1. PICK b \in Batches : NoSelfReference(b) /\ saves' = [saves EXCEPT ![s] = [Idle EXCEPT !.pc = "lock", !.batch = b]]
    BY DEF BeginBatch
  <1> DEFINE c == [Idle EXCEPT !.pc = "lock", !.batch = b]
  <1>2. c.pc = "lock" /\ c.batch = b /\ saves' = [saves EXCEPT ![s] = c]
    BY <1>1 DEF Idle
  <1> HIDE DEF c
  <1>3. Landing(rows, c)
    BY <1>1, <1>2 DEF Landing
  <1> QED
    BY <1>2, <1>3, OwnLanding DEF BeginBatch

LEMMA AdvisoryLockLands ==
  ASSUME Inv, LandInv, "release" \notin env, NEW s \in Savers, AdvisoryLock(s)
  PROVE  \A o \in Savers : Landing(rows', saves'[o])
  <1> DEFINE c == [saves[s] EXCEPT !.pc = "release"]
  <1>1. saves' = [saves EXCEPT ![s] = c] /\ c.pc = "release" /\ c.batch = saves[s].batch
    BY DEF AdvisoryLock, Inv, TypeOK, Saves
  <1>2. NoSelfReference(saves[s].batch)
    BY DEF AdvisoryLock, LandInv, Landing
  <1> HIDE DEF c
  <1>3. Landing(rows, c)
    BY <1>1, <1>2 DEF Landing
  <1> QED
    BY <1>1, <1>3, OwnLanding DEF AdvisoryLock

LEMMA ReleaseInLands ==
  ASSUME Inv, LandInv, "release" \notin env, NEW s \in Savers, ReleaseIn(s)
  PROVE  \A o \in Savers : Landing(rows', saves'[o])
  <1> DEFINE b == saves[s].batch
             xs == {x \in DOMAIN b \ ToSave(b) : rows[x] # OwnRow}
             old == saves[s].draft
             d == Write(old, xs, OwnRow)
             c == [saves[s] EXCEPT !.draft = d, !.todo = ToSave(b),
                                   !.pc = IF ToSave(b) = {} THEN "commit" ELSE "resolve"]
  <1>0. FlatInv /\ saves[s] \in Saves /\ saves[s].pc = "release" /\ InTransaction(s) /\ rows \in Arrangements
    BY DEF Inv, TypeOK, ReleaseIn, InTransaction
  <1>1. saves' = [saves EXCEPT ![s] = c]
    BY DEF ReleaseIn, Inv, TypeOK
  <1>2. /\ c.batch = b /\ c.draft = d /\ c.todo = ToSave(b)
        /\ c.pc = IF ToSave(b) = {} THEN "commit" ELSE "resolve"
    BY <1>0 DEF Saves
  <1>3. old = NoDraft
    BY <1>0, InTransactionFacts DEF CallFine
  <1>4. NoSelfReference(b)
    BY <1>0 DEF LandInv, Landing
  <1>5. b \in Batches \cup {NoBatch} /\ DOMAIN b \subseteq Sectors /\ ToSave(b) \subseteq DOMAIN b
    BY <1>0, CallFields, BatchFacts DEF FlatInv
  <1>6. xs \in SUBSET Sectors /\ OwnRow \in Values /\ old \in Drafts
    BY <1>3, <1>5, NoDraftFacts DEF Values
  <1>7. \A x \in Sectors : x \in xs => rows[x] # OwnRow /\ x \in DOMAIN b \ ToSave(b)
    OBVIOUS
  <1>8. \A x \in DOMAIN b \ ToSave(b) : x \in xs \/ rows[x] = OwnRow
    OBVIOUS
  <1> HIDE DEF xs, old
  <1>9. \A x \in Sectors : Over(rows, d)[x] = IF x \in xs THEN OwnRow ELSE rows[x]
    <2>1. \A x \in Sectors : Over(rows, d)[x] = IF x \in xs THEN OwnRow ELSE Over(rows, old)[x]
      BY <1>0, <1>6, OverWrite
    <2>2. \A x \in Sectors : Over(rows, old)[x] = rows[x]
      BY <1>3, NoDraftFacts DEF Over
    <2> QED
      BY <2>1, <2>2
  <1> HIDE DEF d, c, b
  <1>10. Left(c) = ToSave(b) /\ Shown(rows, c) = Over(rows, d)
    BY <1>2 DEF Left, Shown
  <1>11. \A x \in DOMAIN b : b[x] = OwnRow => x \in DOMAIN b \ ToSave(b)
    BY DEF ToSave
  <1>12. Lands(rows, b, ToSave(b), Over(rows, d))
    BY <1>5, <1>7, <1>8, <1>9, <1>11 DEF Lands
  <1>13. Landing(rows, c)
    BY <1>2, <1>4, <1>10, <1>12 DEF Landing
  <1> QED
    BY <1>1, <1>13, OwnLanding DEF ReleaseIn

LEMMA ResolveLands ==
  ASSUME Inv, LandInv, "release" \notin env, NEW s \in Savers, Resolve(s)
  PROVE  \A o \in Savers : Landing(rows', saves'[o])
  <1> DEFINE c == [saves[s] EXCEPT !.resolved = Resolved(s), !.pc = "upsert"]
  <1>0. FlatInv /\ saves[s] \in Saves /\ saves[s].pc = "resolve" /\ InTransaction(s)
    BY DEF Inv, TypeOK, Resolve, InTransaction
  <1>1. CASE saves' = [saves EXCEPT ![s] = Idle]
    <2>1. Landing(rows, Idle)
      BY IdleIsSave, QuietLanding
    <2>2. rows' = rows
      BY DEF Resolve
    <2> QED
      BY <1>1, <2>1, <2>2, OwnLanding
  <1>2. CASE saves' = [saves EXCEPT ![s].resolved = Resolved(s), ![s].pc = "upsert"]
    <2>1. saves' = [saves EXCEPT ![s] = c]
      BY <1>2 DEF Inv, TypeOK
    <2>2. /\ c.batch = saves[s].batch /\ c.draft = saves[s].draft /\ c.todo = saves[s].todo
          /\ c.pc = "upsert" /\ c.resolved = Resolved(s)
      BY <1>0 DEF Saves
    <2>3. Resolved(s) = RowOf(Over(rows, saves[s].draft), saves[s].batch[Min(saves[s].todo)])
      BY <1>0, InTransactionFacts DEF Resolved, Source
    <2> HIDE DEF c
    <2>4. Left(c) = Left(saves[s]) /\ Shown(rows, c) = Shown(rows, saves[s])
      BY <1>0, <2>2 DEF Left, Shown
    <2>5. Landing(rows, c)
      BY <1>0, <2>2, <2>3, <2>4 DEF LandInv, Landing
    <2> QED
      BY <2>1, <2>5, OwnLanding DEF Resolve
  <1> QED
    BY <1>1, <1>2 DEF Resolve

LEMMA UpsertLands ==
  ASSUME Inv, LandInv, "release" \notin env, NEW s \in Savers, Upsert(s)
  PROVE  \A o \in Savers : Landing(rows', saves'[o])
  <1> DEFINE b == saves[s].batch
             left == saves[s].todo
             z == Min(left)
             r == saves[s].resolved
             old == saves[s].draft
             d == Write(old, {z}, r)
             c == [saves[s] EXCEPT !.draft = d, !.pc = "move"]
             o == Over(rows, old)
             n == Shown(rows, c)
  <1>0. FlatInv /\ saves[s] \in Saves /\ saves[s].pc = "upsert" /\ InTransaction(s) /\ rows \in Arrangements
    BY DEF Inv, TypeOK, Upsert, InTransaction
  <1>1. saves' = [saves EXCEPT ![s] = c]
    BY DEF Upsert, Inv, TypeOK, Source
  <1>2. c.batch = b /\ c.draft = d /\ c.todo = left /\ c.pc = "move" /\ c.resolved = r
    BY <1>0 DEF Saves
  <1>3. /\ left # {} /\ left \subseteq Sectors /\ left \subseteq DOMAIN b
        /\ IsFlat(o) /\ MayWorkAt(o, z, r) /\ o \in Arrangements /\ old \in Drafts
        /\ b \in Batches \cup {NoBatch}
    BY <1>0, InTransactionFacts, CallFields DEF CallFine, FlatInv
  <1>4. z \in left /\ z \in Sectors /\ \A y \in left : z =< y
    BY <1>3, NotSectors, MinInSet
  <1>5. b \in Batches
    BY <1>3, <1>4 DEF NoBatch
  <1>6. /\ NoSelfReference(b) /\ r = RowOf(o, b[z]) /\ Lands(rows, b, left, o)
    BY <1>0 DEF LandInv, Landing, Left, Shown
  <1>7. {z} \in SUBSET Sectors /\ r \in Values
    BY <1>3, <1>4 DEF MayWorkAt, Values
  <1> HIDE DEF left, z, r, old, b
  <1>8. /\ Over(rows, d) \in Arrangements
        /\ \A y \in Sectors : Over(rows, d)[y] = IF y \in {z} THEN r ELSE Over(rows, old)[y]
    <2> DEFINE xs == {z}
    <2>1. d = Write(old, xs, r) /\ xs \in SUBSET Sectors
      BY <1>7
    <2> HIDE DEF d, xs
    <2>2. /\ Over(rows, Write(old, xs, r)) \in Arrangements
          /\ \A y \in Sectors : Over(rows, Write(old, xs, r))[y] = IF y \in xs THEN r ELSE Over(rows, old)[y]
      BY <1>0, <1>3, <1>7, <2>1, OverWrite
    <2> QED
      BY <2>1, <2>2 DEF xs
  <1>9. \A y \in Sectors : Over(rows, d)[y] = IF y = z THEN r ELSE o[y]
    BY <1>8
  <1> HIDE DEF c, d, o
  <1>10. n = [y \in Sectors |-> IF Over(rows, d)[y] = z THEN r ELSE Over(rows, d)[y]]
    BY <1>2 DEF Shown, z
  <1>11. n \in Arrangements
    BY <1>3, <1>8, <1>10 DEF Arrangements, MayWorkAt
  <1>12. r # z
    BY <1>3 DEF MayWorkAt
  <1>13. \A y \in Sectors : n[y] = IF y = z \/ o[y] = z THEN r ELSE o[y]
    BY <1>9, <1>10, <1>12
  <1> HIDE DEF n
  <1>14. Lands(rows, b, left \ {z}, n)
    BY <1>0, <1>3, <1>4, <1>5, <1>6, <1>11, <1>13, EntryLands
  <1>15. Left(c) = left \ {z}
    BY <1>2 DEF Left, z
  <1>16. Landing(rows, c)
    BY <1>2, <1>6, <1>14, <1>15 DEF Landing, n
  <1> QED
    BY <1>1, <1>16, OwnLanding DEF Upsert

LEMMA MoveLands ==
  ASSUME Inv, LandInv, "release" \notin env, NEW s \in Savers, Move(s)
  PROVE  \A o \in Savers : Landing(rows', saves'[o])
  <1> DEFINE z == Min(saves[s].todo)
             r == saves[s].resolved
             w == WorkedAt(s)
             old == saves[s].draft
             d == Write(old, w, r)
             left == saves[s].todo \ {z}
             c == [saves[s] EXCEPT !.draft = d, !.todo = left,
                                   !.pc = IF left = {} THEN "commit" ELSE "resolve"]
  <1>0. FlatInv /\ saves[s] \in Saves /\ saves[s].pc = "move" /\ InTransaction(s) /\ rows \in Arrangements
    BY DEF Inv, TypeOK, Move, InTransaction
  <1>1. saves' = [saves EXCEPT ![s] = c]
    BY DEF Move, Inv, TypeOK, Source
  <1>2. /\ c.batch = saves[s].batch /\ c.draft = d /\ c.todo = left
        /\ c.pc = IF left = {} THEN "commit" ELSE "resolve"
    BY <1>0 DEF Saves
  <1>3. /\ Seen(s) = Over(rows, old) /\ old \in Drafts
        /\ HalfMoved(Seen(s), z, r)
    BY <1>0, InTransactionFacts, CallFields DEF CallFine, FlatInv
  <1>4. w \in SUBSET Sectors /\ r \in Values
    BY <1>3 DEF HalfMoved, MayWorkAt, Values, WorkedAt
  <1>5. \A y \in Sectors : y \in w <=> Over(rows, old)[y] = z
    BY <1>3 DEF WorkedAt, Source
  <1>6. NoSelfReference(saves[s].batch) /\ Lands(rows, saves[s].batch, left, Shown(rows, saves[s]))
    BY <1>0 DEF LandInv, Landing, Left
  <1>7. Shown(rows, saves[s]) = [y \in Sectors |-> IF Over(rows, old)[y] = z THEN r ELSE Over(rows, old)[y]]
    BY <1>0 DEF Shown
  <1> HIDE DEF w, r, old, left, z
  <1>8. /\ Over(rows, d) \in Arrangements
        /\ \A y \in Sectors : Over(rows, d)[y] = IF y \in w THEN r ELSE Over(rows, old)[y]
    BY <1>0, <1>3, <1>4, OverWrite
  <1> HIDE DEF d, c
  <1>9. Over(rows, d) = [y \in Sectors |-> Over(rows, d)[y]]
    BY DEF Over
  <1>10. Over(rows, d) = Shown(rows, saves[s])
    BY <1>5, <1>7, <1>8, <1>9
  <1>11. Left(c) = left /\ Shown(rows, c) = Over(rows, d) /\ c.pc \in {"commit", "resolve"}
    BY <1>2 DEF Left, Shown
  <1>12. Landing(rows, c)
    BY <1>2, <1>6, <1>10, <1>11 DEF Landing
  <1> QED
    BY <1>1, <1>12, OwnLanding DEF Move

LEMMA CommitLands ==
  ASSUME Inv, LandInv, "release" \notin env, NEW s \in Savers, Commit(s)
  PROVE  \A o \in Savers : Landing(rows', saves'[o])
  <1>1. /\ saves[s] \in Saves /\ InTransaction(s)
        /\ saves'[s].pc = "load" /\ \A o \in Savers \ {s} : saves'[o] = saves[o]
    BY DEF Commit, Inv, TypeOK, Saves, InTransaction
  <1>2. \A o \in Savers \ {s} : ~InTransaction(o)
    BY <1>1, InTransactionFacts DEF Inv
  <1>3. ASSUME NEW o \in Savers \ {s} PROVE Landing(rows', saves'[o])
    <2>1. saves'[o] = saves[o] /\ Landing(rows, saves[o])
      BY <1>1 DEF LandInv
    <2>2. saves[o].pc \notin {"resolve", "upsert", "move", "commit"}
      BY <1>2 DEF InTransaction
    <2> QED
      BY <2>1, <2>2 DEF Landing
  <1> QED
    BY <1>1, <1>3, QuietLanding

LEMMA LandStep == Inv /\ LandInv /\ [Next]_vars => LandInv'
  <1> SUFFICES ASSUME Inv, LandInv, [Next]_vars, "release" \notin env'
               PROVE  \A o \in Savers : Landing(rows', saves'[o])
    BY DEF LandInv
  <1>1. "release" \notin env
    BY ConditionsStay
  <1>2. CASE UNCHANGED <<rows, saves>>
    BY <1>1, <1>2 DEF LandInv
  <1>3. ASSUME NEW s \in Savers, Save(s) PROVE \A o \in Savers : Landing(rows', saves'[o])
    <2>1. CASE rows' = rows /\ saves' = [saves EXCEPT ![s] = Idle]
      <3>1. Landing(rows, Idle)
        BY IdleIsSave, QuietLanding
      <3> QED
        BY <1>1, <2>1, <3>1, OwnLanding
    <2>2. CASE rows' = rows /\ saves' = [saves EXCEPT ![s].pc = "store"]
      <3> DEFINE c == [saves[s] EXCEPT !.pc = "store"]
      <3>1. saves' = [saves EXCEPT ![s] = c] /\ c.pc = "store"
        BY <2>2 DEF Inv, TypeOK, Saves
      <3> HIDE DEF c
      <3>2. Landing(rows, c)
        BY <3>1, QuietLanding
      <3> QED
        BY <1>1, <2>2, <3>1, <3>2, OwnLanding
    <2>3. ~Release(s)
      BY <1>1 DEF Release
    <2>4. Rollback(s) => rows' = rows /\ saves' = [saves EXCEPT ![s] = Idle]
      BY DEF Rollback
    <2>5. CASE \/ CallLoad("consolidations", s, saves[s].pc) /\ saves' = [saves EXCEPT ![s].pc = "store"]
               \/ /\ CallStore("consolidations", s, saves[s].pc) \/ CallLeaves(s, saves[s].pc)
                  /\ saves' = [saves EXCEPT ![s] = Idle]
      BY <2>1, <2>2, <2>5 DEF CallLoad, CallStore, CallLeaves
    <2> QED
      BY <1>1, <1>3, <2>1, <2>3, <2>4, <2>5, BeginBatchLands, AdvisoryLockLands, ReleaseInLands, ResolveLands,
         UpsertLands, MoveLands, CommitLands DEF Save
  <1> QED
    BY <1>2, <1>3, OthersLeaveRows

(* A batch lands whole: each sector it saved is counted where it was to be *)
(* worked, each one it released has its own row, but for the one exception *)
(* the statement names.                                                    *)
THEOREM BatchLandsWhole == Spec => BatchLands
  <1>1. Init => LandInv
    BY IdleIsSave, QuietLanding DEF Init, ConsolidationsInit, LandInv
  <1> DEFINE b(s) == saves[s].batch
             Whole == \A s \in Savers :
                (saves[s].pc = "commit" /\ saves'[s].pc = "load" /\ "release" \notin env) =>
                \A x \in DOMAIN b(s) :
                    IF b(s)[x] = OwnRow
                    THEN rows'[x] = OwnRow
                    ELSE (b(s)[x] \in ToSave(b(s)) /\ b(s)[x] > x => rows[b(s)[x]] = OwnRow) =>
                         RowOf(rows', x) = RowOf(rows', b(s)[x])
  <1>2. Inv /\ LandInv /\ [Next]_vars => [Whole]_<<rows, saves>>
    <2> SUFFICES ASSUME Inv, LandInv, [Next]_vars, NEW s \in Savers,
                        saves[s].pc = "commit", saves'[s].pc = "load", "release" \notin env,
                        NEW x \in DOMAIN b(s)
                 PROVE  IF b(s)[x] = OwnRow
                        THEN rows'[x] = OwnRow
                        ELSE (b(s)[x] \in ToSave(b(s)) /\ b(s)[x] > x => rows[b(s)[x]] = OwnRow) =>
                             RowOf(rows', x) = RowOf(rows', b(s)[x])
      OBVIOUS
    <2>1. rows' = Seen(s)
      <3>1. PICK o \in Savers : Save(o)
        BY OthersLeaveRows
      <3>2. o = s
        BY <3>1 DEF Save, BeginBatch, AdvisoryLock, ReleaseIn, Resolve, Upsert, Move, Rollback, Commit, Release, Inv, TypeOK
      <3>3. ~Rollback(s)
        BY IdleIsSave DEF Rollback, Inv, TypeOK
      <3> QED
        BY <3>1, <3>2, <3>3 DEF Save, BeginBatch, AdvisoryLock, ReleaseIn, Resolve, Upsert, Move, Commit, Release,
                            CallLoad, CallStore, CallLeaves
    <2>2. InTransaction(s) /\ Seen(s) = Over(rows, saves[s].draft)
      BY InTransactionFacts DEF InTransaction, Inv
    <2>3. Lands(rows, b(s), {}, Seen(s))
      BY <2>2 DEF LandInv, Landing, Left, Shown
    <2>4. x \in ToSave(b(s)) \/ b(s)[x] = OwnRow
      BY DEF ToSave
    <2> HIDE DEF b
    <2> QED
      BY <2>1, <2>3, <2>4 DEF Lands, Stays, ToSave
  <1> QED
    BY <1>1, <1>2, LandStep, InvAlways, PTL DEF Spec, BatchLands
-----------------------------------------------------------------------------
(* One projection for each publish. *)

FeedOnly == Warm /\ env \cap {"volumes", "wheels", "save", "release", "limit", "fail"} = {}

(* Nobody writes, so every table in memory, and every copy of it that a    *)
(* reload has in hand, is the stored one.                                  *)
TablesStill ==
    /\ \A s \in Savers : saves[s].pc = "idle"
    /\ \A s \in Setters : sets[s].pc = "idle"
    /\ cache.sectors = 1 /\ loaded /\ reading["sectors"] = None /\ wheels = FALSE
    /\ cache.limits = limit /\ reading["limits"] \in {None, limit}
    /\ cache.consolidations = rows /\ reading["consolidations"] \in {None, rows}

(* What a projection is computed from, but for the publish.                *)
Rest(in) == in.sectors = 1 /\ in.wheels = FALSE /\ in.consolidations = rows /\ in.limits = limit

ReadsStill ==
    /\ \A r \in Requests :
         /\ asked[r].pc \in {"feed", "wheels", "config"} => asked[r].in.sectors = 1
         /\ asked[r].pc = "config" => asked[r].in.wheels = FALSE
         /\ asked[r].pc = "wait" => Rest(asked[r].in)
    /\ task # None => Rest(task.in)
    /\ entry # None => Rest(entry)

(* A publish that was projected is being projected or held, or a newer one *)
(* is held; one that was projected twice is behind what is held.           *)
Accounted ==
    \A p \in DOMAIN projected :
        /\ projected[p] > 0 => \/ task # None /\ task.in.publish = p
                               \/ entry # None /\ entry.publish >= p
        /\ projected[p] > 1 => entry # None /\ entry.publish > p

OnceInv == FeedOnly => TablesStill /\ ReadsStill /\ Accounted

LEMMA TablesStayStill ==
  ASSUME Inv, FeedOnly, TablesStill, [Next]_vars
  PROVE  TablesStill' /\ UNCHANGED <<rows, limit>>
  <1>0. /\ reading = [p \in Tables \cup Savers \cup Setters |-> reading[p]]
        /\ cache \in [sectors : 0..ReloadBound, limits : Limits, consolidations : Arrangements]
        /\ "limits" \in Tables /\ "consolidations" \in Tables /\ "sectors" \in Tables
    BY DEF Inv, TypeOK, Tables
  <1>1. ASSUME NEW t \in Tables, RefreshLoad(t) PROVE TablesStill' /\ UNCHANGED <<rows, limit>>
    <2>1. t # "sectors"
      BY <1>1 DEF RefreshLoad, FeedOnly, TablesStill
    <2>2. /\ UNCHANGED <<rows, saves, limit, sets, cache, loaded, wheels>>
          /\ reading' = [reading EXCEPT ![t] = Stored(t)]
      BY <1>1 DEF RefreshLoad, tableVars, feedVars
    <2>3. /\ \A p \in Tables \ {t} : reading'[p] = reading[p]
          /\ reading'[t] = Stored(t)
      BY <1>0, <2>2
    <2>4. CASE t = "limits"
      BY <1>0, <2>2, <2>3, <2>4, TableValues DEF TablesStill, Inv
    <2>5. CASE t = "consolidations"
      BY <1>0, <2>2, <2>3, <2>5, TableValues DEF TablesStill, Inv
    <2> QED
      BY <2>1, <2>4, <2>5 DEF Tables
  <1>2. ASSUME NEW t \in Tables, RefreshStore(t) PROVE TablesStill' /\ UNCHANGED <<rows, limit>>
    <2>1. t # "sectors"
      BY <1>2 DEF RefreshStore, TablesStill
    <2>2. /\ UNCHANGED <<rows, saves, limit, sets, loaded, wheels>>
          /\ reading[t] # None
          /\ cache' = [cache EXCEPT ![t] = reading[t]]
          /\ reading' = [reading EXCEPT ![t] = None]
      BY <1>2 DEF RefreshStore, Reloaded, tableVars, feedVars
    <2>3. /\ \A p \in Tables \ {t} : reading'[p] = reading[p]
          /\ reading'[t] = None
      BY <1>0, <2>2
    <2>4. CASE t = "limits"
      <3>1. reading[t] = limit
        BY <2>2, <2>4 DEF TablesStill
      <3>2. cache'.limits = limit /\ cache'.sectors = 1 /\ cache'.consolidations = rows
        BY <1>0, <2>2, <2>4, <3>1 DEF TablesStill
      <3> QED
        BY <1>0, <2>2, <2>3, <2>4, <3>2 DEF TablesStill
    <2>5. CASE t = "consolidations"
      <3>1. reading[t] = rows
        BY <2>2, <2>5 DEF TablesStill
      <3>2. cache'.limits = limit /\ cache'.sectors = 1 /\ cache'.consolidations = rows
        BY <1>0, <2>2, <2>5, <3>1 DEF TablesStill
      <3> QED
        BY <1>0, <2>2, <2>3, <2>5, <3>2 DEF TablesStill
    <2> QED
      BY <2>1, <2>4, <2>5 DEF Tables
  <1>3. ASSUME NEW s \in Savers PROVE ~Save(s)
    BY DEF FeedOnly, TablesStill, Save, BeginBatch, AdvisoryLock, ReleaseIn, Resolve, Upsert, Move, Rollback,
           InTransaction, Commit, Release, CallLoad, CallStore, CallLeaves
  <1>4. ASSUME NEW s \in Setters PROVE ~Set(s)
    BY DEF FeedOnly, TablesStill, Set, BeginSet, Compare, WriteLimit, CallLoad, CallStore, CallLeaves
  <1>5. ~MarkLoaded /\ ~WheelsMove
    BY DEF MarkLoaded, WheelsMove, TablesStill, FeedOnly
  <1>6. ASSUME \/ Poll \/ Projected \/ ProjectionFails \/ UNCHANGED vars
               \/ \E r \in Requests : Read(r) \/ Serve(r) \/ Drop(r)
        PROVE  TablesStill' /\ UNCHANGED <<rows, limit>>
    <2>1. UNCHANGED <<rows, saves, limit, sets, cache, loaded, reading, wheels>>
      BY <1>6 DEF Poll, Projected, ProjectionFails, Read, Serve, Drop, vars, tableVars, cacheVars, feedVars
    <2> QED
      BY <2>1 DEF TablesStill
  <1> QED
    BY <1>1, <1>2, <1>3, <1>4, <1>5, <1>6 DEF Next

LEMMA ReadOnce ==
  ASSUME Inv, TablesStill, ReadsStill, Accounted, UNCHANGED <<rows, limit>>, NEW r \in Requests, Read(r)
  PROVE  ReadsStill' /\ Accounted'
  <1>1. /\ UNCHANGED <<task, entry, projected>>
        /\ asked \in [Requests -> [pc : RequestSteps, loaded : BOOLEAN, in : Inputs, answer : {None} \cup Inputs]]
    BY DEF Read, Inv, TypeOK
  <1>2. \A o \in Requests \ {r} : asked'[o] = asked[o]
    BY <1>1 DEF Read, Ask, ReadTable, ReadFeed, ReadWheels, ReadConfig, Done
  <1>3. /\ asked'[r].pc \in {"feed", "wheels", "config"} => asked'[r].in.sectors = 1
        /\ asked'[r].pc = "config" => asked'[r].in.wheels = FALSE
        /\ asked'[r].pc = "wait" => Rest(asked'[r].in)
    <2>1. CASE Ask(r)
      BY <1>1, <2>1 DEF Ask
    <2>2. CASE ReadTable(r)
      BY <1>1, <2>2 DEF ReadTable, TablesStill, Inputs
    <2>3. CASE ReadFeed(r)
      BY <1>1, <2>3 DEF ReadFeed, ReadsStill, Inputs
    <2>4. CASE ReadWheels(r)
      BY <1>1, <2>4 DEF ReadWheels, ReadsStill, TablesStill, Inputs
    <2>5. CASE ReadConfig(r)
      BY <1>1, <2>5 DEF ReadConfig, ReadsStill, TablesStill, Inputs, Rest
    <2>6. CASE Done(r)
      BY <1>1, <2>6 DEF Done, Away
    <2> QED
      BY <2>1, <2>2, <2>3, <2>4, <2>5, <2>6 DEF Read
  <1> QED
    BY <1>1, <1>2, <1>3 DEF ReadsStill, Accounted, Rest

LEMMA ServeOnce ==
  ASSUME Inv, ReadsStill, Accounted, UNCHANGED <<rows, limit>>, NEW r \in Requests, Serve(r)
  PROVE  ReadsStill' /\ Accounted'
  <1> DEFINE in == asked[r].in
  <1>1. /\ asked \in [Requests -> [pc : RequestSteps, loaded : BOOLEAN, in : Inputs, answer : {None} \cup Inputs]]
        /\ projected \in [0..PublishBound -> 0..2]
        /\ in \in Inputs /\ (entry = None \/ entry \in Inputs)
        /\ task = None /\ asked[r].pc = "wait" /\ Rest(in)
    BY DEF Serve, ReadsStill, Inv, TypeOK
  <1>2. \A o \in Requests \ {r} : asked'[o] = asked[o]
    BY <1>1 DEF Serve
  <1>3. asked'[r].pc \in {"ready", "projecting"}
    BY <1>1 DEF Serve
  <1>4. CASE Matches(in) /\ entry' = [entry EXCEPT !.limits = in.limits] /\ UNCHANGED <<task, projected>>
    <2>1. entry' = in /\ entry # None /\ in # None /\ entry.publish = in.publish
      BY <1>1, <1>4, NoneAssumption DEF Matches, Inputs
    <2> HIDE DEF in
    <2>2. ReadsStill'
      BY <1>1, <1>2, <1>3, <1>4, <2>1 DEF ReadsStill, Rest
    <2>3. Accounted'
      BY <1>1, <1>4, <2>1 DEF Accounted
    <2> QED
      BY <2>2, <2>3
  <1>5. CASE /\ ~Matches(in) /\ task' = [for |-> r, in |-> in] /\ UNCHANGED entry
             /\ projected' = [projected EXCEPT ![in.publish] = IF projected[in.publish] = 0 THEN 1 ELSE 2]
    <2>1. in.publish \in 0..PublishBound /\ task'.in = in
      BY <1>1, <1>5 DEF Inputs
    <2>2. entry # None => entry.publish \in 0..PublishBound
      BY <1>1 DEF Inputs
    <2>3. entry # None => entry.publish # in.publish
      <3>1. ASSUME entry # None, entry.publish = in.publish PROVE [entry EXCEPT !.limits = in.limits] = in
        BY <1>1, <3>1 DEF ReadsStill, Rest, Inputs
      <3> QED
        BY <1>5, <3>1 DEF Matches
    <2>4. task' # None
      BY <1>1, <1>5, NoneAssumption
    <2> HIDE DEF in
    <2>5. ReadsStill'
      BY <1>1, <1>2, <1>3, <1>5, <2>1 DEF ReadsStill, Rest
    <2>6. \A p \in DOMAIN projected' :
            /\ projected'[p] > 0 => \/ task' # None /\ task'.in.publish = p
                                    \/ entry # None /\ entry.publish >= p
            /\ projected'[p] > 1 => entry # None /\ entry.publish > p
      <3> SUFFICES ASSUME NEW p \in 0..PublishBound
                   PROVE  /\ projected'[p] > 0 => \/ task' # None /\ task'.in.publish = p
                                                  \/ entry # None /\ entry.publish >= p
                          /\ projected'[p] > 1 => entry # None /\ entry.publish > p
        BY <1>1, <1>5
      <3>1. CASE p = in.publish
        <4>1. projected'[p] > 1 => projected[p] > 0
          BY <1>1, <1>5, <3>1
        <4>2. projected[p] > 0 => entry # None /\ entry.publish >= p
          BY <1>1 DEF Accounted
        <4> QED
          BY <2>1, <2>2, <2>3, <2>4, <3>1, <4>1, <4>2
      <3>2. CASE p # in.publish
        BY <1>1, <1>5, <3>2 DEF Accounted
      <3> QED
        BY <3>1, <3>2
    <2> QED
      BY <1>5, <2>5, <2>6 DEF Accounted
  <1> QED
    BY <1>4, <1>5 DEF Serve

LEMMA DropOnce ==
  ASSUME Inv, ReadsStill, Accounted, UNCHANGED <<rows, limit>>, NEW r \in Requests, Drop(r)
  PROVE  ReadsStill' /\ Accounted'
  <1>1. /\ UNCHANGED <<task, entry, projected>>
        /\ asked \in [Requests -> [pc : RequestSteps, loaded : BOOLEAN, in : Inputs, answer : {None} \cup Inputs]]
        /\ asked' = [asked EXCEPT ![r] = Away]
    BY DEF Drop, Kept, Inv, TypeOK
  <1> QED
    BY <1>1 DEF ReadsStill, Accounted, Rest, Away

LEMMA ProjectedOnce ==
  ASSUME Inv, ReadsStill, Accounted, UNCHANGED <<rows, limit>>, Projected
  PROVE  ReadsStill' /\ Accounted'
  <1>1. /\ asked \in [Requests -> [pc : RequestSteps, loaded : BOOLEAN, in : Inputs, answer : {None} \cup Inputs]]
        /\ projected \in [0..PublishBound -> 0..2] /\ UNCHANGED projected
        /\ task.in \in Inputs /\ (entry = None \/ entry \in Inputs)
        /\ task # None /\ task' = None /\ Rest(task.in)
        /\ entry' = IF Replaces(task.in) THEN task.in ELSE entry
    BY DEF Projected, ReadsStill, Inv, TypeOK
  <1>2. task.in.publish \in Nat /\ (entry # None => entry.publish \in Nat)
    BY <1>1 DEF Inputs
  <1>3. task.in # None
    BY <1>1, NoneAssumption
  <1>4. \A o \in Requests : (asked'[o].pc = asked[o].pc /\ asked'[o].in = asked[o].in) \/ asked'[o].pc = "ready"
    BY <1>1 DEF Projected, Requester
  <1>5. ReadsStill'
    BY <1>1, <1>4 DEF ReadsStill, Rest
  <1>6. entry' # None /\ entry'.publish \in Nat /\ entry'.publish >= task.in.publish
        /\ (entry # None => entry'.publish >= entry.publish)
    BY <1>1, <1>2, <1>3 DEF Replaces
  <1>7. Accounted'
    <2> SUFFICES ASSUME NEW p \in 0..PublishBound
                 PROVE  /\ projected[p] > 0 => entry' # None /\ entry'.publish >= p
                        /\ projected[p] > 1 => entry' # None /\ entry'.publish > p
      BY <1>1 DEF Accounted
    <2> QED
      BY <1>1, <1>2, <1>6 DEF Accounted
  <1> QED
    BY <1>5, <1>7

LEMMA OnceStep == Inv /\ OnceInv /\ [Next]_vars => OnceInv'
  <1> SUFFICES ASSUME Inv, OnceInv, [Next]_vars, FeedOnly'
               PROVE  TablesStill' /\ ReadsStill' /\ Accounted'
    BY DEF OnceInv
  <1>1. FeedOnly /\ TablesStill /\ ReadsStill /\ Accounted
    BY ConditionsStay DEF OnceInv, FeedOnly, Warm
  <1>2. TablesStill' /\ UNCHANGED <<rows, limit>>
    BY <1>1, TablesStayStill
  <1>3. CASE UNCHANGED slotVars
    BY <1>1, <1>2, <1>3 DEF ReadsStill, Accounted, Rest, slotVars
  <1>4. ~ProjectionFails
    BY <1>1 DEF ProjectionFails, FeedOnly
  <1> QED
    BY <1>1, <1>2, <1>3, <1>4, OthersLeaveSlot, ReadOnce, ServeOnce, DropOnce, ProjectedOnce

(* Where only the feed moves, a publish is projected once, unless a newer  *)
(* one is already held, however many viewers ask, wait and go away and     *)
(* whatever the reloads of the tables overlap with.                        *)
THEOREM ProjectedOncePerPublish == Spec => []OncePerPublish
  <1>1. Init => OnceInv
    <2> SUFFICES ASSUME Init, FeedOnly PROVE TablesStill /\ ReadsStill /\ Accounted
      BY DEF OnceInv
    <2>1. TablesStill
      BY DEF Init, FeedOnly, TablesStill, ConsolidationsInit, Idle, NotSet, Tables
    <2>2. ReadsStill /\ Accounted
      BY DEF Init, ReadsStill, Accounted, Away
    <2> QED
      BY <2>1, <2>2
  <1>2. OnceInv => OncePerPublish
    BY DEF OnceInv, OncePerPublish, FeedOnly, Accounted
  <1> QED
    BY <1>1, <1>2, OnceStep, InvAlways, PTL DEF Spec
=============================================================================
