----------------------------- MODULE TmuProofs ------------------------------
(***************************************************************************)
(* What is proved of repos/tmu.rs, for every value of the constants.       *)
(*                                                                         *)
(* The numbers of advisories never collide, for any number of facilities,  *)
(* days, advisories and concurrent creates.  NumbersInv says what the lock *)
(* is for: at most one transaction holds it for a facility and day, and    *)
(* the number one has read stays above every number in use until it        *)
(* commits, because only the holder of the lock adds numbers and everybody *)
(* else can only take some away.                                           *)
(*                                                                         *)
(* A TMI's log, a ground stop's advisory and the replay agree with the row *)
(* of the entry, for any number of calls, lines, channels and hours, and   *)
(* whatever hazards a behaviour runs with.  EntryInv says which part of a  *)
(* row's history its columns keep, what an hour that began after the end   *)
(* has done to the advisory, what the log has said in whatever order, and, *)
(* where calls take turns, that what the one call has read still stands    *)
(* when it writes.                                                         *)
(***************************************************************************)
EXTENDS AdvisoryNumbers, TmuEntries, SequenceTheorems, WellFoundedInduction, TLAPS

-----------------------------------------------------------------------------
(* Numbers. *)

(* One holder per facility and day.                                        *)
LockExclusive ==
    \A p, q \in Procs : \A f \in Facilities, d \in Days :
        Locks(p, f, d) /\ Locks(q, f, d) => p = q

(* A number that was read is above those in use.                           *)
NumberAbove ==
    \A p \in Procs : \A i \in Present :
        (/\ creates[p].pc = "numbered"
         /\ rows[i].facility = creates[p].facility
         /\ rows[i].day = creates[p].day) => rows[i].number < creates[p].number

(* What was published or cancelled is still there.                         *)
HolderStands ==
    \A h \in holder :
        /\ rows[h[4]] # NoRow
        /\ rows[h[4]].status \in {"published", "cancelled"}
        /\ rows[h[4]].facility = h[1] /\ rows[h[4]].day = h[2] /\ rows[h[4]].number = h[3]

NumbersInv ==
    /\ TypeOK
    /\ LockExclusive
    /\ NumberAbove
    /\ NumbersUnique
    /\ HolderStands

-----------------------------------------------------------------------------
(* What the types say of one row and one create.                           *)
LEMMA RowTypes ==
  ASSUME TypeOK, NEW i \in Ids
  PROVE  /\ rows[i] = NoRow \/ rows[i] \in AdvisoryRows
         /\ rows[i].status \in {"draft", "published", "cancelled"} => rows[i] # NoRow
         /\ rows[i] # NoRow => /\ rows[i].facility \in Facilities /\ rows[i].day \in Days
                               /\ rows[i].number \in Numbers
                               /\ rows[i].status \in {"draft", "published", "cancelled"}
  BY DEF TypeOK, AdvisoryRows, NoRow

LEMMA CreateTypes ==
  ASSUME TypeOK, NEW p \in Procs
  PROVE  /\ creates[p].pc \in {"idle", "begun", "locked", "numbered"}
         /\ creates[p].pc = "idle" <=> creates[p] = NoCreate
         /\ creates[p].pc # "idle" => creates[p].facility \in Facilities /\ creates[p].day \in Days
         /\ creates[p].pc = "numbered" => creates[p].number \in Numbers
  BY DEF TypeOK, Creates, NoCreate

-----------------------------------------------------------------------------
LEMMA TypeStep == TypeOK /\ [Next]_vars => TypeOK'
  <1> SUFFICES ASSUME TypeOK, [Next]_vars PROVE TypeOK'
    OBVIOUS
  <1>1. ASSUME NEW p \in Procs, NEW f \in Facilities, Begin(p, f) PROVE TypeOK'
    <2>1. creates' \in [Procs -> Creates]
      BY <1>1 DEF Begin, ZuluDay, TypeOK, Creates
    <2>2. \A q \in Procs : creates'[q] # NoCreate => creates'[q].day <= today
      BY <1>1, NumbersAssumption DEF Begin, ZuluDay, TypeOK, Days
    <2> QED
      BY <1>1, <2>1, <2>2 DEF Begin, TypeOK, Present
  <1>2. ASSUME NEW p \in Procs, TakeLock(p) PROVE TypeOK'
    <2>1. creates[p].facility \in Facilities /\ creates[p].day \in Days /\ creates[p] # NoCreate
      BY <1>2, CreateTypes DEF TakeLock, NoCreate
    <2>2. creates' \in [Procs -> Creates]
      BY <1>2, <2>1 DEF TakeLock, TypeOK, Creates
    <2>3. \A q \in Procs : creates'[q] # NoCreate => creates'[q].day <= today
      BY <1>2, <2>1 DEF TakeLock, TypeOK
    <2> QED
      BY <1>2, <2>2, <2>3 DEF TakeLock, TypeOK, Present
  <1>3. ASSUME NEW p \in Procs, ReadMax(p) PROVE TypeOK'
    <2>1. creates[p].facility \in Facilities /\ creates[p].day \in Days /\ creates[p] # NoCreate
      BY <1>3, CreateTypes DEF ReadMax, NoCreate
    <2>2. creates' \in [Procs -> Creates]
      BY <1>3, <2>1 DEF ReadMax, TypeOK, Creates
    <2>3. \A q \in Procs : creates'[q] # NoCreate => creates'[q].day <= today
      BY <1>3, <2>1 DEF ReadMax, TypeOK
    <2> QED
      BY <1>3, <2>2, <2>3 DEF ReadMax, TypeOK, Present
  <1>4. ASSUME NEW p \in Procs, NEW i \in Ids, InsertDraft(p, i) PROVE TypeOK'
    <2>1. /\ creates[p].facility \in Facilities /\ creates[p].day \in Days
          /\ creates[p].number \in Numbers /\ creates[p] # NoCreate
      BY <1>4, CreateTypes DEF InsertDraft, NoCreate
    <2>2. rows' \in [Ids -> {NoRow} \cup AdvisoryRows]
      BY <1>4, <2>1 DEF InsertDraft, TypeOK, AdvisoryRows
    <2>3. \A j \in Present' : rows'[j].day <= today
      BY <1>4, <2>1 DEF InsertDraft, TypeOK, Present
    <2> QED
      BY <1>4, <2>2, <2>3 DEF InsertDraft, TypeOK, Creates
  <1>5. ASSUME NEW p \in Procs, Abort(p) PROVE TypeOK'
    BY <1>5 DEF Abort, TypeOK, Creates, Present
  <1>6. ASSUME NEW i \in Ids, Publish(i) \/ Cancel(i) PROVE TypeOK'
    <2>1. rows[i] # NoRow /\ rows[i] \in AdvisoryRows
      BY <1>6, RowTypes DEF Publish, Cancel
    <2>2. rows' \in [Ids -> {NoRow} \cup AdvisoryRows]
      BY <1>6, <2>1 DEF Publish, Cancel, TypeOK, AdvisoryRows
    <2>3. Identity(i) \in Facilities \X Days \X Numbers \X Ids
      BY <2>1 DEF Identity, AdvisoryRows
    <2>4. \A j \in Present' : rows'[j].day <= today
      BY <1>6, <2>1 DEF Publish, Cancel, TypeOK, Present, AdvisoryRows
    <2> QED
      BY <1>6, <2>2, <2>3, <2>4 DEF Publish, Cancel, TypeOK
  <1>7. ASSUME NEW i \in Ids, Delete(i) PROVE TypeOK'
    BY <1>7 DEF Delete, TypeOK, Present
  <1>8. CASE Midnight
    BY <1>8, RowTypes, CreateTypes, NumbersAssumption DEF Midnight, TypeOK, Days, Present, NoCreate
  <1>9. CASE UNCHANGED vars
    BY <1>9 DEF vars, TypeOK, Present
  <1> QED
    BY <1>1, <1>2, <1>3, <1>4, <1>5, <1>6, <1>7, <1>8, <1>9 DEF Next

-----------------------------------------------------------------------------
(* A step that leaves the rows alone, gives nobody a lock and reads no     *)
(* number keeps everything but the types.                                  *)
LEMMA QuietStep ==
  ASSUME NumbersInv, UNCHANGED <<rows, holder>>,
         \A p \in Procs : creates'[p] = creates[p] \/ creates'[p].pc \in {"idle", "begun"}
  PROVE  LockExclusive' /\ NumberAbove' /\ NumbersUnique' /\ HolderStands'
  BY DEF NumbersInv, LockExclusive, NumberAbove, NumbersUnique, HolderStands,
         Locks, Present, SameNumber

(* Taking the lock: nobody else has it.                                    *)
LEMMA TakeLockStep ==
  ASSUME NumbersInv, NEW p \in Procs, TakeLock(p)
  PROVE  LockExclusive' /\ NumberAbove' /\ NumbersUnique' /\ HolderStands'
  <1>1. creates'[p] = [pc |-> "locked", facility |-> creates[p].facility, day |-> creates[p].day]
    BY DEF TakeLock, NumbersInv, TypeOK
  <1>2. \A q \in Procs \ {p} : creates'[q] = creates[q]
    BY DEF TakeLock, NumbersInv, TypeOK
  <1>3. \A q \in Procs : ~Locks(q, creates[p].facility, creates[p].day)
    BY DEF TakeLock, LockFree
  <1>4. LockExclusive'
    BY <1>1, <1>2, <1>3 DEF LockExclusive, Locks, NumbersInv
  <1>5. NumberAbove'
    BY <1>1, <1>2 DEF TakeLock, NumberAbove, NumbersInv, Present
  <1> QED
    BY <1>4, <1>5 DEF TakeLock, NumbersInv, NumbersUnique, HolderStands, Present, SameNumber

(* Reading the number: it is above those in use.                           *)
LEMMA ReadMaxStep ==
  ASSUME NumbersInv, NEW p \in Procs, ReadMax(p)
  PROVE  LockExclusive' /\ NumberAbove' /\ NumbersUnique' /\ HolderStands'
  <1>1. PICK n \in Numbers :
          /\ IsNext(n, Used(creates[p].facility, creates[p].day))
          /\ creates'[p] = [pc |-> "numbered", facility |-> creates[p].facility,
                            day |-> creates[p].day, number |-> n]
    BY DEF ReadMax, NumbersInv, TypeOK
  <1>2. \A q \in Procs \ {p} : creates'[q] = creates[q]
    BY DEF ReadMax, NumbersInv, TypeOK
  <1>3. LockExclusive'
    BY <1>1, <1>2 DEF ReadMax, LockExclusive, Locks, NumbersInv
  <1>4. NumberAbove'
    <2> SUFFICES ASSUME NEW q \in Procs, NEW i \in Present,
                        creates'[q].pc = "numbered",
                        rows[i].facility = creates'[q].facility, rows[i].day = creates'[q].day
                 PROVE  rows[i].number < creates'[q].number
      BY DEF ReadMax, NumberAbove, Present
    <2>1. CASE q = p
      <3>1. rows[i].number \in Used(creates[p].facility, creates[p].day)
        BY <1>1, <2>1 DEF Used
      <3> QED
        BY <1>1, <2>1, <3>1 DEF IsNext
    <2>2. CASE q # p
      BY <1>2, <2>2 DEF NumberAbove, NumbersInv
    <2> QED
      BY <2>1, <2>2
  <1> QED
    BY <1>3, <1>4 DEF ReadMax, NumbersInv, NumbersUnique, HolderStands, Present, SameNumber

(* Inserting: the number is new, and no other transaction has read one for *)
(* the same facility and day.                                              *)
LEMMA InsertStep ==
  ASSUME NumbersInv, NEW p \in Procs, NEW n \in Ids, InsertDraft(p, n)
  PROVE  LockExclusive' /\ NumberAbove' /\ NumbersUnique' /\ HolderStands'
  <1> DEFINE f == creates[p].facility
             d == creates[p].day
  <1>1. /\ creates[p].pc = "numbered" /\ f \in Facilities /\ d \in Days
        /\ creates[p].number \in Numbers
    BY CreateTypes DEF InsertDraft, NumbersInv
  <1>2. /\ rows'[n] = [status |-> "draft", facility |-> f, day |-> d, number |-> creates[p].number]
        /\ \A i \in Ids \ {n} : rows'[i] = rows[i]
        /\ rows[n] = NoRow /\ holder' = holder
    BY DEF InsertDraft, NumbersInv, TypeOK
  <1>3. creates'[p] = NoCreate /\ \A q \in Procs \ {p} : creates'[q] = creates[q]
    BY DEF InsertDraft, NumbersInv, TypeOK
  <1>4. Present' = Present \cup {n} /\ n \notin Present
    <2>1. rows'[n].status # "none" /\ NoRow.status = "none"
      BY <1>2 DEF NoRow
    <2>2. rows'[n] # NoRow
      BY <2>1
    <2> QED
      BY <1>2, <2>2 DEF Present
  <1> HIDE DEF f, d
  <1>5. LockExclusive'
    BY <1>3 DEF LockExclusive, Locks, NumbersInv, NoCreate
  <1>6. \A i \in Present :
          rows[i].facility = f /\ rows[i].day = d => rows[i].number < creates[p].number
    BY <1>1 DEF NumberAbove, NumbersInv, f, d
  <1>7. NumberAbove'
    <2> SUFFICES ASSUME NEW q \in Procs, NEW i \in Present',
                        creates'[q].pc = "numbered",
                        rows'[i].facility = creates'[q].facility, rows'[i].day = creates'[q].day
                 PROVE  rows'[i].number < creates'[q].number
      BY DEF NumberAbove
    <2>1. q # p /\ creates'[q] = creates[q]
      BY <1>3 DEF NoCreate
    <2>2. CASE i = n
      <3>1. Locks(q, f, d) /\ Locks(p, f, d)
        BY <1>1, <1>2, <2>1, <2>2 DEF Locks, f, d
      <3> QED
        BY <1>1, <2>1, <3>1 DEF LockExclusive, NumbersInv
    <2>3. CASE i # n
      BY <1>2, <1>4, <2>1, <2>3 DEF NumberAbove, NumbersInv, Present
    <2> QED
      BY <2>2, <2>3
  <1>8. NumbersUnique'
    <2>1. \A i \in Present : ~(/\ rows[i].facility = f /\ rows[i].day = d
                               /\ rows[i].number = creates[p].number)
      BY <1>1, <1>6 DEF Numbers
    <2> QED
      BY <1>2, <1>4, <2>1 DEF NumbersUnique, SameNumber, NumbersInv, Present
  <1>9. HolderStands'
    <2> SUFFICES ASSUME NEW h \in holder
                 PROVE  /\ rows'[h[4]] # NoRow
                        /\ rows'[h[4]].status \in {"published", "cancelled"}
                        /\ rows'[h[4]].facility = h[1] /\ rows'[h[4]].day = h[2]
                        /\ rows'[h[4]].number = h[3]
      BY <1>2 DEF HolderStands
    <2>1. h[4] \in Ids /\ h[4] # n
      BY <1>2 DEF NumbersInv, HolderStands, TypeOK
    <2> QED
      BY <1>2, <2>1 DEF NumbersInv, HolderStands
  <1> QED
    BY <1>5, <1>7, <1>8, <1>9

(* Publishing and cancelling keep a row's number.                          *)
LEMMA StatusStep ==
  ASSUME NumbersInv, NEW n \in Ids, Publish(n) \/ Cancel(n)
  PROVE  LockExclusive' /\ NumberAbove' /\ NumbersUnique' /\ HolderStands'
  <1>1. rows[n] # NoRow /\ rows[n] \in AdvisoryRows
    BY RowTypes DEF Publish, Cancel, NumbersInv
  <1>2. /\ rows'[n].status \in {"published", "cancelled"}
        /\ rows'[n].facility = rows[n].facility /\ rows'[n].day = rows[n].day
        /\ rows'[n].number = rows[n].number
        /\ \A i \in Ids \ {n} : rows'[i] = rows[i]
        /\ holder' = holder \cup {<<rows[n].facility, rows[n].day, rows[n].number, n>>}
        /\ creates' = creates
    BY <1>1 DEF Publish, Cancel, Identity, NumbersInv, TypeOK, AdvisoryRows
  <1>3. Present' = Present /\ n \in Present
    <2>1. rows'[n] # NoRow
      BY <1>2 DEF NoRow
    <2> QED
      BY <1>1, <1>2, <2>1 DEF Present
  <1>4. \A i \in Ids : /\ rows'[i].facility = rows[i].facility /\ rows'[i].day = rows[i].day
                       /\ rows'[i].number = rows[i].number
    BY <1>2
  <1>5. LockExclusive' /\ NumberAbove' /\ NumbersUnique'
    BY <1>2, <1>3, <1>4
       DEF NumbersInv, LockExclusive, Locks, NumberAbove, NumbersUnique, SameNumber, Present
  <1>6. HolderStands'
    <2> SUFFICES ASSUME NEW h \in holder'
                 PROVE  /\ rows'[h[4]] # NoRow
                        /\ rows'[h[4]].status \in {"published", "cancelled"}
                        /\ rows'[h[4]].facility = h[1] /\ rows'[h[4]].day = h[2]
                        /\ rows'[h[4]].number = h[3]
      BY DEF HolderStands
    <2>1. CASE h \in holder
      <3>1. h[4] \in Ids /\ h[4] \in Present
        BY <2>1 DEF NumbersInv, HolderStands, TypeOK, Present
      <3> QED
        BY <1>2, <1>3, <2>1, <3>1 DEF NumbersInv, HolderStands, Present
    <2>2. CASE h \notin holder
      BY <1>2, <1>3, <2>2 DEF Present
    <2> QED
      BY <2>1, <2>2
  <1> QED
    BY <1>5, <1>6

(* Only drafts are deleted.                                                *)
LEMMA DeleteStep ==
  ASSUME NumbersInv, NEW n \in Ids, Delete(n)
  PROVE  LockExclusive' /\ NumberAbove' /\ NumbersUnique' /\ HolderStands'
  <1>1. /\ rows'[n] = NoRow /\ \A i \in Ids \ {n} : rows'[i] = rows[i]
        /\ creates' = creates /\ holder' = holder
    BY DEF Delete, NumbersInv, TypeOK
  <1>2. Present' = Present \ {n}
    BY <1>1 DEF Present
  <1>3. LockExclusive' /\ NumberAbove' /\ NumbersUnique'
    BY <1>1, <1>2
       DEF NumbersInv, LockExclusive, Locks, NumberAbove, NumbersUnique, SameNumber, Present
  <1>4. \A h \in holder : h[4] \in Ids /\ h[4] # n
    BY DEF Delete, Deletable, NumbersInv, HolderStands, TypeOK
  <1> QED
    BY <1>1, <1>3, <1>4 DEF NumbersInv, HolderStands

LEMMA NumbersStep == NumbersInv /\ [Next]_vars => NumbersInv'
  <1> SUFFICES ASSUME NumbersInv, [Next]_vars
               PROVE  LockExclusive' /\ NumberAbove' /\ NumbersUnique' /\ HolderStands'
    BY TypeStep DEF NumbersInv
  <1>1. ASSUME NEW p \in Procs, NEW f \in Facilities, Begin(p, f)
        PROVE  LockExclusive' /\ NumberAbove' /\ NumbersUnique' /\ HolderStands'
    BY <1>1, QuietStep DEF Begin, NumbersInv, TypeOK
  <1>2. ASSUME NEW p \in Procs, Abort(p)
        PROVE  LockExclusive' /\ NumberAbove' /\ NumbersUnique' /\ HolderStands'
    BY <1>2, QuietStep DEF Abort, NoCreate, NumbersInv, TypeOK
  <1>3. CASE Midnight \/ UNCHANGED vars
    BY <1>3, QuietStep DEF Midnight, vars
  <1> QED
    BY <1>1, <1>2, <1>3, TakeLockStep, ReadMaxStep, InsertStep, StatusStep, DeleteStep DEF Next

LEMMA NumbersInit == Init => NumbersInv
  BY NumbersAssumption DEF Init, NumbersInv, TypeOK, LockExclusive, NumberAbove, NumbersUnique,
         HolderStands, Creates, Days, Present, Locks, NoRow, NoCreate

LEMMA NumbersInvariant == Spec => []NumbersInv
  BY NumbersInit, NumbersStep, PTL DEF Spec

-----------------------------------------------------------------------------
(* The rows, the creates and the history keep their types.                 *)
THEOREM NumbersTyped == Spec => []TypeOK
  <1>1. NumbersInv => TypeOK
    BY DEF NumbersInv
  <1> QED
    BY <1>1, NumbersInvariant, PTL

(* No two advisories share a facility, a day and a number.                 *)
THEOREM Unique == Spec => []NumbersUnique
  <1>1. NumbersInv => NumbersUnique
    BY DEF NumbersInv
  <1> QED
    BY <1>1, NumbersInvariant, PTL

(* A number something was published or cancelled under stays its own.      *)
THEOREM NotReissued == Spec => []NeverReissued
  <1>1. NumbersInv => NeverReissued
    <2> SUFFICES ASSUME NumbersInv, NEW h \in holder, NEW i \in Present,
                        rows[i].facility = h[1], rows[i].day = h[2], rows[i].number = h[3]
                 PROVE  i = h[4]
      BY DEF NeverReissued
    <2>1. h[4] \in Present /\ SameNumber(i, h[4])
      BY DEF NumbersInv, HolderStands, TypeOK, Present, SameNumber
    <2> QED
      BY <2>1 DEF NumbersInv, NumbersUnique
  <1> QED
    BY <1>1, NumbersInvariant, PTL

(* Numbers ascend in the order of creation.                                *)
THEOREM Ascend == Spec => Ascending
  <1>1. NumbersInv /\ [Next]_vars =>
          [\A i \in Ids \ Present : \A j \in Present :
             (i \in Present' /\ rows'[i].facility = rows[j].facility /\ rows'[i].day = rows[j].day)
                => rows'[i].number > rows[j].number]_vars
    <2> SUFFICES ASSUME NumbersInv, Next, NEW i \in Ids \ Present, NEW j \in Present,
                        i \in Present', rows'[i].facility = rows[j].facility,
                        rows'[i].day = rows[j].day
                 PROVE  rows'[i].number > rows[j].number
      OBVIOUS
    <2>1. rows'[i] # rows[i]
      BY DEF Present
    <2>2. PICK p \in Procs : InsertDraft(p, i)
      BY <2>1 DEF Next, Begin, TakeLock, ReadMax, Abort, InsertDraft, Publish, Cancel, Delete,
                  Midnight, NumbersInv, TypeOK, Present, NoRow
    <2>3. /\ creates[p].pc = "numbered" /\ creates[p].number \in Numbers
          /\ rows'[i].facility = creates[p].facility /\ rows'[i].day = creates[p].day
          /\ rows'[i].number = creates[p].number
      BY <2>2, CreateTypes DEF InsertDraft, NumbersInv, TypeOK
    <2>4. rows[j].number < creates[p].number
      BY <2>3 DEF NumbersInv, NumberAbove
    <2>5. rows[j].number \in Numbers
      BY RowTypes DEF NumbersInv, Present
    <2> QED
      BY <2>3, <2>4, <2>5 DEF Numbers
  <1> QED
    BY <1>1, NumbersInvariant, PTL DEF Spec, Ascending

-----------------------------------------------------------------------------
(* Entries: the inductive invariant. *)

(* The entry: types. *)
Stages == {"none", "draft", "published", "cancelled", "expired", "gone"}
Rows   == [status : Stages, line : Lines, stop : Stops \cup {NoTime},
           published : Nat \cup {NoTime}, ended : Nat \cup {NoTime},
           updated : Nat, dismissed : BOOLEAN]
Advisories == [status : {"none", "draft", "published", "cancelled", "deleted"},
               posted : BOOLEAN, corrected : Nat]
Windows == [line : Lines, stop : Stops \cup {NoTime}]
Calls == {Idle} \cup [pc : {"edit"}, before : Windows, change : Changes]
         \cup [pc : {"cancel"}, channel : Channels] \cup [pc : {"soft_delete"}]
         \cup [pc : {"purge", "retire"}, timely : BOOLEAN]
Places == {Place(p) : p \in Workers}

EntryTypeOK ==
    /\ kind \in {"tmi", "ground_stop"}
    /\ row \in Rows
    /\ posts \in Seq(Shown \cup Places)
    /\ adv \in Advisories
    /\ channel \in Channels
    /\ clock \in Nat /\ seen \subseteq Nat /\ swept \in BOOLEAN
    /\ call \in [Workers -> Calls]
    /\ env \in Environments

(* What the columns of the row say of its life.                            *)
LifeInv ==
    /\ row.status \in {"none", "draft"} => row.published = NoTime
    /\ row.status \in {"none", "draft", "published"} => row.ended = NoTime
    /\ row.status = "published" => row.published # NoTime
    /\ row.status = "cancelled" => row.ended # NoTime
    /\ row.published # NoTime => row.published <= clock
    /\ row.ended # NoTime => row.ended <= clock

(* The hours seen are those the row replays, where its window stands.      *)
SeenInv ==
    /\ \A t \in seen : t < clock
    /\ row.published = NoTime => seen = {}
    /\ "edits" \notin env =>
         /\ \A p \in Workers : call[p].pc # "edit"
         /\ row.status = "expired" => row.stop # NoTime /\ row.stop < clock
    /\ ReplayFaithful

(* Since when an entry has been over.                                      *)
Since == IF row.ended = NoTime THEN row.updated ELSE row.ended

(* An advisory's post is corrected with its cancellation; and once a pass  *)
(* has run through an hour that began after the end, it is retired.        *)
AdvisoryInv ==
    /\ row.published = NoTime => adv = NoAdvisory
    /\ adv.status \in {"none", "draft", "published"} => adv.corrected = 0
    /\ adv.status \in {"none", "draft", "deleted"} => ~adv.posted
    /\ (row.status \in {"expired", "cancelled"} /\ Since < clock
          /\ (swept \/ Since < clock - 1)) => ~AdvisoryLives
    /\ AdvisoryRetired

(* What the log says, in whatever order, and who has a place in it.        *)
Said    == {posts[n] : n \in Log}
Waiting == {p \in Workers : PlaceAt(p) # {}}

LogInv ==
    /\ Said # {} => row.status \notin {"none", "draft"}
    /\ \A l \in Said : l.cnx => row.status \notin {"none", "draft", "published"}
    /\ "batched" \notin env => Log = DOMAIN posts
    /\ "batched" \in env => \A p \in Workers : call[p].pc \in {"edit", "cancel"} => p \in Waiting
    /\ (kind = "tmi" /\ row.status = "cancelled" /\ ~row.dismissed) => \E l \in Said : l.cnx
    /\ CancelIsLast

(* Where calls take turns, there is one, its place is the last of the log, *)
(* and what it has read still stands when it writes.                       *)
OneCall == \A p, q \in Workers : call[p] # Idle /\ call[q] # Idle => p = q

PlaceLast ==
    \A n \in DOMAIN posts \ Log :
        n = Len(posts) /\ \E p \in Workers : posts[n] = Place(p) /\ call[p].pc \in {"edit", "cancel"}

EditCurrent ==
    \A p \in Workers : call[p].pc = "edit" =>
        /\ kind = "tmi" /\ row.status # "none"
        /\ call[p].before = [line |-> row.line, stop |-> row.stop]

CancelCurrent ==
    \A p \in Workers : call[p].pc = "cancel" =>
        /\ kind = "tmi"
        /\ Published # {} => call[p].channel = Newest(Published).channel

(* A restriction that went live has its line, and its cancellation goes    *)
(* where that went.                                                        *)
LiveLine == (kind = "tmi" /\ row.published # NoTime) => Published # {}

CancelBeside ==
    (kind = "tmi" /\ row.status = "cancelled" /\ row.published # NoTime /\ ~row.dismissed) =>
        Newest(Log).channel = Newest(Published).channel

TurnInv ==
    Turns => OneCall /\ PlaceLast /\ EditCurrent /\ CancelCurrent /\ LiveLine /\ LogFollows /\ CancelBeside

EntryInv == EntryTypeOK /\ LifeInv /\ SeenInv /\ AdvisoryInv /\ LogInv /\ TurnInv

-----------------------------------------------------------------------------
(* Entries: sets of naturals, and sequences. *)

(* A set of naturals has a least member, by well-foundedness, and one with *)
(* an upper bound a greatest: then Max is it.                              *)
LEMMA LeastIn ==
  ASSUME NEW S, S \subseteq Nat, S # {}
  PROVE  \E n \in S : \A m \in S : n <= m
  <1> DEFINE R == OpToRel(<, Nat)
  <1>1. \A x, y \in Nat : y < x => <<y, x>> \in R
    BY Zenon DEF OpToRel
  <1>2. IsWellFoundedOn(R, Nat)
    BY NatLessThanWellFounded
  <1> HIDE DEF R
  <1>3. \E n \in S : \A m \in S : <<m, n>> \notin R
    BY <1>2, WFMin
  <1>4. \E n \in S : \A m \in S : ~(m < n)
    BY <1>1, <1>3, Zenon
  <1> QED
    BY <1>4

LEMMA GreatestIn ==
  ASSUME NEW n \in Nat, NEW S \in SUBSET (1..n), S # {}
  PROVE  Max(S) \in S /\ \A k \in S : k <= Max(S)
  <1> DEFINE N == {n - x : x \in S}
  <1>1. N \subseteq Nat /\ N # {}
    <2>1. PICK x \in S : TRUE
      OBVIOUS
    <2>2. n - x \in N
      BY <2>1
    <2>3. \A y \in S : n - y \in Nat
      OBVIOUS
    <2> QED
      BY <2>2, <2>3
  <1>2. \E i \in N : \A j \in N : i <= j
    <2> HIDE DEF N
    <2> QED
      BY <1>1, LeastIn
  <1>3. PICK x \in S : \A y \in S : n - x <= n - y
    BY <1>2
  <1>4. \A y \in S : x >= y
    BY <1>3
  <1>5. Max(S) \in S /\ \A y \in S : Max(S) >= y
    BY <1>4, Zenon DEF Max
  <1> QED
    BY <1>5

(* What is left when the element at a position is taken out.               *)
LEMMA TakenOut ==
  ASSUME NEW S, NEW s \in Seq(S), NEW i \in DOMAIN s, NEW r, r = RemoveAt(s, i)
  PROVE  /\ r \in Seq(S) /\ Len(r) = Len(s) - 1
         /\ \A n \in DOMAIN r : r[n] = IF n < i THEN s[n] ELSE s[n + 1]
         /\ \A m \in DOMAIN s : m # i => \E n \in DOMAIN r : r[n] = s[m]
  <1> DEFINE a == SubSeq(s, 1, i - 1)
             b == SubSeq(s, i + 1, Len(s))
  <1>0. i \in 1..Len(s) /\ Len(s) \in Nat
    OBVIOUS
  <1>1. a \in Seq(S) /\ Len(a) = i - 1 /\ \A n \in 1..(i - 1) : a[n] = s[n]
    OBVIOUS
  <1>2. b \in Seq(S) /\ Len(b) = Len(s) - i /\ \A n \in 1..(Len(s) - i) : b[n] = s[i + n]
    OBVIOUS
  <1>3. r = a \o b
    BY DEF RemoveAt
  <1> HIDE DEF a, b
  <1>4. r \in Seq(S) /\ Len(r) = Len(s) - 1
    BY <1>0, <1>1, <1>2, <1>3
  <1>5. ASSUME NEW n \in 1..(Len(s) - 1) PROVE r[n] = IF n < i THEN s[n] ELSE s[n + 1]
    <2>1. CASE n < i
      <3>1. r[n] = a[n]
        BY <2>1, <1>0, <1>1, <1>2, <1>3
      <3> QED
        BY <3>1, <2>1, <1>0, <1>1
    <2>2. CASE n >= i
      <3>1. r[n] = b[n - (i - 1)]
        <4>1. n \in 1..(Len(a) + Len(b)) /\ ~(n <= Len(a)) /\ n - Len(a) = n - (i - 1)
          BY <2>2, <1>0, <1>1, <1>2
        <4>2. (a \o b)[n] = b[n - Len(a)]
          BY <4>1, <1>1, <1>2, ConcatProperties
        <4> QED
          BY <4>1, <4>2, <1>3
      <3>2. b[n - (i - 1)] = s[i + (n - (i - 1))]
        BY <2>2, <1>0, <1>2
      <3>3. i + (n - (i - 1)) = n + 1
        BY <1>0
      <3> QED
        BY <3>1, <3>2, <3>3, <2>2, <1>0
    <2> QED
      BY <2>1, <2>2, <1>0
  <1>6. ASSUME NEW m \in DOMAIN s, m # i PROVE \E n \in DOMAIN r : r[n] = s[m]
    <2>1. CASE m < i
      BY <2>1, <1>0, <1>4, <1>5
    <2>2. CASE m > i
      <3>1. m - 1 \in DOMAIN r /\ r[m - 1] = s[m]
        BY <2>2, <1>0, <1>4, <1>5
      <3> QED
        BY <3>1
    <2> QED
      BY <1>6, <2>1, <2>2
  <1> QED
    BY <1>4, <1>5, <1>6

(* What there is when one is appended.                                     *)
LEMMA Appended ==
  ASSUME NEW S, NEW s \in Seq(S), NEW e \in S, NEW r, r = Append(s, e)
  PROVE  /\ r \in Seq(S) /\ Len(r) = Len(s) + 1 /\ r[Len(s) + 1] = e
         /\ \A n \in DOMAIN s : n \in DOMAIN r /\ r[n] = s[n]
  <1>1. Len(s) \in Nat /\ DOMAIN s = 1..Len(s)
    OBVIOUS
  <1>2. r \in Seq(S) /\ Len(r) = Len(s) + 1
    BY AppendProperties
  <1>3. r[Len(s) + 1] = e
    BY AppendProperties
  <1>4. \A n \in 1..Len(s) : r[n] = s[n]
    BY AppendProperties
  <1> QED
    BY <1>1, <1>2, <1>3, <1>4

-----------------------------------------------------------------------------
(* Entries: places, types and the moves of a row. *)

(* A place is no line, and is its owner's alone.                           *)
LEMMA PlaceFacts ==
  ASSUME NEW p \in Workers
  PROVE  /\ Place(p) \in Places /\ Place(p) \notin Shown
         /\ \A q \in Workers : Place(p) = Place(q) => p = q
  <1>1. Place(p).by = p /\ DOMAIN Place(p) = {"by"}
    BY DEF Place
  <1>2. \A e \in Shown : DOMAIN e = {"cnx", "line", "stop", "channel"}
    BY DEF Shown
  <1>3. \A q \in Workers : Place(q).by = q
    BY DEF Place
  <1> QED
    BY <1>1, <1>2, <1>3 DEF Places

(* Giving up a place takes out that place and nothing else ...             *)
LEMMA LeaveFacts ==
  ASSUME EntryTypeOK, NEW p \in Workers, Leave(p)
  PROVE  /\ posts' \in Seq(Shown \cup Places)
         /\ \A m \in DOMAIN posts : posts[m] # Place(p) => \E n \in DOMAIN posts' : posts'[n] = posts[m]
         /\ \A n \in DOMAIN posts' : \E m \in DOMAIN posts : posts'[n] = posts[m]
         /\ PlaceAt(p) = {} => posts' = posts
         /\ (PlaceAt(p) # {} /\ \A n \in PlaceAt(p) : n = Len(posts)) =>
              Len(posts') = Len(posts) - 1 /\ \A n \in DOMAIN posts' : posts'[n] = posts[n]
  <1>0. posts \in Seq(Shown \cup Places) /\ Len(posts) \in Nat /\ DOMAIN posts = 1..Len(posts)
    BY DEF EntryTypeOK
  <1>1. CASE PlaceAt(p) = {}
    BY <1>0, <1>1 DEF Leave
  <1>2. CASE PlaceAt(p) # {}
    <2> DEFINE i == Max(PlaceAt(p))
    <2>1. PlaceAt(p) \in SUBSET (1..Len(posts))
      BY <1>0 DEF PlaceAt
    <2>2. i \in PlaceAt(p)
      BY <1>0, <1>2, <2>1, GreatestIn
    <2>3. posts' = RemoveAt(posts, i)
      BY <1>2 DEF Leave
    <2> HIDE DEF i
    <2>4. i \in DOMAIN posts /\ posts[i] = Place(p)
      BY <2>2 DEF PlaceAt
    <2>5. /\ posts' \in Seq(Shown \cup Places) /\ Len(posts') = Len(posts) - 1
          /\ \A n \in DOMAIN posts' : posts'[n] = IF n < i THEN posts[n] ELSE posts[n + 1]
          /\ \A m \in DOMAIN posts : m # i => \E n \in DOMAIN posts' : posts'[n] = posts[m]
      <3> DEFINE S == Shown \cup Places
      <3>1. posts \in Seq(S)
        BY <1>0
      <3> HIDE DEF S
      <3>2. /\ posts' \in Seq(S) /\ Len(posts') = Len(posts) - 1
            /\ \A n \in DOMAIN posts' : posts'[n] = IF n < i THEN posts[n] ELSE posts[n + 1]
            /\ \A m \in DOMAIN posts : m # i => \E n \in DOMAIN posts' : posts'[n] = posts[m]
        BY <2>3, <2>4, <3>1, TakenOut
      <3> QED
        BY <3>2 DEF S
    <2>6. \A n \in DOMAIN posts' : n \in DOMAIN posts /\ n + 1 \in DOMAIN posts
      BY <1>0, <2>5
    <2>7. \A n \in DOMAIN posts' : \E m \in DOMAIN posts : posts'[n] = posts[m]
      BY <2>5, <2>6
    <2>8. ASSUME \A n \in PlaceAt(p) : n = Len(posts)
          PROVE  \A n \in DOMAIN posts' : posts'[n] = posts[n]
      <3>1. i = Len(posts)
        BY <2>2, <2>8
      <3>2. \A n \in DOMAIN posts' : n < i
        BY <1>0, <2>5, <3>1
      <3> QED
        BY <2>5, <3>2
    <2> QED
      BY <1>2, <2>4, <2>5, <2>7, <2>8
  <1> QED
    BY <1>1, <1>2

(* ... a line goes where its place was, or to the end ...                  *)
LEMMA PostFacts ==
  ASSUME EntryTypeOK, NEW p \in Workers, NEW l \in Shown, Post(p, l)
  PROVE  /\ posts' \in Seq(Shown \cup Places)
         /\ "batched" \notin env =>
              /\ Len(posts') = Len(posts) + 1 /\ posts'[Len(posts) + 1] = l
              /\ \A n \in DOMAIN posts : posts'[n] = posts[n]
         /\ "batched" \in env =>
              /\ DOMAIN posts' = DOMAIN posts
              /\ \A n \in DOMAIN posts : posts'[n] = IF posts[n] = Place(p) THEN l ELSE posts[n]
  <1>0. posts \in Seq(Shown \cup Places) /\ Len(posts) \in Nat /\ DOMAIN posts = 1..Len(posts)
    BY DEF EntryTypeOK
  <1>1. CASE "batched" \notin env
    <2> DEFINE S == Shown \cup Places
    <2>1. posts \in Seq(S) /\ l \in S /\ posts' = Append(posts, l)
      BY <1>0, <1>1 DEF Post
    <2> HIDE DEF S
    <2>2. /\ posts' \in Seq(S) /\ Len(posts') = Len(posts) + 1 /\ posts'[Len(posts) + 1] = l
          /\ \A n \in DOMAIN posts : n \in DOMAIN posts' /\ posts'[n] = posts[n]
      BY <2>1, Appended
    <2> QED
      BY <1>1, <2>2 DEF S
  <1>2. CASE "batched" \in env
    <2>1. posts' = [n \in 1..Len(posts) |-> IF posts[n] = Place(p) THEN l ELSE posts[n]]
      BY <1>2 DEF Post, ReplaceAll
    <2>2. \A n \in 1..Len(posts) : posts'[n] \in Shown \cup Places
      BY <1>0, <2>1
    <2>3. posts' \in Seq(Shown \cup Places)
      BY <1>0, <2>1, <2>2
    <2> QED
      BY <1>0, <1>2, <2>1, <2>3
  <1> QED
    BY <1>1, <1>2

(* ... and a place is taken at the end.                                    *)
LEMMA ReserveFacts ==
  ASSUME EntryTypeOK, NEW p \in Workers, Reserve(p)
  PROVE  /\ posts' \in Seq(Shown \cup Places)
         /\ "batched" \notin env => posts' = posts
         /\ "batched" \in env => Len(posts') = Len(posts) + 1 /\ posts'[Len(posts) + 1] = Place(p)
         /\ \A n \in DOMAIN posts : n \in DOMAIN posts' /\ posts'[n] = posts[n]
  <1>0. posts \in Seq(Shown \cup Places) /\ Len(posts) \in Nat /\ DOMAIN posts = 1..Len(posts)
    BY DEF EntryTypeOK
  <1>1. CASE "batched" \notin env
    BY <1>0, <1>1 DEF Reserve
  <1>2. CASE "batched" \in env
    <2> DEFINE S == Shown \cup Places
    <2>1. posts \in Seq(S) /\ Place(p) \in S /\ posts' = Append(posts, Place(p))
      BY <1>0, <1>2, PlaceFacts DEF Reserve
    <2> HIDE DEF S
    <2>2. /\ posts' \in Seq(S) /\ Len(posts') = Len(posts) + 1
          /\ posts'[Len(posts) + 1] = Place(p)
          /\ \A n \in DOMAIN posts : n \in DOMAIN posts' /\ posts'[n] = posts[n]
      BY <2>1, Appended
    <2> QED
      BY <1>2, <2>2 DEF S
  <1> QED
    BY <1>1, <1>2

(* The types of what the actions put together.                             *)
LEMMA Typed ==
  ASSUME EntryTypeOK
  PROVE  /\ row.status \in Stages /\ row.line \in Lines /\ row.stop \in Stops \cup {NoTime}
         /\ row.published \in Nat \cup {NoTime} /\ row.ended \in Nat \cup {NoTime}
         /\ row.updated \in Nat /\ row.dismissed \in BOOLEAN
         /\ clock \in Nat
         /\ \A cnx \in BOOLEAN, ch \in Channels : Line(row, cnx, ch) \in Shown
         /\ \A s \in Stages : [row EXCEPT !.status = s] \in Rows /\ Ended(row, s) \in Rows
         /\ Dismissed(row) \in Rows
         /\ \A r \in Rows : [r EXCEPT !.updated = clock] \in Rows
         /\ \A c \in Changes : Merged(c) \in Rows
  <1>1. row \in Rows /\ clock \in Nat
    BY DEF EntryTypeOK
  <1>2. \A cnx \in BOOLEAN, ch \in Channels : Line(row, cnx, ch) \in Shown
    BY <1>1 DEF Line, Shown, Rows
  <1>3. \A s \in Stages : [row EXCEPT !.status = s] \in Rows
    BY <1>1 DEF Rows
  <1>4. \A s \in Stages : Ended(row, s) \in Rows
    BY <1>1 DEF Rows, Ended
  <1>5. \A r \in Rows : [r EXCEPT !.dismissed = TRUE] \in Rows
    BY DEF Rows
  <1>6. Dismissed(row) \in Rows
    BY <1>1, <1>4, <1>5 DEF Dismissed, Stages
  <1>7. \A r \in Rows : [r EXCEPT !.updated = clock] \in Rows
    BY <1>1 DEF Rows
  <1>8. ASSUME NEW c \in Changes PROVE Merged(c) \in Rows
    <2>1. c.line \in Lines \cup {Keep} /\ c.stop \in Stops \cup {Keep}
      BY DEF Changes
    <2>2. (IF c.line = Keep THEN row.line ELSE c.line) \in Lines
      BY <1>1, <2>1 DEF Rows
    <2>3. (IF c.stop = Keep THEN row.stop ELSE c.stop) \in Stops \cup {NoTime}
      BY <1>1, <2>1 DEF Rows
    <2> QED
      BY <1>1, <2>2, <2>3 DEF Merged, Rows
  <1> QED
    BY <1>1, <1>2, <1>3, <1>4, <1>6, <1>7, <1>8 DEF Rows

(* A control state says which fields a call has.                           *)
LEMMA CallTyped ==
  ASSUME EntryTypeOK, NEW p \in Workers
  PROVE  /\ call[p] \in Calls
         /\ call[p] = Idle <=> call[p].pc = "idle"
         /\ call[p].pc \in {"idle", "edit", "cancel", "soft_delete", "purge", "retire"}
         /\ call[p].pc = "edit" => call[p].before \in Windows /\ call[p].change \in Changes
         /\ call[p].pc = "cancel" => call[p].channel \in Channels
         /\ call[p].pc \in {"purge", "retire"} =>
              /\ call[p].timely \in BOOLEAN
              /\ [call[p] EXCEPT !.pc = "retire"] \in Calls
              /\ [call[p] EXCEPT !.timely = FALSE] \in Calls
              /\ [call[p] EXCEPT !.pc = "retire"].pc = "retire"
              /\ [call[p] EXCEPT !.timely = FALSE].pc = call[p].pc
  <1>1. call[p] \in Calls
    BY DEF EntryTypeOK
  <1>2. /\ call[p] = Idle <=> call[p].pc = "idle"
        /\ call[p].pc \in {"idle", "edit", "cancel", "soft_delete", "purge", "retire"}
        /\ call[p].pc = "edit" => call[p].before \in Windows /\ call[p].change \in Changes
        /\ call[p].pc = "cancel" => call[p].channel \in Channels
    BY <1>1 DEF Calls, Idle
  <1>3. ASSUME call[p].pc \in {"purge", "retire"}
        PROVE  call[p] \in [pc : {"purge", "retire"}, timely : BOOLEAN]
    BY <1>1, <1>3 DEF Calls, Idle
  <1> QED
    BY <1>1, <1>2, <1>3 DEF Calls

(* One step per action, and under it the variables it changes.             *)
LEMMA EntryTypeStep == EntryTypeOK /\ [EntryNext]_entryVars => EntryTypeOK'
  <1> SUFFICES ASSUME EntryTypeOK, [EntryNext]_entryVars PROVE EntryTypeOK'
    OBVIOUS
  <1>0. /\ kind \in {"tmi", "ground_stop"} /\ row \in Rows /\ posts \in Seq(Shown \cup Places)
        /\ adv \in Advisories /\ channel \in Channels /\ clock \in Nat /\ seen \subseteq Nat
        /\ swept \in BOOLEAN /\ call \in [Workers -> Calls] /\ env \in Environments
    BY DEF EntryTypeOK
  <1>a. \A p \in Workers, c \in Calls : [call EXCEPT ![p] = c] \in [Workers -> Calls]
    BY <1>0
  <1>b. Idle \in Calls /\ [pc |-> "soft_delete"] \in Calls
        /\ [pc |-> "purge", timely |-> TRUE] \in Calls
    BY DEF Calls
  <1>c. adv.status \in {"none", "draft", "published", "cancelled", "deleted"}
        /\ adv.posted \in BOOLEAN /\ adv.corrected \in Nat
    BY <1>0 DEF Advisories
  <1>d. Withdrawn(adv) \in Advisories
    <2>1. (IF adv.posted THEN adv.corrected + 1 ELSE adv.corrected) \in Nat
      BY <1>c
    <2> QED
      BY <1>0, <2>1 DEF Withdrawn, Advisories
  <1>1. CASE Create
    <2>1. PICK l \in Lines, s \in Stops \cup {NoTime} :
            row' = [[row EXCEPT !.status = "draft", !.line = l, !.stop = s] EXCEPT !.updated = clock]
      BY <1>1 DEF Create, Update
    <2>2. row' \in Rows
      BY <1>0, <2>1 DEF Rows, Stages
    <2> QED
      BY <1>0, <1>1, <2>2 DEF Create, EntryTypeOK
  <1>2. CASE PublishEntry
    <2>1. row' \in Rows
      BY <1>0, <1>2 DEF PublishEntry, Update, Rows, Stages
    <2>2. posts' \in Seq(Shown \cup Places)
      <3>1. CASE kind = "tmi"
        <4> DEFINE S == Shown \cup Places
        <4>1. posts \in Seq(S) /\ Line(row, FALSE, channel) \in S
              /\ posts' = Append(posts, Line(row, FALSE, channel))
          BY <1>0, <1>2, <3>1, Typed DEF PublishEntry
        <4> HIDE DEF S
        <4>2. posts' \in Seq(S)
          BY <4>1, Appended
        <4> QED
          BY <4>2 DEF S
      <3> QED
        BY <1>0, <1>2, <3>1 DEF PublishEntry
    <2>3. adv' \in Advisories
      BY <1>0, <1>2 DEF PublishEntry, Advisories
    <2> QED
      BY <1>0, <1>2, <2>1, <2>2, <2>3 DEF PublishEntry, EntryTypeOK
  <1>3. CASE CancelGroundStop
    <2>1. row' \in Rows
      BY <1>3, Typed DEF CancelGroundStop, Update, Stages
    <2> QED
      BY <1>0, <1>3, <2>1 DEF CancelGroundStop, EntryTypeOK
  <1>4. CASE Prune
    <2>1. row' \in Rows
      BY <1>4, Typed DEF Prune, Stages
    <2> QED
      BY <1>0, <1>4, <2>1 DEF Prune, EntryTypeOK
  <1>5. CASE PublishAdvisory \/ CancelAdvisory \/ DeleteAdvisory
    <2>1. adv' \in Advisories
      BY <1>0, <1>5, <1>d DEF PublishAdvisory, CancelAdvisory, DeleteAdvisory, Advisories
    <2> QED
      BY <1>0, <1>5, <2>1 DEF PublishAdvisory, CancelAdvisory, DeleteAdvisory, EntryTypeOK
  <1>6. CASE Remap
    BY <1>0, <1>6 DEF Remap, EntryTypeOK
  <1>7. CASE Tick
    <2>1. call' \in [Workers -> Calls]
      <3> DEFINE Late(p) == IF call[p].pc \in {"purge", "retire"}
                            THEN [call[p] EXCEPT !.timely = FALSE] ELSE call[p]
      <3>1. \A p \in Workers : Late(p) \in Calls
        BY CallTyped
      <3>2. call' = [p \in Workers |-> Late(p)]
        BY <1>7 DEF Tick
      <3> HIDE DEF Late
      <3> QED
        BY <3>1, <3>2
    <2>2. clock' = clock + 1 /\ swept' = FALSE /\ seen' \in {seen, seen \cup {clock}}
      BY <1>7, Zenon DEF Tick
    <2>3. clock' \in Nat /\ swept' \in BOOLEAN /\ seen' \subseteq Nat
      <3>1. clock' \in Nat
        BY <1>0, <2>2
      <3>2. swept' \in BOOLEAN
        BY <2>2, Zenon
      <3>3. seen' \subseteq Nat
        BY <1>0, <2>2, Zenon
      <3> QED
        BY <3>1, <3>2, <3>3
    <2> QED
      BY <1>0, <1>7, <2>1, <2>3 DEF Tick, EntryTypeOK
  <1>8. ASSUME NEW p \in Workers, BeginEdit(p) PROVE EntryTypeOK'
    <2>1. PICK c \in Changes :
            call' = [call EXCEPT ![p] = [pc |-> "edit", before |-> [line |-> row.line, stop |-> row.stop],
                                         change |-> c]]
      BY <1>8 DEF BeginEdit, Goto
    <2>2. [pc |-> "edit", before |-> [line |-> row.line, stop |-> row.stop], change |-> c] \in Calls
      BY Typed DEF Calls, Windows
    <2>3. posts' \in Seq(Shown \cup Places)
      BY <1>8, ReserveFacts DEF BeginEdit
    <2> QED
      BY <1>0, <1>8, <1>a, <2>1, <2>2, <2>3 DEF BeginEdit, EntryTypeOK
  <1>9. ASSUME NEW p \in Workers, WriteEdit(p) PROVE EntryTypeOK'
    <2>0. Merged(call[p].change) \in Rows
      BY <1>9, CallTyped, Typed DEF WriteEdit
    <2>1. row' \in Rows
      BY <1>0, <1>9, <2>0, Typed DEF WriteEdit, Update
    <2>2. Line(Merged(call[p].change), FALSE, channel) \in Shown
      BY <1>0, <2>0 DEF Line, Shown, Rows
    <2>3. posts' \in Seq(Shown \cup Places)
      BY <1>9, <2>2, LeaveFacts, PostFacts DEF WriteEdit
    <2> QED
      BY <1>0, <1>9, <1>a, <1>b, <2>1, <2>3 DEF WriteEdit, Goto, EntryTypeOK
  <1>10. ASSUME NEW p \in Workers, BeginCancel(p) PROVE EntryTypeOK'
    <2>1. CancelChannel \in Channels
      <3>1. CASE Published = {}
        BY <1>0, <3>1 DEF CancelChannel
      <3>2. CASE Published # {}
        <4>1. Published \in SUBSET (1..Len(posts)) /\ Len(posts) \in Nat
          BY <1>0 DEF Published, Log
        <4>2. Max(Published) \in Published
          BY <3>2, <4>1, GreatestIn
        <4>3. posts[Max(Published)] \in Shown
          BY <4>2 DEF Published, Log
        <4> QED
          BY <3>2, <4>3 DEF CancelChannel, Newest, Shown
      <3> QED
        BY <3>1, <3>2
    <2>2. [pc |-> "cancel", channel |-> CancelChannel] \in Calls
      BY <2>1 DEF Calls
    <2>3. posts' \in Seq(Shown \cup Places)
      BY <1>10, ReserveFacts DEF BeginCancel
    <2> QED
      BY <1>0, <1>10, <1>a, <2>2, <2>3 DEF BeginCancel, Goto, EntryTypeOK
  <1>11. ASSUME NEW p \in Workers, WriteCancel(p) PROVE EntryTypeOK'
    <2>1. row' \in Rows
      BY <1>0, <1>11, Typed DEF WriteCancel, Update, Stages
    <2>2. Line(row, TRUE, call[p].channel) \in Shown
      BY <1>11, CallTyped, Typed DEF WriteCancel
    <2>3. posts' \in Seq(Shown \cup Places)
      BY <1>11, <2>2, LeaveFacts, PostFacts DEF WriteCancel
    <2> QED
      BY <1>0, <1>11, <1>a, <1>b, <2>1, <2>3 DEF WriteCancel, Goto, EntryTypeOK
  <1>12. ASSUME NEW p \in Workers, HardDelete(p) PROVE EntryTypeOK'
    <2>1. row' \in Rows
      BY <1>0, <1>12, Typed DEF HardDelete, Stages
    <2>2. call' \in [Workers -> Calls]
      BY <1>0, <1>12, <1>a, <1>b DEF HardDelete, Goto
    <2> QED
      BY <1>0, <1>12, <2>1, <2>2 DEF HardDelete, EntryTypeOK
  <1>13. ASSUME NEW p \in Workers, SoftDelete(p) PROVE EntryTypeOK'
    <2>1. row' \in Rows
      BY <1>0, <1>13, Typed DEF SoftDelete, Update
    <2> QED
      BY <1>0, <1>13, <1>a, <1>b, <2>1 DEF SoftDelete, Goto, EntryTypeOK
  <1>14. ASSUME NEW p \in Workers, SweepExpire(p) PROVE EntryTypeOK'
    <2>1. row' \in Rows
      BY <1>0, <1>14, Typed DEF SweepExpire, Update, Stages
    <2> QED
      BY <1>0, <1>14, <1>a, <1>b, <2>1 DEF SweepExpire, Goto, EntryTypeOK
  <1>15. ASSUME NEW p \in Workers, SweepPurge(p) PROVE EntryTypeOK'
    <2>1. row' \in Rows
      BY <1>0, <1>15, Typed DEF SweepPurge, Stages
    <2>2. [call[p] EXCEPT !.pc = "retire"] \in Calls
      BY <1>15, CallTyped DEF SweepPurge
    <2> QED
      BY <1>0, <1>15, <1>a, <2>1, <2>2 DEF SweepPurge, Goto, EntryTypeOK
  <1>16. ASSUME NEW p \in Workers, SweepRetire(p) PROVE EntryTypeOK'
    <2>1. adv' \in Advisories
      BY <1>0, <1>16, <1>d DEF SweepRetire
    <2>2. swept' \in BOOLEAN
      BY <1>0, <1>16, CallTyped DEF SweepRetire
    <2> QED
      BY <1>0, <1>16, <1>a, <1>b, <2>1, <2>2 DEF SweepRetire, Goto, EntryTypeOK
  <1>17. ASSUME NEW p \in Workers, Fail(p) PROVE EntryTypeOK'
    <2>1. posts' \in Seq(Shown \cup Places)
      BY <1>17, LeaveFacts DEF Fail
    <2> QED
      BY <1>0, <1>17, <1>a, <1>b, <2>1 DEF Fail, Goto, EntryTypeOK
  <1>18. CASE UNCHANGED entryVars
    BY <1>0, <1>18 DEF entryVars, EntryTypeOK
  <1> QED
    BY <1>1, <1>2, <1>3, <1>4, <1>5, <1>6, <1>7, <1>8, <1>9, <1>10, <1>11, <1>12, <1>13, <1>14,
       <1>15, <1>16, <1>17, <1>18 DEF EntryNext

(* What a step may make of the row.                                        *)
SameWindow == row'.line = row.line /\ row'.stop = row.stop
SameTimes  == row'.published = row.published /\ row'.ended = row.ended

CreatesRow ==
    /\ row.status = "none" /\ row'.status = "draft"
    /\ SameTimes /\ row'.dismissed = row.dismissed

PublishesRow ==
    /\ row.status = "draft" /\ row'.status = "published"
    /\ SameWindow /\ row'.published = clock /\ row'.ended = row.ended
    /\ row'.dismissed = row.dismissed

EditsRow ==
    /\ Exists /\ (\E p \in Workers : call[p].pc = "edit")
    /\ row'.status = row.status
    /\ SameTimes /\ row'.dismissed = row.dismissed /\ row'.updated = clock

EndsRow ==
    /\ Active /\ row'.status = "cancelled"
    /\ SameWindow /\ row'.published = row.published /\ row'.dismissed = row.dismissed
    /\ row'.ended = IF row.ended = NoTime THEN clock ELSE row.ended

DismissesRow ==
    /\ Exists /\ row'.status = IF Active THEN "cancelled" ELSE row.status
    /\ SameWindow /\ row'.published = row.published /\ row'.dismissed = TRUE
    /\ row'.updated = clock
    /\ row'.ended = IF Active /\ row.ended = NoTime THEN clock ELSE row.ended

ExpiresRow ==
    /\ Active /\ Lapsed /\ row'.status = "expired"
    /\ SameWindow /\ SameTimes /\ row'.dismissed = row.dismissed /\ row'.updated = clock

RemovesRow == row'.status = "gone" /\ SameWindow /\ SameTimes /\ row'.dismissed = row.dismissed

(* Every action that changes the row is one of these moves.                *)
LEMMA RowMoves ==
  ASSUME EntryTypeOK
  PROVE  /\ Create => CreatesRow
         /\ PublishEntry => PublishesRow
         /\ CancelGroundStop => EndsRow
         /\ Prune => RemovesRow
         /\ \A p \in Workers :
              /\ WriteEdit(p) => row' = row \/ EditsRow
              /\ WriteCancel(p) => row' = row \/ EndsRow
              /\ HardDelete(p) => row' = row \/ RemovesRow
              /\ SoftDelete(p) => row' = row \/ DismissesRow
              /\ SweepExpire(p) => row' = row \/ ExpiresRow
              /\ SweepPurge(p) => row' = row \/ RemovesRow
  <1>1. row \in Rows
    BY DEF EntryTypeOK
  <1>2. Create => CreatesRow
    BY <1>1 DEF Create, Update, Rows, CreatesRow, SameTimes
  <1>3. PublishEntry => PublishesRow
    BY <1>1 DEF PublishEntry, Update, Rows, PublishesRow, SameWindow
  <1>4. ASSUME Active, Update(Ended(row, "cancelled")) PROVE EndsRow
    BY <1>1, <1>4 DEF Rows, Ended, Update, EndsRow, SameWindow
  <1>5. ASSUME NEW p \in Workers PROVE WriteEdit(p) => row' = row \/ EditsRow
    BY <1>1 DEF WriteEdit, Update, Merged, Rows, EditsRow, SameTimes
  <1>6. ASSUME NEW p \in Workers PROVE SoftDelete(p) => row' = row \/ DismissesRow
    <2>1. ASSUME Exists, Active, Update(Dismissed(row)) PROVE DismissesRow
      BY <1>1, <2>1 DEF Rows, Ended, Update, Dismissed, DismissesRow, SameWindow
    <2>2. ASSUME Exists, ~Active, Update(Dismissed(row)) PROVE DismissesRow
      BY <1>1, <2>2 DEF Rows, Update, Dismissed, DismissesRow, SameWindow
    <2> QED
      BY <2>1, <2>2 DEF SoftDelete
  <1>7. ASSUME NEW p \in Workers PROVE SweepExpire(p) => row' = row \/ ExpiresRow
    BY <1>1 DEF SweepExpire, Update, Rows, ExpiresRow, SameWindow, SameTimes
  <1>8. ASSUME row' = [row EXCEPT !.status = "gone"] PROVE RemovesRow
    BY <1>1, <1>8 DEF Rows, RemovesRow, SameWindow, SameTimes
  <1> QED
    BY <1>2, <1>3, <1>4, <1>5, <1>6, <1>7, <1>8
       DEF CancelGroundStop, WriteCancel, Cancellable, Prune, HardDelete, SweepPurge

(* Where a call's step leaves the calls.                                   *)
Moves(p, stage) ==
    /\ call'[p].pc = stage
    /\ \A q \in Workers : q # p => call'[q] = call[q]

(* The control state each step of a call ends in.                          *)
LEMMA CallMoves ==
  ASSUME EntryTypeOK, NEW p \in Workers
  PROVE  /\ BeginEdit(p) => Moves(p, "edit")
         /\ BeginCancel(p) => Moves(p, "cancel")
         /\ WriteEdit(p) \/ WriteCancel(p) \/ SoftDelete(p) \/ SweepRetire(p) \/ Fail(p) =>
              Moves(p, "idle")
         /\ HardDelete(p) => call' = call \/ Moves(p, "soft_delete")
         /\ SweepExpire(p) => Moves(p, "purge")
         /\ SweepPurge(p) => Moves(p, "retire")
  <1>1. call \in [Workers -> Calls]
    BY DEF EntryTypeOK
  <1>2. ASSUME NEW c, Goto(p, c) PROVE Moves(p, c.pc)
    BY <1>1, <1>2 DEF Goto, Moves
  <1>3. Idle.pc = "idle" /\ [pc |-> "soft_delete"].pc = "soft_delete"
        /\ [pc |-> "purge", timely |-> TRUE].pc = "purge"
        /\ [pc |-> "cancel", channel |-> CancelChannel].pc = "cancel"
    BY DEF Idle
  <1>4. BeginEdit(p) => Moves(p, "edit")
    <2> SUFFICES ASSUME BeginEdit(p) PROVE Moves(p, "edit")
      OBVIOUS
    <2>1. PICK c \in Changes : Goto(p, [pc |-> "edit",
              before |-> [line |-> row.line, stop |-> row.stop], change |-> c])
      BY DEF BeginEdit
    <2> QED
      BY <1>1, <2>1 DEF Goto, Moves
  <1>5. BeginCancel(p) => Moves(p, "cancel")
    BY <1>2, <1>3 DEF BeginCancel
  <1>6. WriteEdit(p) \/ WriteCancel(p) \/ SoftDelete(p) \/ SweepRetire(p) \/ Fail(p) => Moves(p, "idle")
    BY <1>2, <1>3 DEF WriteEdit, WriteCancel, SoftDelete, SweepRetire, Fail
  <1>7. HardDelete(p) => call' = call \/ Moves(p, "soft_delete")
    BY <1>2, <1>3 DEF HardDelete
  <1>8. SweepExpire(p) => Moves(p, "purge")
    BY <1>2, <1>3 DEF SweepExpire
  <1>9. SweepPurge(p) => Moves(p, "retire")
    <2>1. call[p].pc = "purge" => [call[p] EXCEPT !.pc = "retire"].pc = "retire"
      BY CallTyped
    <2> QED
      BY <1>2, <2>1 DEF SweepPurge
  <1> QED
    BY <1>4, <1>5, <1>6, <1>7, <1>8, <1>9

LEMMA TickCalls ==
  ASSUME EntryTypeOK, Tick, NEW q \in Workers
  PROVE  /\ call'[q].pc = call[q].pc
         /\ call[q].pc \notin {"purge", "retire"} => call'[q] = call[q]
  <1>1. call'[q] = IF call[q].pc \in {"purge", "retire"} THEN [call[q] EXCEPT !.timely = FALSE] ELSE call[q]
    BY DEF Tick
  <1> QED
    BY <1>1, CallTyped

(* Without edits no call is one.                                           *)
LEMMA NoEdits ==
  ASSUME EntryTypeOK, [EntryNext]_entryVars, "edits" \notin env,
         \A p \in Workers : call[p].pc # "edit"
  PROVE  "edits" \notin env' /\ \A q \in Workers : call'[q].pc # "edit"
  <1>0. env' = env
    BY DEF EntryNext, entryVars, Create, PublishEntry, CancelGroundStop, Prune, PublishAdvisory,
           CancelAdvisory, DeleteAdvisory, Remap, Tick, BeginEdit, WriteEdit, BeginCancel, WriteCancel,
           HardDelete, SoftDelete, SweepExpire, SweepPurge, SweepRetire, Fail
  <1>1. CASE \/ Create \/ PublishEntry \/ CancelGroundStop \/ Prune \/ PublishAdvisory \/ CancelAdvisory
             \/ DeleteAdvisory \/ Remap \/ UNCHANGED entryVars
    <2>1. call' = call
      BY <1>1 DEF entryVars, Create, PublishEntry, CancelGroundStop, Prune, PublishAdvisory,
                  CancelAdvisory, DeleteAdvisory, Remap
    <2> QED
      BY <1>0, <2>1
  <1>2. CASE Tick
    BY <1>0, <1>2, TickCalls
  <1>3. ASSUME NEW p \in Workers,
               \/ BeginEdit(p) \/ WriteEdit(p) \/ BeginCancel(p) \/ WriteCancel(p)
               \/ HardDelete(p) \/ SoftDelete(p)
               \/ SweepExpire(p) \/ SweepPurge(p) \/ SweepRetire(p) \/ Fail(p)
        PROVE  \A q \in Workers : call'[q].pc # "edit"
    <2>1. ~BeginEdit(p)
      BY DEF BeginEdit
    <2>2. call' = call \/ \E s \in {"idle", "cancel", "soft_delete", "purge", "retire"} : Moves(p, s)
      BY <1>3, <2>1, CallMoves
    <2> QED
      BY <2>2 DEF Moves
  <1> QED
    BY <1>0, <1>1, <1>2, <1>3 DEF EntryNext

(* Every step: time goes by, or it does one of these to the row.           *)
RowMove ==
    \/ row' = row \/ CreatesRow \/ PublishesRow \/ EditsRow \/ EndsRow
    \/ DismissesRow \/ ExpiresRow \/ RemovesRow

LEMMA Quiet ==
  ASSUME EntryTypeOK, [EntryNext]_entryVars
  PROVE  Tick \/ (RowMove /\ UNCHANGED <<clock, seen, env>>)
  <1>1. CASE \/ Create \/ PublishEntry \/ CancelGroundStop \/ Prune \/ PublishAdvisory \/ CancelAdvisory
             \/ DeleteAdvisory \/ Remap \/ UNCHANGED entryVars
    BY <1>1, RowMoves DEF RowMove, entryVars, Create, PublishEntry, CancelGroundStop, Prune,
                          PublishAdvisory, CancelAdvisory, DeleteAdvisory, Remap
  <1>2. ASSUME NEW p \in Workers,
               \/ BeginEdit(p) \/ WriteEdit(p) \/ BeginCancel(p) \/ WriteCancel(p)
               \/ HardDelete(p) \/ SoftDelete(p)
               \/ SweepExpire(p) \/ SweepPurge(p) \/ SweepRetire(p) \/ Fail(p)
        PROVE  RowMove /\ UNCHANGED <<clock, seen, env>>
    <2>1. RowMove
      BY <1>2, RowMoves DEF RowMove, BeginEdit, BeginCancel, SweepRetire, Fail
    <2>2. UNCHANGED <<clock, seen, env>>
      BY <1>2 DEF BeginEdit, WriteEdit, BeginCancel, WriteCancel, HardDelete, SoftDelete,
                  SweepExpire, SweepPurge, SweepRetire, Fail
    <2> QED
      BY <2>1, <2>2
  <1> QED
    BY <1>1, <1>2 DEF EntryNext

-----------------------------------------------------------------------------
(* The life of the row, and the hours it was in force. *)

LEMMA LifeStep == EntryTypeOK /\ LifeInv /\ [EntryNext]_entryVars => LifeInv'
  <1> SUFFICES ASSUME EntryTypeOK, LifeInv, [EntryNext]_entryVars PROVE LifeInv'
    OBVIOUS
  <1>0. row \in Rows /\ clock \in Nat /\ NoTime \notin Nat
    BY EntryAssumption DEF EntryTypeOK
  <1>1. CASE Tick
    BY <1>0, <1>1 DEF Tick, LifeInv, Rows
  <1>2. ASSUME RowMove, clock' = clock PROVE LifeInv'
    <2>1. CASE row' = row \/ CreatesRow \/ PublishesRow
      BY <1>0, <1>2, <2>1 DEF LifeInv, CreatesRow, PublishesRow, SameTimes
    <2>2. CASE EditsRow \/ ExpiresRow \/ RemovesRow
      BY <1>0, <1>2, <2>2 DEF LifeInv, EditsRow, ExpiresRow, RemovesRow, SameTimes
    <2>3. CASE EndsRow \/ DismissesRow
      BY <1>0, <1>2, <2>3 DEF LifeInv, EndsRow, DismissesRow, Active
    <2> QED
      BY <1>2, <2>1, <2>2, <2>3 DEF RowMove
  <1> QED
    BY <1>1, <1>2, Quiet

LEMMA SeenStep == EntryTypeOK /\ LifeInv /\ SeenInv /\ [EntryNext]_entryVars => SeenInv'
  <1> SUFFICES ASSUME EntryTypeOK, LifeInv, SeenInv, [EntryNext]_entryVars PROVE SeenInv'
    OBVIOUS
  <1>0. /\ clock \in Nat /\ NoTime \notin Nat /\ seen \subseteq Nat
        /\ row.status \in Stages /\ row.stop \in Nat \cup {NoTime}
        /\ row.published \in Nat \cup {NoTime} /\ row.ended \in Nat \cup {NoTime}
    BY EntryAssumption, Typed DEF EntryTypeOK
  <1>e. "edits" \notin env' =>
          "edits" \notin env /\ (\A p \in Workers : call[p].pc # "edit") /\ \A p \in Workers : call'[p].pc # "edit"
    <2>1. env' = env
      BY Quiet DEF Tick
    <2> QED
      BY <2>1, NoEdits DEF SeenInv
  <1>1. CASE Tick
    <2>0. clock' = clock + 1 /\ row' = row /\ env' = env
          /\ seen' = IF InForce THEN seen \cup {clock} ELSE seen
      BY <1>1 DEF Tick
    <2>1. \A t \in seen' : t < clock'
      BY <1>0, <2>0 DEF SeenInv
    <2>2. row'.published = NoTime => seen' = {}
      BY <2>0 DEF SeenInv, LifeInv, InForce
    <2>3. ("edits" \notin env' /\ row'.status = "expired") => row'.stop # NoTime /\ row'.stop < clock'
      BY <1>0, <2>0 DEF SeenInv
    <2>4. ASSUME Exists', "edits" \notin env', NEW t \in 0..(clock' - 1)
          PROVE  Replays(t)' <=> t \in seen'
      <3>0. Exists /\ "edits" \notin env /\ (Replays(t)' <=> Replays(t))
        BY <2>0, <2>4 DEF Exists, Replays
      <3>1. CASE t < clock
        BY <1>0, <2>0, <2>4, <3>0, <3>1 DEF SeenInv, ReplayFaithful
      <3>2. CASE t = clock
        <4>1. clock \notin seen
          BY <1>0 DEF SeenInv
        <4>2. clock \in seen' <=> InForce
          BY <2>0, <4>1
        <4>3. InForce => Replays(clock)
          BY <1>0 DEF InForce, Replays, LifeInv
        <4>4. Replays(clock) => InForce
          BY <1>0, <3>0 DEF InForce, Replays, LifeInv, SeenInv, Exists, Stages
        <4> QED
          BY <3>0, <3>2, <4>2, <4>3, <4>4
      <3> QED
        BY <1>0, <2>0, <2>4, <3>1, <3>2
    <2> QED
      BY <1>e, <2>1, <2>2, <2>3, <2>4 DEF SeenInv, ReplayFaithful
  <1>2. ASSUME RowMove, UNCHANGED <<clock, seen, env>> PROVE SeenInv'
    <2>0. clock' = clock /\ seen' = seen /\ env' = env
      BY <1>2
    <2>1. \A t \in seen' : t < clock'
      BY <2>0 DEF SeenInv
    <2>2. row'.published = NoTime => seen' = {}
      BY <1>0, <1>2, <2>0 DEF SeenInv, RowMove, CreatesRow, PublishesRow, EditsRow, EndsRow,
                              DismissesRow, ExpiresRow, RemovesRow, SameTimes
    <2>3. ("edits" \notin env' /\ row'.status = "expired") => row'.stop # NoTime /\ row'.stop < clock'
      BY <1>2, <1>e, <2>0 DEF SeenInv, RowMove, CreatesRow, PublishesRow, EditsRow, EndsRow, Active,
               DismissesRow, ExpiresRow, RemovesRow, SameWindow, Lapsed, Before
    <2>4. ASSUME Exists', "edits" \notin env', NEW t \in 0..(clock' - 1)
          PROVE  Replays(t)' <=> t \in seen'
      <3>0. t \in Nat /\ t < clock /\ ~EditsRow /\ ~RemovesRow
        BY <1>0, <1>e, <2>0, <2>4 DEF EditsRow, RemovesRow, Exists
      <3>1. CASE CreatesRow \/ PublishesRow
        <4>1. row.published = NoTime
          BY <3>1 DEF LifeInv, CreatesRow, PublishesRow
        <4>2. seen' = {} /\ ~Replays(t)'
          BY <1>0, <2>0, <3>0, <3>1, <4>1 DEF SeenInv, CreatesRow, PublishesRow, SameTimes, Replays
        <4> QED
          BY <4>2
      <3>2. CASE row' = row \/ EndsRow \/ DismissesRow \/ ExpiresRow
        <4>1. Exists
          BY <2>4, <3>2 DEF Exists, EndsRow, DismissesRow, ExpiresRow, Active
        <4>2. row'.published = row.published /\ row'.stop = row.stop
          BY <3>2 DEF EndsRow, DismissesRow, ExpiresRow, SameWindow, SameTimes
        <4>3. row'.ended = row.ended \/ (row.ended = NoTime /\ row'.ended = clock)
          BY <3>2 DEF EndsRow, DismissesRow, ExpiresRow, SameTimes
        <4>4. Replays(t)' <=> Replays(t)
          BY <1>0, <3>0, <4>2, <4>3 DEF Replays
        <4> QED
          BY <1>0, <1>e, <2>0, <2>4, <3>0, <4>1, <4>4 DEF SeenInv, ReplayFaithful
      <3> QED
        BY <1>2, <3>0, <3>1, <3>2 DEF RowMove
    <2> QED
      BY <1>e, <2>1, <2>2, <2>3, <2>4 DEF SeenInv, ReplayFaithful
  <1> QED
    BY <1>1, <1>2, Quiet

-----------------------------------------------------------------------------
(* The ground stop's advisory. *)

(* What removes a row leaves no advisory alive.                            *)
LEMMA RemovedRetired ==
  ASSUME EntryTypeOK, LifeInv, AdvisoryInv
  PROVE  /\ Prune => ~AdvisoryLives
         /\ \A p \in Workers : HardDelete(p) \/ SweepPurge(p) => row' = row \/ ~AdvisoryLives
  <1>1. row.published = NoTime => ~AdvisoryLives
    BY DEF AdvisoryInv, AdvisoryLives, NoAdvisory
  <1>2. Prune => ~AdvisoryLives
    <2> SUFFICES ASSUME Prune PROVE ~AdvisoryLives
      OBVIOUS
    <2>1. Since < clock - Retention /\ row.status \in {"expired", "cancelled"}
      BY DEF Prune, Since
    <2>2. Since \in Nat /\ clock \in Nat /\ Retention \in Nat \ {0}
      BY EntryAssumption, Typed DEF Since
    <2>3. Since < clock /\ Since < clock - 1
      BY <2>1, <2>2
    <2> QED
      BY <2>1, <2>3 DEF AdvisoryInv
  <1>3. ASSUME NEW p \in Workers, HardDelete(p) \/ SweepPurge(p) PROVE row' = row \/ ~AdvisoryLives
    BY <1>1, <1>3 DEF HardDelete, Discardable, SweepPurge, Purgeable
  <1> QED
    BY <1>2, <1>3

(* Cancelling an advisory corrects its post.                               *)
LEMMA WithdrawnFacts ==
  ASSUME EntryTypeOK
  PROVE  /\ Withdrawn(adv).status = "cancelled" /\ Withdrawn(adv).posted = adv.posted
         /\ Withdrawn(adv).corrected = IF adv.posted THEN adv.corrected + 1 ELSE adv.corrected
  BY DEF EntryTypeOK, Advisories, Withdrawn

LEMMA AdvisoryStep == EntryTypeOK /\ LifeInv /\ AdvisoryInv /\ [EntryNext]_entryVars => AdvisoryInv'
  <1> SUFFICES ASSUME EntryTypeOK, LifeInv, AdvisoryInv, [EntryNext]_entryVars PROVE AdvisoryInv'
    OBVIOUS
  <1>0. /\ clock \in Nat /\ NoTime \notin Nat /\ swept \in BOOLEAN
        /\ row.status \in Stages /\ row.updated \in Nat /\ row.ended \in Nat \cup {NoTime}
        /\ adv \in Advisories /\ adv.corrected \in Nat /\ adv.posted \in BOOLEAN
    BY EntryAssumption, Typed DEF EntryTypeOK, Advisories
  <1>s. Since \in Nat
    BY <1>0 DEF Since
  <1>1. CASE PublishEntry
    <2>1. PublishesRow /\ clock' = clock /\ swept' = swept
      BY <1>1, RowMoves DEF PublishEntry
    <2>2. adv = NoAdvisory
      BY <2>1 DEF LifeInv, AdvisoryInv, PublishesRow
    <2>3. adv' = adv \/ (adv'.status = "draft" /\ adv'.posted = adv.posted /\ adv'.corrected = adv.corrected)
      BY <1>0, <1>1 DEF PublishEntry, Advisories
    <2>4. /\ adv'.status \in {"none", "draft"} /\ ~adv'.posted /\ adv'.corrected = 0
      <3>1. adv.status = "none" /\ adv.corrected = 0
        BY <2>2 DEF NoAdvisory
      <3>2. ~adv.posted
        BY <3>1 DEF AdvisoryInv
      <3> QED
        BY <2>3, <3>1, <3>2
    <2> QED
      BY <1>0, <2>1, <2>4 DEF PublishesRow, AdvisoryInv, AdvisoryRetired
  <1>2. CASE PublishAdvisory \/ CancelAdvisory \/ DeleteAdvisory
    <2>1. row' = row /\ clock' = clock /\ swept' = swept /\ Since' = Since
      BY <1>2 DEF PublishAdvisory, CancelAdvisory, DeleteAdvisory, Since
    <2>2. AdvisoryLives /\ (AdvisoryLives' => AdvisoryLives)
      BY <1>2 DEF PublishAdvisory, CancelAdvisory, DeleteAdvisory, AdvisoryLives
    <2>3. row.published # NoTime /\ adv.corrected = 0
      BY <2>2 DEF AdvisoryInv, AdvisoryLives, NoAdvisory
    <2>4. /\ adv'.status \in {"none", "draft", "published"} => adv'.corrected = 0
          /\ adv'.status \in {"none", "draft", "deleted"} => ~adv'.posted
          /\ adv'.corrected <= 1
          /\ (adv'.status = "cancelled" /\ adv'.posted) => adv'.corrected = 1
      <3>1. CASE PublishAdvisory
        BY <1>0, <2>3, <3>1 DEF PublishAdvisory, Advisories
      <3>2. CASE CancelAdvisory
        BY <1>0, <2>3, <3>2, WithdrawnFacts DEF CancelAdvisory
      <3>3. CASE DeleteAdvisory
        BY <1>0, <2>3, <3>3 DEF DeleteAdvisory, Advisories, AdvisoryInv
      <3> QED
        BY <1>2, <3>1, <3>2, <3>3
    <2> QED
      BY <2>1, <2>2, <2>3, <2>4 DEF AdvisoryInv, AdvisoryRetired
  <1>3. ASSUME NEW p \in Workers, SweepRetire(p) PROVE AdvisoryInv'
    <2>1. row' = row /\ clock' = clock /\ Since' = Since
      BY <1>3 DEF SweepRetire, Since
    <2>2. CASE AdvisoryLives /\ Retires
      <3>1. adv' = Withdrawn(adv)
        BY <1>3, <2>2 DEF SweepRetire
      <3>2. row.published # NoTime /\ adv.corrected = 0
        BY <2>2 DEF AdvisoryInv, AdvisoryLives, NoAdvisory
      <3>3. ~AdvisoryLives' /\ adv'.status = "cancelled" /\ adv'.corrected \in {0, 1}
            /\ (adv'.posted => adv'.corrected = 1)
        BY <1>0, <3>1, <3>2, WithdrawnFacts DEF AdvisoryLives
      <3> QED
        BY <2>1, <3>2, <3>3 DEF AdvisoryInv, AdvisoryRetired
    <2>3. CASE ~(AdvisoryLives /\ Retires)
      <3>1. adv' = adv
        BY <1>3, <2>3 DEF SweepRetire
      <3>2. row.status \in {"expired", "cancelled"} => ~AdvisoryLives
        BY <2>3 DEF Retires
      <3> QED
        BY <2>1, <3>1, <3>2 DEF AdvisoryInv, AdvisoryRetired, AdvisoryLives
    <2> QED
      BY <2>2, <2>3
  <1>4. CASE Tick
    <2>1. clock' = clock + 1 /\ row' = row /\ adv' = adv /\ swept /\ ~swept' /\ Since' = Since
      BY <1>4 DEF Tick, Since
    <2>2. Since' < clock' - 1 => Since < clock
      BY <1>0, <1>s, <2>1
    <2> QED
      BY <2>1, <2>2 DEF AdvisoryInv, AdvisoryRetired, AdvisoryLives
  <1>5. ASSUME RowMove, UNCHANGED <<adv, swept, clock>>, ~PublishesRow,
               row' = row \/ ~RemovesRow \/ ~AdvisoryLives
        PROVE  AdvisoryInv'
    <2>0. adv' = adv /\ swept' = swept /\ clock' = clock /\ (AdvisoryLives' <=> AdvisoryLives)
      BY <1>5 DEF AdvisoryLives
    <2>1. row'.published = NoTime => row.published = NoTime
      BY <1>0, <1>5 DEF RowMove, CreatesRow, EditsRow, EndsRow,
                        DismissesRow, ExpiresRow, RemovesRow, SameTimes
    <2>2. row'.status = "gone" => row.status = "gone" \/ ~AdvisoryLives
      BY <1>5 DEF RowMove, CreatesRow, EditsRow, EndsRow, Exists, Active,
                  DismissesRow, ExpiresRow
    <2>3. ASSUME row'.status \in {"expired", "cancelled"}, Since' < clock
          PROVE  row.status \in {"expired", "cancelled"} /\ Since' = Since
      <3>1. CASE row' = row
        BY <2>3, <3>1 DEF Since
      <3>2. CASE CreatesRow \/ RemovesRow
        BY <2>3, <3>2 DEF CreatesRow, RemovesRow
      <3>3. CASE EditsRow
        BY <1>0, <2>3, <3>3 DEF EditsRow, SameTimes, Since
      <3>4. CASE EndsRow
        BY <1>0, <2>3, <3>4 DEF EndsRow, LifeInv, Active, Since
      <3>5. CASE DismissesRow
        BY <1>0, <2>3, <3>5 DEF DismissesRow, LifeInv, Active, Since
      <3>6. CASE ExpiresRow
        BY <1>0, <2>3, <3>6 DEF ExpiresRow, LifeInv, Active, SameTimes, Since
      <3> QED
        BY <1>5, <3>1, <3>2, <3>3, <3>4, <3>5, <3>6 DEF RowMove
    <2> QED
      BY <2>0, <2>1, <2>2, <2>3 DEF AdvisoryInv, AdvisoryRetired
  <1>6. CASE Create \/ CancelGroundStop \/ Remap \/ UNCHANGED entryVars
    <2>1. UNCHANGED <<adv, swept, clock>>
      BY <1>6 DEF Create, CancelGroundStop, Remap, entryVars
    <2>2. RowMove /\ ~PublishesRow /\ (row' = row \/ ~RemovesRow)
      BY <1>6, RowMoves DEF RowMove, Remap, entryVars, CreatesRow, EndsRow, PublishesRow, RemovesRow
    <2> QED
      BY <1>5, <2>1, <2>2
  <1>7. CASE Prune
    BY <1>5, <1>7, RowMoves, RemovedRetired DEF Prune, RowMove, RemovesRow, PublishesRow
  <1>8. ASSUME NEW p \in Workers,
               \/ BeginEdit(p) \/ WriteEdit(p) \/ BeginCancel(p) \/ WriteCancel(p)
               \/ HardDelete(p) \/ SoftDelete(p) \/ SweepExpire(p) \/ SweepPurge(p) \/ Fail(p)
        PROVE  AdvisoryInv'
    <2>1. UNCHANGED <<adv, swept, clock>>
      BY <1>8 DEF BeginEdit, WriteEdit, BeginCancel, WriteCancel, HardDelete, SoftDelete,
                  SweepExpire, SweepPurge, Fail
    <2>2. RowMove /\ ~PublishesRow
      BY <1>8, RowMoves DEF RowMove, BeginEdit, BeginCancel, Fail, PublishesRow, EditsRow, EndsRow,
           DismissesRow, ExpiresRow, RemovesRow, Active
    <2>3. row' = row \/ ~RemovesRow \/ ~AdvisoryLives
      BY <1>8, RowMoves, RemovedRetired DEF BeginEdit, BeginCancel, Fail, EditsRow, EndsRow,
           DismissesRow, ExpiresRow, RemovesRow, Exists, Active
    <2> QED
      BY <1>5, <2>1, <2>2, <2>3
  <1> QED
    BY <1>1, <1>2, <1>3, <1>4, <1>6, <1>7, <1>8 DEF EntryNext

-----------------------------------------------------------------------------
(* The log. *)

(* Giving up a place says nothing, and costs nobody else his ...           *)
LEMMA LeaveSays ==
  ASSUME EntryTypeOK, NEW p \in Workers, Leave(p)
  PROVE  /\ Said' = Said /\ Waiting \ {p} \subseteq Waiting'
         /\ Log = DOMAIN posts => posts' = posts
  <1>0. \A m \in DOMAIN posts : posts[m] # Place(p) => \E n \in DOMAIN posts' : posts'[n] = posts[m]
    BY LeaveFacts
  <1>1. \A n \in DOMAIN posts' : \E m \in DOMAIN posts : posts'[n] = posts[m]
    BY LeaveFacts
  <1>2. Said \subseteq Said'
    BY <1>0, PlaceFacts DEF Said, Log
  <1>3. Said' \subseteq Said
    BY <1>1 DEF Said, Log
  <1>4. Waiting \ {p} \subseteq Waiting'
    <2> SUFFICES ASSUME NEW q \in Waiting, q # p PROVE q \in Waiting'
      OBVIOUS
    <2>1. PICK m \in DOMAIN posts : posts[m] = Place(q)
      BY DEF Waiting, PlaceAt
    <2>2. Place(q) # Place(p)
      BY PlaceFacts DEF Waiting
    <2>3. PICK n \in DOMAIN posts' : posts'[n] = Place(q)
      BY <1>0, <2>1, <2>2
    <2>4. n \in PlaceAt(q)'
      BY <2>3 DEF PlaceAt, Place
    <2> QED
      BY <2>4 DEF Waiting
  <1>5. Log = DOMAIN posts => PlaceAt(p) = {}
    BY PlaceFacts DEF Log, PlaceAt
  <1> QED
    BY <1>2, <1>3, <1>4, <1>5, LeaveFacts

(* ... a line that is posted is said, in addition ...                      *)
LEMMA PostSays ==
  ASSUME EntryTypeOK, NEW p \in Workers, NEW l \in Shown, Post(p, l),
         "batched" \in env => p \in Waiting
  PROVE  /\ Said' = Said \cup {l} /\ Waiting \ {p} \subseteq Waiting'
         /\ Log = DOMAIN posts /\ "batched" \notin env => Log' = DOMAIN posts'
  <1>0. posts \in Seq(Shown \cup Places) /\ Len(posts) \in Nat /\ DOMAIN posts = 1..Len(posts)
        /\ DOMAIN posts' = 1..Len(posts')
    BY PostFacts DEF EntryTypeOK
  <1>1. CASE "batched" \notin env
    <2>1. /\ DOMAIN posts' = DOMAIN posts \cup {Len(posts) + 1} /\ posts'[Len(posts) + 1] = l
          /\ \A n \in DOMAIN posts : posts'[n] = posts[n]
      <3>1. /\ Len(posts') = Len(posts) + 1 /\ posts'[Len(posts) + 1] = l
            /\ \A n \in DOMAIN posts : posts'[n] = posts[n]
        BY <1>1, PostFacts
      <3>2. 1..(Len(posts) + 1) = 1..Len(posts) \cup {Len(posts) + 1}
        BY <1>0
      <3> QED
        BY <1>0, <3>1, <3>2
    <2>2. Said' = Said \cup {l}
      BY <2>1 DEF Said, Log
    <2>3. Waiting \subseteq Waiting'
      BY <2>1 DEF Waiting, PlaceAt, Place
    <2>4. Log = DOMAIN posts => Log' = DOMAIN posts'
      BY <2>1 DEF Log
    <2> QED
      BY <2>2, <2>3, <2>4
  <1>2. CASE "batched" \in env
    <2>1. /\ DOMAIN posts' = DOMAIN posts
          /\ \A n \in DOMAIN posts : posts'[n] = IF posts[n] = Place(p) THEN l ELSE posts[n]
      BY <1>2, PostFacts
    <2>2. PICK m \in DOMAIN posts : posts[m] = Place(p)
      BY <1>2 DEF Waiting, PlaceAt
    <2>3. posts'[m] = l
      BY <2>1, <2>2
    <2>4. Said' \subseteq Said \cup {l}
      BY <2>1 DEF Said, Log
    <2>5. Said \subseteq Said' /\ l \in Said'
      BY <2>1, <2>2, <2>3, PlaceFacts DEF Said, Log
    <2>6. ASSUME NEW q \in Waiting, q # p PROVE q \in Waiting'
      <3>1. PICK k \in DOMAIN posts : posts[k] = Place(q)
        BY DEF Waiting, PlaceAt
      <3>2. posts'[k] = Place(q)
        BY <2>1, <2>6, <3>1, PlaceFacts DEF Waiting
      <3>3. k \in PlaceAt(q)'
        BY <2>1, <3>1, <3>2 DEF PlaceAt, Place
      <3> QED
        BY <3>3 DEF Waiting
    <2> QED
      BY <1>2, <2>4, <2>5, <2>6
  <1> QED
    BY <1>1, <1>2

(* ... and taking a place says nothing.                                    *)
LEMMA ReserveSays ==
  ASSUME EntryTypeOK, NEW p \in Workers, Reserve(p)
  PROVE  /\ Said' = Said /\ Waiting \subseteq Waiting'
         /\ "batched" \notin env => posts' = posts
         /\ "batched" \in env => p \in Waiting'
  <1>0. Len(posts) \in Nat /\ DOMAIN posts = 1..Len(posts) /\ DOMAIN posts' = 1..Len(posts')
    BY ReserveFacts DEF EntryTypeOK
  <1>1. CASE "batched" \notin env
    BY <1>1, ReserveFacts DEF Said, Log, Waiting, PlaceAt, Place
  <1>2. CASE "batched" \in env
    <2>1. /\ DOMAIN posts' = DOMAIN posts \cup {Len(posts) + 1} /\ posts'[Len(posts) + 1] = Place(p)
          /\ \A n \in DOMAIN posts : posts'[n] = posts[n]
      <3>1. /\ Len(posts') = Len(posts) + 1 /\ posts'[Len(posts) + 1] = Place(p)
            /\ \A n \in DOMAIN posts : posts'[n] = posts[n]
        BY <1>2, ReserveFacts
      <3>2. 1..(Len(posts) + 1) = 1..Len(posts) \cup {Len(posts) + 1}
        BY <1>0
      <3> QED
        BY <1>0, <3>1, <3>2
    <2>2. Said' = Said
      BY <2>1, PlaceFacts DEF Said, Log
    <2>3. Waiting \subseteq Waiting' /\ p \in Waiting'
      BY <2>1 DEF Waiting, PlaceAt, Place
    <2> QED
      BY <1>2, <2>2, <2>3
  <1> QED
    BY <1>1, <1>2

(* A line is added at the end of a log without a cancellation.             *)
LEMMA LineAdded ==
  ASSUME EntryTypeOK, NEW l \in Shown, posts' = Append(posts, l), env' = env
  PROVE  /\ Said' = Said \cup {l}
         /\ "batched" \notin env /\ Log = DOMAIN posts => Log' = DOMAIN posts'
         /\ (\A k \in Said : ~k.cnx) => NothingAfterCancel'
         /\ Waiting' = Waiting
         /\ Log' = Log \cup {Len(posts) + 1} /\ posts'[Len(posts) + 1] = l
         /\ Len(posts') = Len(posts) + 1
         /\ \A n \in DOMAIN posts : n < Len(posts) + 1 /\ posts'[n] = posts[n]
  <1> DEFINE S == Shown \cup Places
  <1>0. posts \in Seq(S) /\ l \in S /\ Len(posts) \in Nat /\ DOMAIN posts = 1..Len(posts)
    BY DEF EntryTypeOK
  <1> HIDE DEF S
  <1>1. /\ posts' \in Seq(S) /\ Len(posts') = Len(posts) + 1 /\ posts'[Len(posts) + 1] = l
        /\ \A n \in DOMAIN posts : n \in DOMAIN posts' /\ posts'[n] = posts[n]
    BY <1>0, Appended
  <1>2. 1..(Len(posts) + 1) = 1..Len(posts) \cup {Len(posts) + 1}
    BY <1>0
  <1>3. DOMAIN posts' = DOMAIN posts \cup {Len(posts) + 1}
    BY <1>0, <1>1, <1>2
  <1>4. Log' = Log \cup {Len(posts) + 1}
    BY <1>1, <1>3 DEF Log
  <1>5. Said' = Said \cup {l}
    BY <1>1, <1>4 DEF Said, Log
  <1>6. Waiting' = Waiting
    <2>1. ASSUME NEW q \in Workers PROVE PlaceAt(q)' = PlaceAt(q)
      <3>1. l # Place(q)
        BY PlaceFacts
      <3>2. \A n \in DOMAIN posts' : posts'[n] = Place(q) <=> n \in DOMAIN posts /\ posts[n] = Place(q)
        BY <1>1, <1>3, <3>1
      <3> QED
        BY <1>3, <3>2 DEF PlaceAt, Place
    <2> QED
      BY <2>1 DEF Waiting
  <1>7. \A n \in DOMAIN posts : n < Len(posts) + 1
    BY <1>0
  <1>8. ASSUME \A k \in Said : ~k.cnx, NEW m \in Log', NEW n \in Log', m < n PROVE ~posts'[m].cnx
    <2>1. n \in 1..(Len(posts) + 1)
      BY <1>0, <1>2, <1>4 DEF Log
    <2>2. m # Len(posts) + 1
      BY <1>0, <1>8, <2>1
    <2>3. m \in Log
      BY <1>4, <2>2
    <2>4. posts'[m] = posts[m] /\ posts[m] \in Said
      BY <1>1, <2>3 DEF Log, Said
    <2> QED
      BY <1>8, <2>4
  <1> QED
    BY <1>1, <1>3, <1>4, <1>5, <1>6, <1>7, <1>8 DEF NothingAfterCancel

LEMMA LogStep == EntryTypeOK /\ LifeInv /\ LogInv /\ [EntryNext]_entryVars => LogInv'
  <1> SUFFICES ASSUME EntryTypeOK, LifeInv, LogInv, [EntryNext]_entryVars PROVE LogInv'
    OBVIOUS
  <1> DEFINE Kept == /\ Said # {} => row.status \notin {"none", "draft"}
                     /\ \A l \in Said : l.cnx => row.status \notin {"none", "draft", "published"}
                     /\ (kind = "tmi" /\ row.status = "cancelled" /\ ~row.dismissed) =>
                          \E l \in Said : l.cnx
             Held == "batched" \in env => \A p \in Workers : call[p].pc \in {"edit", "cancel"} => p \in Waiting
             Order == /\ "batched" \notin env => Log = DOMAIN posts
                      /\ CancelIsLast
  <1>q. LogInv' <=> (Kept /\ Held /\ Order)'
    BY DEF LogInv
  <1>k. Kept /\ Held /\ Order
    BY DEF LogInv
  <1>0. /\ env' = env /\ kind' = kind
        /\ row \in Rows /\ row.status \in Stages
    <2>1. env' = env
      BY Quiet DEF Tick
    <2>2. kind' = kind
      BY DEF EntryNext, entryVars, Create, PublishEntry, CancelGroundStop, Prune, PublishAdvisory,
           CancelAdvisory, DeleteAdvisory, Remap, Tick, BeginEdit, WriteEdit, BeginCancel, WriteCancel,
           HardDelete, SoftDelete, SweepExpire, SweepPurge, SweepRetire, Fail
    <2> QED
      BY <2>1, <2>2, Typed DEF EntryTypeOK
  <1>1. ASSUME Said' = Said, RowMove, ~EndsRow \/ kind # "tmi" PROVE Kept'
    <2>1. Said # {} => row'.status \notin {"none", "draft"}
      BY <1>1, <1>k DEF RowMove, CreatesRow, PublishesRow, EditsRow, EndsRow, DismissesRow, ExpiresRow,
                        RemovesRow, Active
    <2>2. ASSUME NEW l \in Said, l.cnx PROVE row'.status \notin {"none", "draft", "published"}
      BY <1>1, <1>k, <2>2 DEF RowMove, CreatesRow, PublishesRow, EditsRow, EndsRow, DismissesRow,
                        ExpiresRow, RemovesRow, Active
    <2>3. (kind = "tmi" /\ row'.status = "cancelled" /\ ~row'.dismissed) =>
             row.status = "cancelled" /\ ~row.dismissed
      BY <1>1 DEF RowMove, CreatesRow, PublishesRow, EditsRow, DismissesRow, ExpiresRow, RemovesRow
    <2> QED
      BY <1>0, <1>1, <1>k, <2>1, <2>2, <2>3
  <1>2. ASSUME "batched" \in env \/ posts' = posts PROVE Order'
    <2>1. CASE "batched" \in env
      BY <1>0, <2>1 DEF CancelIsLast
    <2>2. CASE posts' = posts
      BY <1>0, <1>k, <2>2 DEF CancelIsLast, NothingAfterCancel, Log
    <2> QED
      BY <1>2, <2>1, <2>2
  <1>3. ASSUME posts' = posts, RowMove, ~EndsRow \/ kind # "tmi",
               \A q \in Workers : call'[q].pc \in {"edit", "cancel"} => call[q].pc \in {"edit", "cancel"}
        PROVE  LogInv'
    <2>1. Said' = Said /\ Waiting' = Waiting
      BY <1>3 DEF Said, Log, Waiting, PlaceAt, Place
    <2>2. Held'
      BY <1>0, <1>3, <1>k, <2>1
    <2> QED
      BY <1>1, <1>2, <1>3, <1>q, <2>1, <2>2
  <1>4. ASSUME NEW l \in Shown, posts' = Append(posts, l), "batched" \notin env \/ call' = call,
               Kept', \A k \in Said : ~k.cnx
        PROVE  LogInv'
    <2>1. Held'
      BY <1>0, <1>4, <1>k, LineAdded
    <2>2. Order'
      BY <1>0, <1>4, <1>k, LineAdded DEF CancelIsLast
    <2> QED
      BY <1>4, <1>q, <2>1, <2>2
  <1>5. CASE \/ Create \/ CancelGroundStop \/ Prune \/ PublishAdvisory \/ CancelAdvisory
             \/ DeleteAdvisory \/ Remap \/ UNCHANGED entryVars
    <2>1. posts' = posts /\ call' = call
      BY <1>5 DEF entryVars, Create, CancelGroundStop, Prune, PublishAdvisory, CancelAdvisory,
                  DeleteAdvisory, Remap
    <2>2. RowMove
      BY <1>5, RowMoves DEF RowMove, entryVars, PublishAdvisory, CancelAdvisory, DeleteAdvisory, Remap
    <2>3. ~EndsRow \/ kind # "tmi"
      BY <1>5, RowMoves DEF entryVars, EndsRow, CreatesRow, RemovesRow, CancelGroundStop, PublishAdvisory,
                  CancelAdvisory, DeleteAdvisory, Remap, Active
    <2> QED
      BY <1>3, <2>1, <2>2, <2>3
  <1>6. CASE Tick
    <2>1. posts' = posts /\ row' = row /\ ~EndsRow
      BY <1>6 DEF Tick, EndsRow, Active
    <2> QED
      BY <1>3, <1>6, <2>1, TickCalls DEF RowMove
  <1>7. CASE PublishEntry
    <2>0. PublishesRow /\ call' = call
      BY <1>7, RowMoves DEF PublishEntry
    <2>1. CASE kind = "tmi"
      <3>1. posts' = Append(posts, Line(row, FALSE, channel)) /\ Line(row, FALSE, channel) \in Shown
        BY <1>7, <2>1, Typed DEF PublishEntry, EntryTypeOK
      <3>2. ~Line(row, FALSE, channel).cnx
        BY DEF Line
      <3>3. Said = {}
        BY <1>k, <2>0 DEF PublishesRow
      <3>4. Kept'
        BY <1>0, <2>0, <3>1, <3>2, <3>3, LineAdded DEF PublishesRow
      <3> QED
        BY <1>4, <2>0, <3>1, <3>3, <3>4
    <2>2. CASE kind # "tmi"
      <3>1. posts' = posts
        BY <1>7, <2>2 DEF PublishEntry
      <3> QED
        BY <1>3, <2>0, <2>2, <3>1 DEF RowMove
    <2> QED
      BY <2>1, <2>2
  <1>8. ASSUME NEW p \in Workers, BeginEdit(p) \/ BeginCancel(p) PROVE LogInv'
    <2>1. Reserve(p) /\ row' = row
      BY <1>8 DEF BeginEdit, BeginCancel
    <2>2. ~EndsRow
      BY <2>1 DEF EndsRow, Active
    <2>3. Held'
      BY <1>0, <1>8, <1>k, <2>1, ReserveSays, CallMoves DEF Moves
    <2> QED
      BY <1>1, <1>2, <1>q, <2>1, <2>2, <2>3, ReserveSays DEF RowMove
  <1>9. ASSUME NEW p \in Workers, Leave(p), call'[p].pc \notin {"edit", "cancel"},
               \A q \in Workers : q # p => call'[q] = call[q], RowMove, ~EndsRow \/ kind # "tmi"
        PROVE  LogInv'
    <2>1. Held'
      BY <1>0, <1>9, <1>k, LeaveSays
    <2>2. "batched" \in env \/ posts' = posts
      BY <1>9, <1>k, LeaveSays
    <2> QED
      BY <1>1, <1>2, <1>9, <1>q, <2>1, <2>2, LeaveSays
  <1>10. ASSUME NEW p \in Workers, NEW l \in Shown, Post(p, l), call[p].pc \in {"edit", "cancel"},
                Moves(p, "idle"), \A k \in Said : ~k.cnx, (Said' = Said \cup {l}) => Kept'
         PROVE  LogInv'
    <2>1. "batched" \in env => p \in Waiting
      BY <1>10, <1>k
    <2>2. Said' = Said \cup {l} /\ Waiting \ {p} \subseteq Waiting'
      BY <1>10, <2>1, PostSays
    <2>3. Held'
      BY <1>0, <1>10, <1>k, <2>2 DEF Moves
    <2>4. CASE "batched" \in env
      BY <1>2, <1>10, <1>q, <2>2, <2>3, <2>4
    <2>5. CASE "batched" \notin env
      BY <1>4, <1>10, <2>2, <2>5 DEF Post
    <2> QED
      BY <2>4, <2>5
  <1>11. ASSUME NEW p \in Workers, WriteEdit(p) PROVE LogInv'
    <2>0. Moves(p, "idle") /\ call[p].pc = "edit" /\ (row' = row \/ EditsRow)
      BY <1>11, CallMoves, RowMoves DEF WriteEdit
    <2>1. RowMove /\ ~EndsRow
      BY <2>0 DEF RowMove, EditsRow, EndsRow, Active
    <2>2. CASE Leave(p)
      BY <1>9, <2>0, <2>1, <2>2 DEF Moves
    <2>3. CASE ~Leave(p)
      <3> DEFINE r == Merged(call[p].change)
      <3>1. Exists /\ r.status = "published" /\ Post(p, Line(r, FALSE, channel)) /\ Update(r)
        BY <1>11, <2>3 DEF WriteEdit, Revises
      <3>2. r \in Rows
        BY <2>0, CallTyped, Typed
      <3>3. Line(r, FALSE, channel) \in Shown /\ ~Line(r, FALSE, channel).cnx
        BY <3>2 DEF EntryTypeOK, Line, Shown, Rows
      <3>4. row'.status = "published"
        BY <3>1, <3>2 DEF Update, Rows
      <3>5. row.status = "published"
        BY <2>0, <3>4 DEF EditsRow
      <3> HIDE DEF r
      <3>6. \A k \in Said : ~k.cnx
        BY <1>k, <3>5
      <3>7. Said' = Said \cup {Line(r, FALSE, channel)} => Kept'
        BY <1>0, <3>3, <3>4, <3>6
      <3> QED
        BY <1>10, <2>0, <3>1, <3>3, <3>6, <3>7
    <2> QED
      BY <2>2, <2>3
  <1>12. ASSUME NEW p \in Workers, WriteCancel(p) PROVE LogInv'
    <2>0. Moves(p, "idle") /\ call[p].pc = "cancel"
      BY <1>12, CallMoves DEF WriteCancel
    <2>1. CASE ~Cancellable
      <3>1. row' = row /\ Leave(p)
        BY <1>12, <2>1 DEF WriteCancel
      <3> QED
        BY <1>9, <2>0, <3>1 DEF Moves, RowMove, EndsRow, Active
    <2>2. CASE Cancellable
      <3> DEFINE l == Line(row, TRUE, call[p].channel)
      <3>1. Post(p, l) /\ l \in Shown /\ l.cnx
        BY <1>12, <2>0, <2>2, CallTyped, Typed DEF WriteCancel, Line
      <3>2. row'.status = "cancelled" /\ row'.dismissed = row.dismissed
        BY <1>0, <1>12, <2>2 DEF WriteCancel, Update, Ended, Rows
      <3>3. \A k \in Said : ~k.cnx
        BY <1>k, <2>2 DEF Cancellable, Active
      <3> HIDE DEF l
      <3>4. Said' = Said \cup {l} => Kept'
        BY <1>0, <3>1, <3>2
      <3> QED
        BY <1>10, <2>0, <3>1, <3>3, <3>4
    <2> QED
      BY <2>1, <2>2
  <1>13. ASSUME NEW p \in Workers, Fail(p) PROVE LogInv'
    <2>1. row' = row /\ ~EndsRow /\ Leave(p) /\ Moves(p, "idle")
      BY <1>13, CallMoves DEF Fail, EndsRow, Active
    <2> QED
      BY <1>9, <2>1 DEF RowMove, Moves
  <1>14. ASSUME NEW p \in Workers,
                HardDelete(p) \/ SoftDelete(p) \/ SweepExpire(p) \/ SweepPurge(p) \/ SweepRetire(p)
         PROVE  LogInv'
    <2>1. posts' = posts
      BY <1>14 DEF HardDelete, SoftDelete, SweepExpire, SweepPurge, SweepRetire
    <2>2. row' = row \/ RemovesRow \/ DismissesRow \/ ExpiresRow
      BY <1>14, RowMoves DEF SweepRetire
    <2>3. call' = call \/ \E s \in {"idle", "soft_delete", "purge", "retire"} : Moves(p, s)
      BY <1>14, CallMoves
    <2>4. \A q \in Workers : call'[q].pc \in {"edit", "cancel"} => call[q].pc \in {"edit", "cancel"}
      BY <2>3 DEF Moves
    <2>5. CASE row' = row \/ RemovesRow \/ ExpiresRow
      BY <1>3, <2>1, <2>4, <2>5 DEF RowMove, EndsRow, RemovesRow, ExpiresRow, Active
    <2>6. CASE DismissesRow
      <3>1. CASE ~EndsRow
        BY <1>3, <2>1, <2>4, <2>6, <3>1 DEF RowMove
      <3>2. CASE EndsRow
        \* a dismissed row owes the log nothing
        <4>1. Said' = Said /\ Waiting' = Waiting
          BY <2>1 DEF Said, Log, Waiting, PlaceAt, Place
        <4>2. Kept'
          BY <1>0, <1>k, <2>6, <3>2, <4>1 DEF EndsRow, DismissesRow
        <4>3. Held'
          BY <1>0, <1>k, <2>4, <4>1
        <4> QED
          BY <1>2, <1>q, <2>1, <4>2, <4>3
      <3> QED
        BY <3>1, <3>2
    <2> QED
      BY <2>2, <2>5, <2>6
  <1> QED
    BY <1>5, <1>6, <1>7, <1>8, <1>11, <1>12, <1>13, <1>14 DEF EntryNext

-----------------------------------------------------------------------------
(* Calls that take turns. *)

(* A step leaves the lines as they are, or adds one behind them.           *)
SameLog == Log' = Log /\ \A n \in Log : posts'[n] = posts[n]

ExtendsLog(l) ==
    \E k \in Nat : /\ \A n \in Log : n < k
                   /\ Log' = Log \cup {k} /\ posts'[k] = l
                   /\ \A n \in Log : posts'[n] = posts[n]

(* The newest line of a log that has some is the one at its last position. *)
LEMMA NewestIn ==
  ASSUME EntryTypeOK
  PROVE  /\ Log \subseteq Nat /\ Published \subseteq Log
         /\ Log # {} => Max(Log) \in Log /\ \A k \in Log : k <= Max(Log)
         /\ Published # {} => Max(Published) \in Published /\ \A k \in Published : k <= Max(Published)
  <1>1. Len(posts) \in Nat /\ DOMAIN posts = 1..Len(posts)
    BY DEF EntryTypeOK
  <1>2. Log \in SUBSET (1..Len(posts)) /\ Published \in SUBSET (1..Len(posts)) /\ Published \subseteq Log
    BY <1>1 DEF Log, Published
  <1>3. ASSUME NEW S \in SUBSET (1..Len(posts)), S # {}
        PROVE  Max(S) \in S /\ \A k \in S : k <= Max(S)
    BY <1>1, <1>3, GreatestIn
  <1>4. Log \subseteq Nat
    BY <1>1, <1>2
  <1>5. Log # {} => Max(Log) \in Log /\ \A k \in Log : k <= Max(Log)
    BY <1>2, <1>3, Zenon
  <1>6. Published # {} => Max(Published) \in Published /\ \A k \in Published : k <= Max(Published)
    BY <1>2, <1>3, Zenon
  <1> QED
    BY <1>2, <1>4, <1>5, <1>6

(* The greatest is determined.                                             *)
LEMMA GreatestIs ==
  ASSUME NEW S \in SUBSET Nat, NEW x \in S, \A k \in S : k <= x
  PROVE  Max(S) = x
  <1>1. Max(S) \in S /\ \A k \in S : Max(S) >= k
    <2>1. \E y \in S : \A k \in S : y >= k
      OBVIOUS
    <2> QED
      BY <2>1, Zenon DEF Max
  <1>2. Max(S) \in Nat /\ x \in Nat /\ Max(S) <= x /\ x <= Max(S)
    BY <1>1
  <1> QED
    BY <1>2

(* A log that stays has the same newest lines ...                          *)
LEMMA SameNewest ==
  ASSUME EntryTypeOK, SameLog
  PROVE  /\ Published' = Published
         /\ Log # {} => (Newest(Log))' = Newest(Log)
         /\ Published # {} => (Newest(Published))' = Newest(Published)
         /\ \A m, n \in Log : Follows(n, m)' <=> Follows(n, m)
  <1>1. Published' = Published
    BY DEF SameLog, Published
  <1>2. Log # {} => (Newest(Log))' = Newest(Log)
    BY NewestIn DEF SameLog, Newest
  <1>3. Published # {} => (Newest(Published))' = Newest(Published)
    BY <1>1, NewestIn DEF SameLog, Newest
  <1>4. \A m, n \in Log : Follows(n, m)' <=> Follows(n, m)
    BY DEF SameLog, Follows
  <1> QED
    BY <1>1, <1>2, <1>3, <1>4

(* ... and in one that is extended the new line follows what was newest.   *)
LEMMA ExtendedNewest ==
  ASSUME EntryTypeOK, NEW l \in Shown, ExtendsLog(l)
  PROVE  /\ Log' # {} /\ (Newest(Log))' = l
         /\ Published # {} => Published' # {}
         /\ ~l.cnx => Published' # {} /\ (Newest(Published))' = l
         /\ l.cnx /\ Published # {} => (Newest(Published))' = Newest(Published)
         /\ \A m, n \in Log' : Follows(n, m)' =>
              \/ m \in Log /\ n \in Log /\ Follows(n, m) /\ posts'[m] = posts[m] /\ posts'[n] = posts[n]
              \/ Log # {} /\ posts'[m] = Newest(Log) /\ posts'[n] = l
  <1>1. PICK k \in Nat : /\ \A n \in Log : n < k
                         /\ Log' = Log \cup {k} /\ posts'[k] = l
                         /\ \A n \in Log : posts'[n] = posts[n]
    BY DEF ExtendsLog
  <1>2. Log \subseteq Nat /\ k \notin Log
    BY <1>1, NewestIn
  <1>3. Max(Log') = k
    <2>1. Log' \in SUBSET Nat /\ k \in Log' /\ \A n \in Log' : n <= k
      BY <1>1, <1>2
    <2> HIDE DEF Log
    <2> DEFINE S == Log'
    <2>2. S \in SUBSET Nat /\ k \in S /\ \A n \in S : n <= k
      BY <2>1
    <2> HIDE DEF S
    <2>3. Max(S) = k
      BY <2>2, GreatestIs
    <2> QED
      BY <2>3 DEF S
  <1>4. (Newest(Log))' = l
    BY <1>1, <1>3 DEF Newest
  <1>5. ASSUME ~l.cnx PROVE Published' # {} /\ (Newest(Published))' = l
    <2>1. Published' = Published \cup {k}
      BY <1>1, <1>5 DEF Published
    <2>2. Max(Published') = k
      <3> DEFINE S == Published'
      <3>1. S \in SUBSET Nat /\ k \in S /\ \A n \in S : n <= k
        <4>1. Published \subseteq Log
          BY NewestIn
        <4>2. \A n \in Published : n \in Nat /\ n <= k
          BY <1>1, <1>2, <4>1
        <4> QED
          BY <1>1, <2>1, <4>2
      <3> HIDE DEF S
      <3>2. Max(S) = k
        BY <3>1, GreatestIs
      <3> QED
        BY <3>2 DEF S
    <2> QED
      BY <1>1, <2>1, <2>2 DEF Newest
  <1>6. ASSUME l.cnx, Published # {} PROVE (Newest(Published))' = Newest(Published)
    <2>1. Published' = Published
      BY <1>1, <1>2, <1>6 DEF Published
    <2>2. Max(Published) \in Log
      BY <1>6, NewestIn
    <2> QED
      BY <1>1, <2>1, <2>2 DEF Newest
  <1>8. Published # {} => Published' # {}
    BY <1>1 DEF Published
  <1>7. ASSUME NEW m \in Log', NEW n \in Log', Follows(n, m)'
        PROVE  \/ m \in Log /\ n \in Log /\ Follows(n, m) /\ posts'[m] = posts[m] /\ posts'[n] = posts[n]
               \/ Log # {} /\ posts'[m] = Newest(Log) /\ posts'[n] = l
    <2>1. m < n /\ \A j \in Log' : j <= m \/ n <= j
      BY <1>7 DEF Follows
    <2>2. m \in Log
      BY <1>1, <1>2, <2>1
    <2>3. CASE n \in Log
      BY <1>1, <2>1, <2>2, <2>3 DEF Follows
    <2>4. CASE n = k
      <3>1. \A j \in Log : j <= m
        BY <1>1, <1>2, <2>1, <2>4
      <3>2. Max(Log) = m
        <4> DEFINE S == Log
        <4>1. S \in SUBSET Nat /\ m \in S /\ \A j \in S : j <= m
          BY <1>2, <2>2, <3>1
        <4> HIDE DEF S
        <4>2. Max(S) = m
          BY <4>1, GreatestIs
        <4> QED
          BY <4>2 DEF S
      <3> QED
        BY <1>1, <2>2, <2>4, <3>2 DEF Newest
    <2> QED
      BY <1>1, <2>3, <2>4
  <1> QED
    BY <1>1, <1>4, <1>5, <1>6, <1>7, <1>8

(* Where the only place is the last of the log, giving it up leaves the    *)
(* log as it was, and a line put there extends it.                         *)
LEMMA TurnLeave ==
  ASSUME EntryTypeOK, PlaceLast, NEW p \in Workers, Leave(p),
         \A q \in Workers : q # p => call'[q] = call[q]
  PROVE  SameLog /\ PlaceLast'
  <1>0. posts \in Seq(Shown \cup Places) /\ Len(posts) \in Nat /\ DOMAIN posts = 1..Len(posts)
        /\ posts' \in Seq(Shown \cup Places) /\ DOMAIN posts' = 1..Len(posts')
    BY LeaveFacts DEF EntryTypeOK
  <1>1. CASE PlaceAt(p) = {}
    <2>1. posts' = posts
      BY <1>1, LeaveFacts
    <2>2. Log' = Log
      BY <2>1 DEF Log
    <2>3. ASSUME NEW n \in DOMAIN posts' \ Log'
          PROVE  n = Len(posts') /\ \E q \in Workers : posts'[n] = Place(q) /\ call'[q].pc \in {"edit", "cancel"}
      <3>1. n = Len(posts) /\ n \in DOMAIN posts
        BY <2>1, <2>2 DEF PlaceLast
      <3>2. PICK q \in Workers : posts[n] = Place(q) /\ call[q].pc \in {"edit", "cancel"}
        BY <2>1, <2>2 DEF PlaceLast
      <3>3. q # p
        BY <1>1, <3>1, <3>2 DEF PlaceAt
      <3> QED
        BY <2>1, <3>1, <3>2, <3>3
    <2> QED
      BY <2>1, <2>2, <2>3 DEF SameLog, PlaceLast, Place
  <1>2. CASE PlaceAt(p) # {}
    <2>1. \A n \in PlaceAt(p) : n \in DOMAIN posts \ Log
      BY PlaceFacts DEF PlaceAt, Log
    <2>2. \A n \in PlaceAt(p) : n = Len(posts)
      BY <2>1 DEF PlaceLast
    <2>3. Len(posts') = Len(posts) - 1 /\ \A n \in DOMAIN posts' : posts'[n] = posts[n]
      BY <1>2, <2>2, LeaveFacts
    <2>4. Len(posts) \notin Log /\ Len(posts) \in DOMAIN posts
      BY <1>2, <2>1, <2>2
    <2>5. \A n \in DOMAIN posts : n # Len(posts) => n \in Log /\ n \in DOMAIN posts'
      BY <1>0, <2>3 DEF PlaceLast
    <2>6. \A n \in DOMAIN posts' : n \in DOMAIN posts /\ n # Len(posts)
      BY <1>0, <2>3
    <2>7. Log' = Log
      BY <2>3, <2>4, <2>5, <2>6 DEF Log
    <2>8. DOMAIN posts' = Log'
      BY <2>4, <2>5, <2>6, <2>7 DEF Log
    <2> QED
      BY <2>3, <2>7, <2>8 DEF SameLog, PlaceLast
  <1> QED
    BY <1>1, <1>2

LEMMA TurnPost ==
  ASSUME EntryTypeOK, LogInv, PlaceLast, NEW p \in Workers, NEW l \in Shown, Post(p, l),
         call[p].pc \in {"edit", "cancel"}, env' = env
  PROVE  ExtendsLog(l) /\ PlaceLast'
  <1>0. posts \in Seq(Shown \cup Places) /\ Len(posts) \in Nat /\ DOMAIN posts = 1..Len(posts)
    BY DEF EntryTypeOK
  <1>1. CASE "batched" \notin env
    <2>1. posts' = Append(posts, l) /\ Log = DOMAIN posts
      BY <1>1 DEF Post, LogInv
    <2>2. /\ Log' = Log \cup {Len(posts) + 1} /\ posts'[Len(posts) + 1] = l
          /\ \A n \in DOMAIN posts : n < Len(posts) + 1 /\ posts'[n] = posts[n]
          /\ Log' = DOMAIN posts'
      BY <1>1, <2>1, LineAdded
    <2>3. Len(posts) + 1 \in Nat /\ Log \subseteq DOMAIN posts
      BY <1>0 DEF Log
    <2> QED
      BY <2>2, <2>3 DEF ExtendsLog, PlaceLast
  <1>2. CASE "batched" \in env
    <2> DEFINE k == Len(posts)
    <2>1. PICK n \in DOMAIN posts : posts[n] = Place(p)
      BY <1>2 DEF LogInv, Waiting, PlaceAt
    <2>2. n \notin Log /\ n = k
      BY <2>1, PlaceFacts DEF Log, PlaceLast
    <2>3. /\ DOMAIN posts' = DOMAIN posts
          /\ \A m \in DOMAIN posts : posts'[m] = IF posts[m] = Place(p) THEN l ELSE posts[m]
      BY <1>2, PostFacts
    <2>4. posts'[k] = l /\ k \in DOMAIN posts /\ k \notin Log /\ k \in Nat
      BY <1>0, <2>1, <2>2, <2>3
    <2> HIDE DEF k
    <2>5. \A m \in Log : m \in DOMAIN posts /\ posts[m] \in Shown /\ posts'[m] = posts[m]
      BY <2>3, PlaceFacts DEF Log
    <2>6. \A m \in DOMAIN posts : m # k => m \in Log /\ m < k
      BY <1>0 DEF PlaceLast, k
    <2>7. Log' = Log \cup {k} /\ DOMAIN posts' = Log'
      BY <2>3, <2>4, <2>5, <2>6 DEF Log
    <2>8. \A m \in Log : m < k
      BY <2>4, <2>5, <2>6
    <2> QED
      BY <2>4, <2>5, <2>7, <2>8 DEF ExtendsLog, PlaceLast
  <1> QED
    BY <1>1, <1>2

LEMMA TurnReserve ==
  ASSUME EntryTypeOK, PlaceLast, NEW p \in Workers, Reserve(p),
         \A q \in Workers : call[q] = Idle, call'[p].pc \in {"edit", "cancel"}
  PROVE  SameLog /\ PlaceLast'
  <1>0. Len(posts) \in Nat /\ DOMAIN posts = 1..Len(posts) /\ DOMAIN posts' = 1..Len(posts')
    BY ReserveFacts DEF EntryTypeOK
  <1>1. \A q \in Workers : call[q].pc = "idle"
    BY CallTyped
  <1>2. DOMAIN posts = Log
    BY <1>1 DEF PlaceLast, Log
  <1>3. CASE "batched" \notin env
    <2>1. posts' = posts
      BY <1>3, ReserveFacts
    <2> QED
      BY <1>2, <2>1 DEF SameLog, PlaceLast, Log
  <1>4. CASE "batched" \in env
    <2>1. /\ Len(posts') = Len(posts) + 1 /\ posts'[Len(posts) + 1] = Place(p)
          /\ \A n \in DOMAIN posts : posts'[n] = posts[n]
      BY <1>4, ReserveFacts
    <2>2. 1..(Len(posts) + 1) = 1..Len(posts) \cup {Len(posts) + 1} /\ Len(posts) + 1 \notin 1..Len(posts)
      BY <1>0
    <2>3. DOMAIN posts' = DOMAIN posts \cup {Len(posts) + 1}
      BY <1>0, <2>1, <2>2
    <2>4. Log' = Log
      BY <1>2, <2>1, <2>3, PlaceFacts DEF Log
    <2>5. \A n \in DOMAIN posts' \ Log' : n = Len(posts') /\ posts'[n] = Place(p)
      BY <1>2, <2>1, <2>3, <2>4
    <2> QED
      BY <1>2, <2>1, <2>4, <2>5 DEF SameLog, PlaceLast, Place
  <1> QED
    BY <1>3, <1>4

(* A step that writes no line.                                             *)
LEMMA TurnSilent ==
  ASSUME EntryTypeOK, LifeInv, LogInv, TurnInv, Turns, env' = env, kind' = kind,
         SameLog, PlaceLast', OneCall', EditCurrent', RowMove,
         \A q \in Workers : call'[q].pc = "cancel" =>
            call'[q] = call[q] \/ (kind = "tmi" /\ call'[q].channel = CancelChannel),
         EndsRow /\ kind = "tmi" => row'.dismissed,
         PublishesRow => kind # "tmi",
         EditsRow /\ row'.status = "published" => SameWindow
  PROVE  TurnInv'
  <1>0. /\ Log' = Log /\ Published' = Published
        /\ Log # {} => (Newest(Log))' = Newest(Log)
        /\ Published # {} => (Newest(Published))' = Newest(Published)
        /\ \A m, n \in Log : Follows(n, m)' <=> Follows(n, m)
        /\ \A n \in Log : posts'[n] = posts[n]
    BY SameNewest DEF SameLog
  <1>1. CancelCurrent'
    <2> SUFFICES ASSUME NEW q \in Workers, call'[q].pc = "cancel"
                 PROVE  kind = "tmi" /\ (Published' # {} => call'[q].channel = (Newest(Published))'.channel)
      BY DEF CancelCurrent
    <2>1. CASE call'[q] = call[q]
      BY <1>0, <2>1 DEF TurnInv, CancelCurrent
    <2>2. CASE kind = "tmi" /\ call'[q].channel = CancelChannel
      BY <1>0, <2>2 DEF CancelChannel
    <2> QED
      BY <2>1, <2>2
  <1>2. LiveLine'
    <2>1. kind = "tmi" => row'.published = row.published
      BY DEF RowMove, CreatesRow, EditsRow, EndsRow, DismissesRow, ExpiresRow, RemovesRow, SameTimes
    <2> QED
      BY <1>0, <2>1 DEF TurnInv, LiveLine
  <1>3. LogFollows'
    <2>1. ASSUME kind = "tmi", row'.status = "published"
          PROVE  row.status = "published" /\ SameWindow
      BY <2>1 DEF RowMove, CreatesRow, EditsRow, EndsRow, DismissesRow, ExpiresRow, RemovesRow, Active,
                  SameWindow
    <2>2. ASSUME kind = "tmi", row'.status = "published"
          PROVE  /\ Log' # {}
                 /\ ~(Newest(Log))'.cnx /\ (Newest(Log))'.line = row'.line /\ (Newest(Log))'.stop = row'.stop
      BY <1>0, <2>1, <2>2 DEF TurnInv, LogFollows, SameWindow
    <2>3. ASSUME NEW m \in Log', NEW n \in Log', Follows(n, m)'
          PROVE  posts'[n].cnx \/ posts'[n].line # posts'[m].line \/ posts'[n].stop # posts'[m].stop
      BY <1>0, <2>3 DEF TurnInv, LogFollows
    <2> QED
      BY <2>2, <2>3 DEF LogFollows
  <1>4. CancelBeside'
    <2> SUFFICES ASSUME kind = "tmi", row'.status = "cancelled", row'.published # NoTime, ~row'.dismissed
                 PROVE  (Newest(Log))'.channel = (Newest(Published))'.channel
      BY DEF CancelBeside
    <2>1. row.status = "cancelled" /\ row.published # NoTime /\ ~row.dismissed
      BY DEF RowMove, CreatesRow, EditsRow, DismissesRow, ExpiresRow, RemovesRow, SameTimes
    <2>2. Published # {} /\ Newest(Log).channel = Newest(Published).channel
      BY <2>1 DEF TurnInv, LiveLine, CancelBeside
    <2>3. Log # {}
      BY <2>2, NewestIn
    <2> QED
      BY <1>0, <2>2, <2>3
  <1> QED
    BY <1>1, <1>2, <1>3, <1>4 DEF TurnInv

(* A step that writes one.                                                 *)
LEMMA TurnSpeaks ==
  ASSUME EntryTypeOK, LifeInv, LogInv, TurnInv, Turns, env' = env, kind' = kind, kind = "tmi",
         NEW l \in Shown, ExtendsLog(l), PlaceLast',
         \A q \in Workers : call'[q] = Idle,
         row'.status = "published" => ~l.cnx /\ l.line = row'.line /\ l.stop = row'.stop,
         row'.published # NoTime => ~l.cnx \/ Published # {},
         Log # {} => l.cnx \/ l.line # Newest(Log).line \/ l.stop # Newest(Log).stop,
         row'.status = "cancelled" /\ row'.published # NoTime =>
            l.cnx /\ Published # {} /\ l.channel = Newest(Published).channel
  PROVE  TurnInv'
  <1>0. /\ Log' # {} /\ (Newest(Log))' = l
        /\ Published # {} => Published' # {}
        /\ ~l.cnx => Published' # {} /\ (Newest(Published))' = l
        /\ l.cnx /\ Published # {} => (Newest(Published))' = Newest(Published)
        /\ \A m, n \in Log' : Follows(n, m)' =>
              \/ m \in Log /\ n \in Log /\ Follows(n, m) /\ posts'[m] = posts[m] /\ posts'[n] = posts[n]
              \/ Log # {} /\ posts'[m] = Newest(Log) /\ posts'[n] = l
    BY ExtendedNewest
  <1>1. \A q \in Workers : call'[q].pc = "idle"
    BY DEF Idle
  <1>2. OneCall' /\ EditCurrent' /\ CancelCurrent'
    BY <1>1 DEF OneCall, EditCurrent, CancelCurrent, Idle
  <1>3. LiveLine'
    BY <1>0 DEF LiveLine
  <1>4. LogFollows'
    <2>1. ASSUME NEW m \in Log', NEW n \in Log', Follows(n, m)'
          PROVE  posts'[n].cnx \/ posts'[n].line # posts'[m].line \/ posts'[n].stop # posts'[m].stop
      BY <1>0, <2>1 DEF TurnInv, LogFollows
    <2> QED
      BY <1>0, <2>1 DEF LogFollows
  <1>5. CancelBeside'
    BY <1>0 DEF CancelBeside
  <1> QED
    BY <1>2, <1>3, <1>4, <1>5 DEF TurnInv

LEMMA TurnStep ==
  EntryTypeOK /\ LifeInv /\ LogInv /\ TurnInv /\ [EntryNext]_entryVars => TurnInv'
  <1> SUFFICES ASSUME EntryTypeOK, LifeInv, LogInv, TurnInv, [EntryNext]_entryVars, Turns'
               PROVE  TurnInv'
    BY DEF TurnInv
  <1>0. env' = env /\ kind' = kind /\ Turns
    <2>1. env' = env
      BY Quiet DEF Tick
    <2>2. kind' = kind
      BY DEF EntryNext, entryVars, Create, PublishEntry, CancelGroundStop, Prune, PublishAdvisory,
           CancelAdvisory, DeleteAdvisory, Remap, Tick, BeginEdit, WriteEdit, BeginCancel, WriteCancel,
           HardDelete, SoftDelete, SweepExpire, SweepPurge, SweepRetire, Fail
    <2> QED
      BY <2>1, <2>2 DEF Turns
  <1>t. OneCall /\ PlaceLast /\ EditCurrent /\ CancelCurrent /\ LiveLine /\ LogFollows /\ CancelBeside
    BY <1>0 DEF TurnInv
  <1>i. \A q \in Workers : (call'[q] = Idle <=> call'[q].pc = "idle") /\ (call[q] = Idle <=> call[q].pc = "idle")
    <2>1. EntryTypeOK'
      BY EntryTypeStep
    <2>2. \A q \in Workers : call'[q] \in Calls /\ call[q] \in Calls
      BY <2>1 DEF EntryTypeOK
    <2> QED
      BY <2>2 DEF Calls, Idle
  <1>a. ASSUME NEW p \in Workers, call[p] # Idle, NEW stage, Moves(p, stage)
        PROVE  /\ OneCall'
               /\ stage = "idle" => \A q \in Workers : call'[q] = Idle
               /\ \A q \in Workers : q # p => call'[q] = call[q]
    <2>1. \A q \in Workers : q # p => call[q] = Idle /\ call'[q] = Idle
      BY <1>a, <1>t DEF OneCall, Moves
    <2> QED
      BY <1>a, <1>i, <2>1 DEF OneCall, Moves
  <1>b. ASSUME NEW p \in Workers, MayBegin(p), NEW stage, Moves(p, stage)
        PROVE  /\ OneCall' /\ \A q \in Workers : call[q] = Idle /\ call[q].pc = "idle"
               /\ \A q \in Workers : q # p => call'[q] = Idle /\ call'[q].pc = "idle"
    <2>1. \A q \in Workers : call[q] = Idle
      BY <1>0, <1>b DEF MayBegin, Free, Turns
    <2>2. \A q \in Workers : q # p => call'[q] = Idle
      BY <1>b, <2>1 DEF Moves
    <2> QED
      BY <1>i, <2>1, <2>2 DEF OneCall
  \* the row a silent step may leave
  <1>r. ASSUME \/ row' = row \/ CreatesRow \/ (EndsRow /\ kind # "tmi") \/ DismissesRow
               \/ ExpiresRow \/ RemovesRow
        PROVE  /\ RowMove /\ (EndsRow /\ kind = "tmi" => row'.dismissed) /\ ~PublishesRow
               /\ SameWindow \/ CreatesRow
               /\ row.status # "none" => row'.status # "none"
    BY <1>r DEF RowMove, CreatesRow, EndsRow, DismissesRow, ExpiresRow, RemovesRow, PublishesRow, Active,
                SameWindow
  <1>s. ASSUME RowMove, EndsRow /\ kind = "tmi" => row'.dismissed, ~PublishesRow,
               SameWindow \/ CreatesRow, row.status # "none" => row'.status # "none",
               SameLog, PlaceLast', OneCall',
               \A q \in Workers : call'[q].pc \in {"edit", "cancel"} => call'[q] = call[q]
        PROVE  TurnInv'
    <2>1. EditsRow /\ row'.status = "published" => SameWindow
      BY <1>s DEF CreatesRow
    <2>2. EditCurrent'
      <3> SUFFICES ASSUME NEW q \in Workers, call'[q].pc = "edit"
                   PROVE  /\ kind' = "tmi" /\ row'.status # "none"
                          /\ call'[q].before = [line |-> row'.line, stop |-> row'.stop]
        BY DEF EditCurrent
      <3>1. call'[q] = call[q]
        BY <1>s
      <3>2. /\ kind = "tmi" /\ row.status # "none"
            /\ call[q].before = [line |-> row.line, stop |-> row.stop]
        BY <1>t, <3>1 DEF EditCurrent
      <3>3. SameWindow
        BY <1>s, <3>2 DEF CreatesRow
      <3> QED
        BY <1>0, <1>s, <3>1, <3>2, <3>3 DEF SameWindow
    <2> QED
      BY <1>0, <1>s, <2>1, <2>2, TurnSilent
  <1>p. ASSUME posts' = posts,
               \A q \in Workers : call[q].pc \in {"edit", "cancel"} => call'[q] = call[q]
        PROVE  SameLog /\ PlaceLast'
    <2>1. Log' = Log
      BY <1>p DEF Log
    <2> QED
      BY <1>p, <1>t, <2>1 DEF SameLog, PlaceLast, Place
  <1>1. CASE \/ Create \/ CancelGroundStop \/ Prune \/ PublishAdvisory \/ CancelAdvisory
             \/ DeleteAdvisory \/ Remap \/ UNCHANGED entryVars
    <2>1. posts' = posts /\ call' = call
      BY <1>1 DEF entryVars, Create, CancelGroundStop, Prune, PublishAdvisory, CancelAdvisory,
                  DeleteAdvisory, Remap
    <2>2. row' = row \/ CreatesRow \/ (EndsRow /\ kind # "tmi") \/ RemovesRow
      BY <1>1, RowMoves DEF entryVars, CancelGroundStop, PublishAdvisory, CancelAdvisory,
                  DeleteAdvisory, Remap
    <2>3. OneCall'
      BY <1>t, <2>1 DEF OneCall
    <2> QED
      BY <1>p, <1>r, <1>s, <2>1, <2>2, <2>3
  <1>2. CASE Tick
    <2>1. posts' = posts /\ row' = row
      BY <1>2 DEF Tick
    <2>2. \A q \in Workers : call[q].pc \notin {"purge", "retire"} => call'[q] = call[q]
      BY <1>2, TickCalls
    <2>3. \A q \in Workers : call'[q].pc = call[q].pc
      BY <1>2, TickCalls
    <2>4. OneCall'
      BY <1>i, <1>t, <2>3 DEF OneCall
    <2> QED
      BY <1>p, <1>r, <1>s, <2>1, <2>2, <2>3, <2>4
  <1>3. CASE PublishEntry
    <2>0. PublishesRow /\ call' = call /\ \A q \in Workers : call[q] = Idle
      BY <1>0, <1>3, RowMoves DEF PublishEntry, Free, Turns
    <2>1. CASE kind = "tmi"
      <3> DEFINE l == Line(row, FALSE, channel)
      <3>1. posts' = Append(posts, l) /\ l \in Shown /\ ~l.cnx /\ l.line = row.line /\ l.stop = row.stop
        BY <1>3, <2>1, Typed DEF PublishEntry, EntryTypeOK, Line
      <3> HIDE DEF l
      <3>2. \A q \in Workers : call[q].pc = "idle"
        BY <1>i, <2>0
      <3>3. DOMAIN posts = Log /\ Log = {} /\ posts = << >>
        <4>1. DOMAIN posts = Log
          BY <1>t, <3>2 DEF PlaceLast, Log
        <4>2. Log = {}
          BY <2>0 DEF PublishesRow, LogInv, Said
        <4> QED
          BY <4>1, <4>2 DEF EntryTypeOK
      <3>4. ExtendsLog(l) /\ PlaceLast'
        <4>1. Log' = Log \cup {Len(posts) + 1} /\ posts'[Len(posts) + 1] = l /\ Len(posts') = Len(posts) + 1
          BY <1>0, <3>1, LineAdded
        <4>2. Len(posts) + 1 \in Nat /\ posts' = <<l>>
          BY <3>1, <3>3
        <4>3. DOMAIN posts' = Log'
          BY <3>3, <4>1, <4>2
        <4> QED
          BY <3>3, <4>1, <4>2, <4>3 DEF ExtendsLog, PlaceLast
      <3>5. row'.status = "published" /\ row'.line = row.line /\ row'.stop = row.stop
        BY <2>0 DEF PublishesRow, SameWindow
      <3> QED
        BY <1>0, <2>0, <2>1, <3>1, <3>3, <3>4, <3>5, TurnSpeaks
    <2>2. CASE kind # "tmi"
      <3>1. posts' = posts
        BY <1>3, <2>2 DEF PublishEntry
      <3>2. SameLog /\ PlaceLast' /\ OneCall'
        BY <1>p, <1>t, <2>0, <3>1 DEF OneCall
      <3>3. EditCurrent' /\ \A q \in Workers : call'[q].pc # "cancel"
        BY <1>i, <2>0 DEF EditCurrent
      <3>4. RowMove /\ ~EndsRow /\ ~EditsRow
        BY <2>0 DEF RowMove, PublishesRow, EndsRow, EditsRow
      <3> QED
        BY <1>0, <2>2, <3>2, <3>3, <3>4, TurnSilent
    <2> QED
      BY <2>1, <2>2
  <1>4. ASSUME NEW p \in Workers, BeginEdit(p) PROVE TurnInv'
    <2>0. Moves(p, "edit") /\ MayBegin(p) /\ Reserve(p) /\ row' = row /\ kind = "tmi" /\ Exists
      BY <1>4, CallMoves DEF BeginEdit
    <2>1. OneCall' /\ (\A q \in Workers : call[q] = Idle) /\ \A q \in Workers : q # p => call'[q].pc = "idle"
      BY <1>b, <2>0
    <2>2. SameLog /\ PlaceLast'
      BY <1>t, <2>0, <2>1, TurnReserve DEF Moves
    <2>3. call'[p].before = [line |-> row.line, stop |-> row.stop]
      BY <1>4 DEF BeginEdit, Goto, EntryTypeOK
    <2>4. EditCurrent'
      BY <1>0, <2>0, <2>1, <2>3 DEF EditCurrent, Exists
    <2>5. \A q \in Workers : call'[q].pc # "cancel"
      BY <2>0, <2>1 DEF Moves
    <2> QED
      BY <1>0, <1>r, <2>0, <2>1, <2>2, <2>4, <2>5, TurnSilent DEF SameWindow
  <1>5. ASSUME NEW p \in Workers, BeginCancel(p) PROVE TurnInv'
    <2>0. Moves(p, "cancel") /\ MayBegin(p) /\ Reserve(p) /\ row' = row /\ kind = "tmi"
      BY <1>5, CallMoves DEF BeginCancel
    <2>1. OneCall' /\ (\A q \in Workers : call[q] = Idle) /\ \A q \in Workers : q # p => call'[q].pc = "idle"
      BY <1>b, <2>0
    <2>2. SameLog /\ PlaceLast'
      BY <1>t, <2>0, <2>1, TurnReserve DEF Moves
    <2>3. call'[p].channel = CancelChannel
      BY <1>5 DEF BeginCancel, Goto, EntryTypeOK
    <2>4. EditCurrent'
      BY <2>0, <2>1 DEF EditCurrent, Moves
    <2>5. \A q \in Workers : call'[q].pc = "cancel" => kind = "tmi" /\ call'[q].channel = CancelChannel
      BY <2>0, <2>1, <2>3
    <2> QED
      BY <1>0, <1>r, <2>0, <2>1, <2>2, <2>4, <2>5, TurnSilent DEF SameWindow
  <1>6. ASSUME NEW p \in Workers, WriteEdit(p) PROVE TurnInv'
    <2>0. Moves(p, "idle") /\ call[p].pc = "edit" /\ call[p] # Idle /\ (row' = row \/ EditsRow)
      BY <1>6, <1>i, CallMoves, RowMoves DEF WriteEdit
    <2>1. \A q \in Workers : call'[q] = Idle /\ call'[q].pc = "idle"
      BY <1>a, <1>i, <2>0
    <2>2. /\ kind = "tmi" /\ call[p].before = [line |-> row.line, stop |-> row.stop]
      BY <1>t, <2>0 DEF EditCurrent
    <2> DEFINE r == Merged(call[p].change)
    <2>3. r \in Rows
      BY <2>0, CallTyped, Typed
    <2>4. row' = row \/ row' = [r EXCEPT !.updated = clock]
      BY <1>6 DEF WriteEdit, Update
    <2>5. row' # row => /\ row'.line = r.line /\ row'.stop = r.stop /\ row'.status = r.status
                        /\ row'.published = row.published
      BY <2>0, <2>3, <2>4 DEF Rows, EditsRow, SameTimes
    <2>6. CASE Leave(p)
      <3>1. SameLog /\ PlaceLast'
        BY <1>a, <1>t, <2>0, <2>6, TurnLeave DEF Moves
      <3>2. RowMove /\ ~EndsRow /\ ~PublishesRow
        BY <2>0 DEF RowMove, EditsRow, EndsRow, PublishesRow, Active
      <3>3. OneCall' /\ EditCurrent'
        BY <2>1 DEF OneCall, EditCurrent
      <3>4. row'.status = "published" => SameWindow
        <4>1. CASE row' = row
          BY <4>1 DEF SameWindow
        <4>2. CASE row' # row /\ Revises(call[p].before, r) /\ row'.status = "published"
          <5>1. Exists /\ Post(p, Line(r, FALSE, channel))
            BY <1>6, <4>2 DEF WriteEdit
          \* a place given up is no line
          <5>2. Line(r, FALSE, channel) \in Shown
            BY <2>3 DEF EntryTypeOK, Line, Shown, Rows
          <5>3. ExtendsLog(Line(r, FALSE, channel))
            BY <1>0, <1>t, <2>0, <5>1, <5>2, TurnPost
          <5>4. FALSE
            BY <3>1, <5>3, NewestIn DEF SameLog, ExtendsLog
          <5> QED
            BY <5>4
        <4>3. CASE row' # row /\ ~Revises(call[p].before, r) /\ row'.status = "published"
          <5>1. call[p].before = [line |-> r.line, stop |-> r.stop]
            BY <2>5, <4>3 DEF Revises, LineChanged
          <5>2. r.line = row.line /\ r.stop = row.stop
            BY <2>2, <5>1
          <5> QED
            BY <2>5, <4>3, <5>2 DEF SameWindow
        <4> QED
          BY <4>1, <4>2, <4>3
      <3>5. \A q \in Workers : call'[q].pc # "cancel"
        BY <2>1
      <3> QED
        BY <1>0, <3>1, <3>2, <3>3, <3>4, <3>5, TurnSilent
    <2>7. CASE ~Leave(p)
      <3> DEFINE l == Line(r, FALSE, channel)
      <3>1. Exists /\ Revises(call[p].before, r) /\ Post(p, l) /\ row' = [r EXCEPT !.updated = clock]
        BY <1>6, <2>7 DEF WriteEdit, Update
      <3>2. l \in Shown /\ ~l.cnx /\ l.line = r.line /\ l.stop = r.stop
        BY <2>3 DEF EntryTypeOK, Line, Shown, Rows
      <3>3. row'.status = "published" /\ row'.line = r.line /\ row'.stop = r.stop
        BY <2>3, <3>1 DEF Revises, Rows
      <3>4. row.status = "published"
        BY <2>0, <3>3 DEF EditsRow
      <3>5. Newest(Log).line = row.line /\ Newest(Log).stop = row.stop
        BY <1>0, <1>t, <2>2, <3>4 DEF LogFollows
      <3>6. r.line # row.line \/ r.stop # row.stop
        BY <2>2, <3>1 DEF Revises, LineChanged
      <3> HIDE DEF l, r
      <3>7. ExtendsLog(l) /\ PlaceLast'
        BY <1>0, <1>t, <2>0, <3>1, <3>2, TurnPost
      <3>8. l.line # Newest(Log).line \/ l.stop # Newest(Log).stop
        BY <3>2, <3>5, <3>6
      <3> QED
        BY <1>0, <2>1, <2>2, <3>2, <3>3, <3>7, <3>8, TurnSpeaks
    <2> QED
      BY <2>6, <2>7
  <1>7. ASSUME NEW p \in Workers, WriteCancel(p) PROVE TurnInv'
    <2>0. Moves(p, "idle") /\ call[p].pc = "cancel" /\ call[p] # Idle
      BY <1>7, <1>i, CallMoves DEF WriteCancel
    <2>1. \A q \in Workers : call'[q] = Idle /\ call'[q].pc = "idle"
      BY <1>a, <1>i, <2>0
    <2>2. CASE ~Cancellable
      <3>1. row' = row /\ Leave(p)
        BY <1>7, <2>2 DEF WriteCancel
      <3>2. SameLog /\ PlaceLast' /\ OneCall'
        BY <1>a, <1>t, <2>0, <3>1, TurnLeave
      <3> QED
        BY <1>r, <1>s, <2>1, <3>1, <3>2
    <2>3. CASE Cancellable
      <3>0. kind = "tmi"
        BY <1>t, <2>0 DEF CancelCurrent
      <3> DEFINE l == Line(row, TRUE, call[p].channel)
      <3>1. Post(p, l) /\ l \in Shown /\ l.cnx /\ l.channel = call[p].channel
        BY <1>7, <2>0, <2>3, CallTyped, Typed DEF WriteCancel, Line
      <3> HIDE DEF l
      <3>2. row'.status = "cancelled" /\ row'.published = row.published
        BY <1>7, <2>3 DEF EntryTypeOK, WriteCancel, Update, Ended, Rows
      <3>3. ExtendsLog(l) /\ PlaceLast'
        BY <1>0, <1>t, <2>0, <3>1, TurnPost
      <3>4. row'.published # NoTime => Published # {} /\ l.channel = Newest(Published).channel
        BY <1>t, <2>0, <3>0, <3>1, <3>2 DEF LiveLine, CancelCurrent
      <3> QED
        BY <1>0, <2>1, <3>0, <3>1, <3>2, <3>3, <3>4, TurnSpeaks
    <2> QED
      BY <2>2, <2>3
  <1>8. ASSUME NEW p \in Workers, Fail(p) PROVE TurnInv'
    <2>1. row' = row /\ Leave(p) /\ Moves(p, "idle") /\ call[p] # Idle
      BY <1>8, CallMoves DEF Fail
    <2>2. SameLog /\ PlaceLast' /\ OneCall' /\ \A q \in Workers : call'[q].pc = "idle"
      BY <1>a, <1>i, <1>t, <2>1, TurnLeave
    <2> QED
      BY <1>r, <1>s, <2>1, <2>2
  <1>9. ASSUME NEW p \in Workers,
               HardDelete(p) \/ SoftDelete(p) \/ SweepExpire(p) \/ SweepPurge(p) \/ SweepRetire(p)
        PROVE  TurnInv'
    <2>1. posts' = posts
      BY <1>9 DEF HardDelete, SoftDelete, SweepExpire, SweepPurge, SweepRetire
    <2>2. row' = row \/ RemovesRow \/ DismissesRow \/ ExpiresRow
      BY <1>9, RowMoves DEF SweepRetire
    <2>3. call' = call \/ \E s \in {"idle", "soft_delete", "purge", "retire"} : Moves(p, s)
      BY <1>9, CallMoves
    <2>4. call[p].pc \notin {"edit", "cancel"}
      BY <1>9, <1>i DEF HardDelete, SoftDelete, SweepExpire, SweepPurge, SweepRetire, MayBegin
    <2>5. \A q \in Workers : call'[q].pc \in {"edit", "cancel"} => call'[q] = call[q]
      BY <2>3 DEF Moves
    <2>6. \A q \in Workers : call[q].pc \in {"edit", "cancel"} => call'[q] = call[q]
      BY <2>3, <2>4 DEF Moves
    <2>7. OneCall'
      <3>1. call[p] # Idle \/ MayBegin(p)
        BY <1>9 DEF HardDelete, SoftDelete, SweepExpire, SweepPurge, SweepRetire, MayBegin, Idle
      <3>2. CASE call' = call
        BY <1>t, <3>2 DEF OneCall
      <3> QED
        BY <1>a, <1>b, <2>3, <3>1, <3>2
    <2> QED
      BY <1>p, <1>r, <1>s, <2>1, <2>2, <2>5, <2>6, <2>7
  <1> QED
    BY <1>1, <1>2, <1>3, <1>4, <1>5, <1>6, <1>7, <1>8, <1>9 DEF EntryNext

-----------------------------------------------------------------------------
(* The six parts together are inductive.                                   *)
LEMMA EntryStart == EntryInit => EntryInv
  <1> SUFFICES ASSUME EntryInit PROVE EntryInv
    OBVIOUS
  <1>1. PICK l \in Lines : row = [status |-> "none", line |-> l, stop |-> NoTime, published |-> NoTime,
                                  ended |-> NoTime, updated |-> 0, dismissed |-> FALSE]
    BY DEF EntryInit
  <1>2. /\ row.status = "none" /\ row.stop = NoTime /\ row.published = NoTime /\ row.ended = NoTime
        /\ row \in Rows
    BY <1>1 DEF Rows, Stages
  <1>3. /\ posts = << >> /\ DOMAIN posts = {} /\ Log = {} /\ Published = {} /\ Said = {}
    BY DEF EntryInit, Log, Published, Said
  <1>4. /\ adv = NoAdvisory /\ adv.status = "none" /\ adv.corrected = 0 /\ adv \in Advisories
    BY DEF EntryInit, NoAdvisory, Advisories
  <1>5. ~adv.posted
    BY <1>4, Zenon DEF NoAdvisory
  <1>6. /\ call \in [Workers -> Calls] /\ \A p \in Workers : call[p] = Idle /\ call[p].pc = "idle"
    BY DEF EntryInit, Calls, Idle
  <1>7. EntryTypeOK
    <2>1. /\ kind \in {"tmi", "ground_stop"} /\ channel \in Channels /\ env \in Environments
          /\ clock \in Nat /\ seen \subseteq Nat
      BY DEF EntryInit
    <2>2. swept \in BOOLEAN
      <3>1. swept = FALSE
        BY DEF EntryInit
      <3> QED
        BY <3>1, Zenon
    <2>3. posts \in Seq(Shown \cup Places)
      BY <1>3
    <2> QED
      BY <1>2, <1>4, <1>6, <2>1, <2>2, <2>3, Zenon DEF EntryTypeOK
  <1>8. LifeInv
    BY <1>2 DEF LifeInv
  <1>9. SeenInv
    BY <1>2, <1>6 DEF SeenInv, ReplayFaithful, EntryInit, Exists
  <1>10. AdvisoryInv
    BY <1>2, <1>4, <1>5 DEF AdvisoryInv, AdvisoryRetired
  <1>11. LogInv
    BY <1>2, <1>3, <1>6 DEF LogInv, CancelIsLast, NothingAfterCancel
  <1>12. TurnInv
    BY <1>2, <1>3, <1>6 DEF TurnInv, OneCall, PlaceLast, EditCurrent, CancelCurrent, LiveLine,
                            LogFollows, CancelBeside
  <1> QED
    BY <1>7, <1>8, <1>9, <1>10, <1>11, <1>12 DEF EntryInv

LEMMA EntryInvariant == EntrySpec => []EntryInv
  <1>1. EntryInv /\ [EntryNext]_entryVars => EntryInv'
    BY EntryTypeStep, LifeStep, SeenStep, AdvisoryStep, LogStep, TurnStep DEF EntryInv
  <1> QED
    BY <1>1, EntryStart, PTL DEF EntrySpec

(* The row, the log, the advisory and the calls keep their types.          *)
THEOREM EntryTyped == EntrySpec => []EntryTypeOK
  <1>1. EntryInv => EntryTypeOK
    BY DEF EntryInv
  <1> QED
    BY <1>1, EntryInvariant, PTL

(* Edits, cancels and deletes that overlap put nothing behind a            *)
(* cancellation, where lines are posted in the order of the commits.       *)
THEOREM CancelStaysLast == EntrySpec => []CancelIsLast
  <1>1. EntryInv => CancelIsLast
    BY DEF EntryInv, LogInv
  <1> QED
    BY <1>1, EntryInvariant, PTL

(* Where calls take turns, the log says last what the row says and says    *)
(* nothing twice.                                                          *)
THEOREM LogFollowsRow == EntrySpec => []LogFollows
  <1>1. EntryInv => LogFollows
    BY DEF EntryInv, TurnInv, LogFollows
  <1> QED
    BY <1>1, EntryInvariant, PTL

(* A cancelled TMI has its cancellation in the log, where calls take turns *)
(* in the channel of the line it corrects.                                 *)
THEOREM CancelPosted == EntrySpec => []CancelCorrected
  <1>1. EntryInv => CancelCorrected
    <2> SUFFICES ASSUME EntryInv, kind = "tmi", row.status = "cancelled", row.published # NoTime,
                        ~row.dismissed
                 PROVE  /\ \E n \in Log : posts[n].cnx
                        /\ Turns => Newest(Log).channel = Newest(Published).channel
      BY DEF CancelCorrected
    <2>1. \E l \in Said : l.cnx
      BY DEF EntryInv, LogInv
    <2>2. \E n \in Log : posts[n].cnx
      BY <2>1 DEF Said
    <2>3. Turns => Newest(Log).channel = Newest(Published).channel
      BY DEF EntryInv, TurnInv, CancelBeside
    <2> QED
      BY <2>2, <2>3
  <1> QED
    BY <1>1, EntryInvariant, PTL

(* The replay shows an entry in the hours it was in force, whichever way   *)
(* it ended.                                                               *)
THEOREM ReplayTrue == EntrySpec => []ReplayFaithful
  <1>1. EntryInv => ReplayFaithful
    BY DEF EntryInv, SeenInv
  <1> QED
    BY <1>1, EntryInvariant, PTL

(* No advisory outlives its ground stop in the tables, and its post is     *)
(* corrected once.                                                         *)
THEOREM AdvisoryGone == EntrySpec => []AdvisoryRetired
  <1>1. EntryInv => AdvisoryRetired
    BY DEF EntryInv, AdvisoryInv
  <1> QED
    BY <1>1, EntryInvariant, PTL
=============================================================================
