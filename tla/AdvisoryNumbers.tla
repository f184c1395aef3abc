-------------------------- MODULE AdvisoryNumbers ---------------------------
(***************************************************************************)
(* How advisories get their numbers (repos/tmu.rs): one sequence per       *)
(* issuing facility and Zulu day, allocated when a draft is created, under *)
(* a transaction-scoped advisory lock, as the highest number there is plus *)
(* one.  A draft may be deleted, which gives the top number back; what was *)
(* published or cancelled stays.                                           *)
(*                                                                         *)
(* Creating is three steps, the statements of one transaction (the one     *)
(* that publishes or revises a program included): others commit between    *)
(* them.  The text of an advisory is left out.                             *)
(***************************************************************************)
EXTENDS Integers, FiniteSets

CONSTANTS
    Facilities,
    Ids,          \* advisory ids; a deleted draft's may be taken again
    Procs,        \* creates that may be under way at the same time
    DayBound,     \* bound: days a behaviour lasts
    NumberBound   \* bound: numbers handed out for one facility and day

ASSUME NumbersAssumption == DayBound \in Nat /\ NumberBound \in Nat

VARIABLES
    rows,     \* tmu.advisories, per id
    creates,  \* per create: its control state, facility, day and number
    holder,   \* history: <<facility, day, number, id>> once published or cancelled
    today

vars == <<rows, creates, holder, today>>

Days    == 0..DayBound
Numbers == 1..NumberBound
NoRow   == [status |-> "none"]
AdvisoryRows == [status : {"draft", "published", "cancelled"}, facility : Facilities,
                 day : Days, number : Numbers]
NoCreate == [pc |-> "idle"]

Present == {i \in Ids : rows[i] # NoRow}

(* The numbers in use for a facility and day.                              *)
Used(f, d) == {rows[i].number : i \in {j \in Present : rows[j].facility = f /\ rows[j].day = d}}

(* The transaction that holds the lock of a facility and day.              *)
Locks(p, f, d) ==
    creates[p].pc \in {"locked", "numbered"} /\ creates[p].facility = f /\ creates[p].day = d

Init ==
    /\ rows = [i \in Ids |-> NoRow]
    /\ creates = [p \in Procs |-> NoCreate]
    /\ holder = {}
    /\ today = 0

ZuluDay == today

(* The day is read before the lock is asked for.                           *)
Begin(p, f) ==
    /\ creates[p] = NoCreate
    /\ creates' = [creates EXCEPT ![p] = [pc |-> "begun", facility |-> f, day |-> ZuluDay]]
    /\ UNCHANGED <<rows, holder, today>>

LockFree_Always(f, d) == TRUE   \* mutant: no lock

LockFree(f, d) == \A q \in Procs : ~Locks(q, f, d)

(* pg_advisory_xact_lock                                                   *)
TakeLock(p) ==
    /\ creates[p].pc = "begun"
    /\ LockFree(creates[p].facility, creates[p].day)
    /\ creates' = [creates EXCEPT ![p] =
            [pc |-> "locked", facility |-> @.facility, day |-> @.day]]
    /\ UNCHANGED <<rows, holder, today>>

(* max(number) + 1, or 1                                                   *)
IsNext(n, used) ==
    /\ n = 1 \/ n - 1 \in used
    /\ \A k \in used : k < n

ReadMax(p) ==
    /\ creates[p].pc = "locked"
    /\ \E n \in Numbers :
        /\ IsNext(n, Used(creates[p].facility, creates[p].day))
        /\ creates' = [creates EXCEPT ![p] =
                [pc |-> "numbered", facility |-> @.facility, day |-> @.day, number |-> n]]
    /\ UNCHANGED <<rows, holder, today>>

(* The insert and the commit, which ends the lock.                         *)
InsertDraft(p, i) ==
    /\ creates[p].pc = "numbered"
    /\ rows[i] = NoRow
    /\ rows' = [rows EXCEPT ![i] =
            [status |-> "draft", facility |-> creates[p].facility,
             day |-> creates[p].day, number |-> creates[p].number]]
    /\ creates' = [creates EXCEPT ![p] = NoCreate]
    /\ UNCHANGED <<holder, today>>

(* The transaction fails or is dropped, at any point.                      *)
Abort(p) ==
    /\ creates[p] # NoCreate
    /\ creates' = [creates EXCEPT ![p] = NoCreate]
    /\ UNCHANGED <<rows, holder, today>>

Identity(i) == <<rows[i].facility, rows[i].day, rows[i].number, i>>

(* publish_advisory                                                        *)
Publish(i) ==
    /\ rows[i].status = "draft"
    /\ rows' = [rows EXCEPT ![i] = [@ EXCEPT !.status = "published"]]
    /\ holder' = holder \cup {Identity(i)}
    /\ UNCHANGED <<creates, today>>

(* cancel_advisory: a cancelled draft keeps its number, too.               *)
Cancel(i) ==
    /\ rows[i].status \in {"draft", "published"}
    /\ rows' = [rows EXCEPT ![i] = [@ EXCEPT !.status = "cancelled"]]
    /\ holder' = holder \cup {Identity(i)}
    /\ UNCHANGED <<creates, today>>

Deletable_Cancelled(i) == rows[i].status \in {"draft", "cancelled"}   \* mutant

Deletable(i) == rows[i].status = "draft"

(* delete_advisory                                                         *)
Delete(i) ==
    /\ Deletable(i)
    /\ rows' = [rows EXCEPT ![i] = NoRow]
    /\ UNCHANGED <<creates, holder, today>>

Midnight ==
    /\ today < DayBound
    /\ today' = today + 1
    /\ UNCHANGED <<rows, creates, holder>>

Next ==
    \/ \E p \in Procs : \/ \E f \in Facilities : Begin(p, f)
                        \/ TakeLock(p) \/ ReadMax(p) \/ Abort(p)
                        \/ \E i \in Ids : InsertDraft(p, i)
    \/ \E i \in Ids : Publish(i) \/ Cancel(i) \/ Delete(i)
    \/ Midnight

Spec == Init /\ [][Next]_vars

-----------------------------------------------------------------------------
(* Properties. *)

(* Types; a transaction that has its number holds the lock.                *)
Creates == {NoCreate}
           \cup [pc : {"begun", "locked"}, facility : Facilities, day : Days]
           \cup [pc : {"numbered"}, facility : Facilities, day : Days, number : Numbers]

TypeOK ==
    /\ rows \in [Ids -> {NoRow} \cup AdvisoryRows]
    /\ creates \in [Procs -> Creates]
    /\ holder \subseteq Facilities \X Days \X Numbers \X Ids
    /\ today \in Days
    /\ \A i \in Present : rows[i].day <= today
    /\ \A p \in Procs : creates[p] # NoCreate => creates[p].day <= today

SameNumber(i, j) ==
    /\ rows[i].facility = rows[j].facility
    /\ rows[i].day = rows[j].day
    /\ rows[i].number = rows[j].number

(* The unique constraint of migration 0085 is never what stops two         *)
(* advisories from sharing a number: the lock is (repos/tmu.rs:895 calls   *)
(* the constraint a backstop).                                             *)
NumbersUnique == \A i, j \in Present : SameNumber(i, j) => i = j

(* A number an advisory was published or cancelled under is never given to *)
(* another one, although abandoned drafts give theirs back.                *)
NeverReissued ==
    \A h \in holder : \A i \in Present :
        (rows[i].facility = h[1] /\ rows[i].day = h[2] /\ rows[i].number = h[3]) => i = h[4]

(* A new advisory is numbered above all there are for its facility and day *)
(* when it appears, whatever was deleted since its number was read: the    *)
(* order of the numbers is the order of creation.                          *)
Ascending ==
    [][\A i \in Ids \ Present : \A j \in Present :
         (i \in Present' /\ rows'[i].facility = rows[j].facility /\ rows'[i].day = rows[j].day)
            => rows'[i].number > rows[j].number]_vars
=============================================================================
