--------------------------- MODULE EventPackages ---------------------------
(***************************************************************************)
(* TMI packages of one event: planned programs, restrictions, ground stops *)
(* and advisories that go live together and are withdrawn together         *)
(* (handlers/events.rs, repos/events.rs).  People activate, deactivate and *)
(* edit packages; the lifecycle pass of every replica activates armed ones *)
(* from half an hour before the event and archives activated ones once it  *)
(* is over (jobs.rs).                                                      *)
(*                                                                         *)
(* Activation is one transaction: what it writes is kept in its call's     *)
(* record and seen by nobody until Commit.  Deactivation is a statement or *)
(* a short transaction per item.  Live rows other than programs are named  *)
(* by the item they came from; a program is named by its airport.          *)
(***************************************************************************)
EXTENDS Integers, FiniteSets

CONSTANTS
    Packages,
    Items,        \* planned items, those not yet added included
    Airports,
    PackageOf,    \* per item: its package
    KindOf,       \* per item: "program", "restriction", "ground_stop" or "advisory"
    AirportOf,    \* per program item: its airport
    CreatedAt,    \* per item: its place in its package, in the order of creation
    Announced,    \* restrictions and advisories that have a Discord channel
    OpenEnded,    \* restrictions and ground stops without a stop time
    Armable,      \* bound: packages somebody may arm
    EditedLate,   \* bound: packages changed during and after activation
    Procs,        \* handler calls and lifecycle passes that may overlap
    NoItem,       \* an airport has no rate program
    Staff,        \* a program set by hand
    Environments  \* sets of hazards, one of which a behaviour runs with

Kinds == {"program", "restriction", "ground_stop", "advisory"}

HazardKinds == {"concurrent",  \* calls overlap
                "fail",        \* a call dies at any step: error, crash, lost database
                "recovers",    \* such failures stop at some time
                "late_edit",   \* items and packages change during and after activation
                "by_hand"}     \* staff change the live rows themselves

ASSUME PackageAssumption ==
    /\ IsFiniteSet(Items)
    /\ PackageOf \in [Items -> Packages] /\ KindOf \in [Items -> Kinds]
    /\ AirportOf \in [Items -> Airports] /\ CreatedAt \in [Items -> Nat]
    /\ Announced \subseteq {i \in Items : KindOf[i] \in {"restriction", "advisory"}}
    /\ OpenEnded \subseteq {i \in Items : KindOf[i] \in {"restriction", "ground_stop"}}
    /\ NoItem \notin Items /\ Staff \notin Items /\ NoItem # Staff
    /\ Environments \subseteq SUBSET HazardKinds

VARIABLES
    phase,      \* of the event: "planning", "near" (until its end) or "over"
    status,     \* per package: "draft", "activated", "archived" or "deleted"
    armed,      \* per package: auto_publish
    planned,    \* items that are rows of tmi_package_item
    deleted,    \* items that were
    ref,        \* items whose live_ref is set
    row,        \* per item that is not a program: "none", "live" or "ended"
    issued,     \* per item: how often an activation made it live
    corrected,  \* per item: how many cancellations were queued for its post
    program,    \* per airport: the item or person its rate program is from
    call,       \* per process: the call it runs
    env

vars == <<phase, status, armed, planned, deleted, ref, row, issued, corrected, program,
          call, env>>

ItemsOf(k)  == {i \in Items : PackageOf[i] = k}
Programs    == {i \in Items : KindOf[i] = "program"}
Rows        == Items \ Programs

Idle  == [pc |-> "idle"]
Calls ==
    {Idle}
    \cup [pc : {"adding", "list", "list_refs"}, pkg : Packages]
    \cup [pc : {"items", "commit"}, pkg : Packages, todo : SUBSET Items,
          made : SUBSET Items, refd : SUBSET Items]
    \cup [pc : {"cancel"}, pkg : Packages, todo : SUBSET Items]

InTransaction(p) == call[p].pc \in {"items", "commit"}
Working(k)       == {p \in Procs : call[p] # Idle /\ call[p].pkg = k}

Others(p)        == Procs \ {p}

(* A row that an open transaction of one of P has written is locked until  *)
(* that transaction ends.                                                  *)
ProgramFree(a, P) ==
    \A q \in P : InTransaction(q) => \A i \in call[q].made \cap Programs : AirportOf[i] # a
ItemFree(i, P)    == \A q \in P : InTransaction(q) => i \notin call[q].refd
PackageFree(k, P) == \A q \in P : ~(call[q].pc = "commit" /\ call[q].pkg = k)

Init ==
    /\ phase = "planning"
    /\ status = [k \in Packages |-> "draft"]
    /\ armed = [k \in Packages |-> FALSE]
    /\ planned = {} /\ deleted = {} /\ ref = {}
    /\ row = [i \in Rows |-> "none"]
    /\ issued = [i \in Items |-> 0]
    /\ corrected = [i \in Announced |-> 0]
    /\ program = [a \in Airports |-> NoItem]
    /\ call = [p \in Procs |-> Idle]
    /\ env \in Environments

(* Which calls may begin: alone, unless calls overlap; and an edit and an  *)
(* activation of one package overlap with late edits only.                 *)
MayBegin(p) == call[p] = Idle /\ ("concurrent" \in env \/ \A q \in Procs : call[q] = Idle)
MayEdit(k)  == ("late_edit" \in env /\ k \in EditedLate) \/ (status[k] = "draft" /\ Working(k) = {})
MayStart(k) == "late_edit" \in env \/ \A p \in Working(k) : call[p].pc # "adding"

Goto(p, c) == call' = [call EXCEPT ![p] = c]

-----------------------------------------------------------------------------
(* Planning. *)

(* The status is read in a statement of its own, before the insert.        *)
AddItem(p, k) ==
    /\ MayBegin(p) /\ MayEdit(k)
    /\ status[k] = "draft"
    /\ Goto(p, [pc |-> "adding", pkg |-> k])
    /\ UNCHANGED <<phase, status, armed, planned, deleted, ref, row, issued, corrected,
                   program, env>>

NewItems(k) == ItemsOf(k) \ (planned \cup deleted)

First(S) == {i \in S : \A j \in S : CreatedAt[i] <= CreatedAt[j]}

(* The insert needs the package (a foreign key), in whatever status.       *)
InsertItem(p) ==
    /\ call[p].pc = "adding"
    /\ LET k == call[p].pkg IN
         IF status[k] = "deleted" \/ NewItems(k) = {} THEN UNCHANGED planned
         ELSE \E i \in First(NewItems(k)) : planned' = planned \cup {i}
    /\ Goto(p, Idle)
    /\ UNCHANGED <<phase, status, armed, deleted, ref, row, issued, corrected, program, env>>

(* Any status will do; the delete waits for a transaction on the item.     *)
DeleteItem(i) ==
    /\ MayEdit(PackageOf[i])
    /\ i \in planned
    /\ ItemFree(i, Procs)
    /\ planned' = planned \ {i} /\ deleted' = deleted \cup {i}
    /\ ref' = ref \ {i}
    /\ UNCHANGED <<phase, status, armed, row, issued, corrected, program, call, env>>

(* The items go with the package; its live rows do not.                    *)
DeletePackage(k) ==
    /\ MayEdit(k)
    /\ status[k] # "deleted"
    /\ PackageFree(k, Procs) /\ \A i \in ItemsOf(k) : ItemFree(i, Procs)
    /\ status' = [status EXCEPT ![k] = "deleted"]
    /\ planned' = planned \ ItemsOf(k)
    /\ deleted' = deleted \cup (planned \cap ItemsOf(k))
    /\ ref' = ref \ ItemsOf(k)
    /\ UNCHANGED <<phase, armed, row, issued, corrected, program, call, env>>

SetAuto(k, on) ==
    /\ k \in Armable
    /\ status[k] # "deleted" /\ armed[k] # on
    /\ PackageFree(k, Procs)
    /\ armed' = [armed EXCEPT ![k] = on]
    /\ UNCHANGED <<phase, status, planned, deleted, ref, row, issued, corrected, program, call, env>>

-----------------------------------------------------------------------------
(* Activation. *)

AutoDue_Early(k) == armed[k] /\ status[k] = "draft" /\ phase = "planning"   \* mutant

(* activate_event_package reads the status; auto_due_packages selects the  *)
(* armed drafts of an event that is near and not over.                     *)
AutoDue(k) == armed[k] /\ status[k] = "draft" /\ phase = "near"

BeginActivate(p, k) ==
    /\ MayBegin(p) /\ MayStart(k)
    /\ status[k] = "draft"
    /\ Goto(p, [pc |-> "list", pkg |-> k])
    /\ UNCHANGED <<phase, status, armed, planned, deleted, ref, row, issued, corrected,
                   program, env>>

AutoActivate(p, k) == AutoDue(k) /\ BeginActivate(p, k)

(* The items and their channels, read before the transaction begins.       *)
ListItems(p) ==
    /\ call[p].pc = "list"
    /\ Goto(p, [pc |-> "items", pkg |-> call[p].pkg, made |-> {}, refd |-> {},
                todo |-> planned \cap ItemsOf(call[p].pkg)])
    /\ UNCHANGED <<phase, status, armed, planned, deleted, ref, row, issued, corrected,
                   program, env>>

(* set_item_live_ref updates no row when the item was deleted.             *)
Referenced(i) == {i} \cap planned

(* One item: create and publish its row with the job that announces it,    *)
(* and store its live_ref.                                                 *)
Materialize(p) ==
    /\ call[p].pc = "items"
    /\ \E i \in First(call[p].todo) :
        /\ i \in Programs => ProgramFree(AirportOf[i], Others(p))
        /\ ItemFree(i, Others(p))
        /\ Goto(p, [call[p] EXCEPT !.todo = @ \ {i}, !.made = @ \cup {i},
                                   !.refd = @ \cup Referenced(i)])
    /\ UNCHANGED <<phase, status, armed, planned, deleted, ref, row, issued, corrected,
                   program, env>>

AllMade_Any(p) == TRUE   \* mutant: marked before every item is made

AllMade(p) == call[p].todo = {}

CanMark_Any(k) == status[k] # "deleted"   \* mutant: update .. where id = $1 alone

CanMark(k) == status[k] = "draft"

(* mark_package_activated: the update waits for another transaction on the *)
(* package, and the loser's Conflict rolls back every item it made.        *)
Mark(p) ==
    /\ call[p].pc = "items" /\ AllMade(p)
    /\ PackageFree(call[p].pkg, Others(p))
    /\ Goto(p, IF CanMark(call[p].pkg) THEN [call[p] EXCEPT !.pc = "commit"] ELSE Idle)
    /\ UNCHANGED <<phase, status, armed, planned, deleted, ref, row, issued, corrected,
                   program, env>>

MadeFor(p, a) == {i \in call[p].made \cap Programs : AirportOf[i] = a}

(* Everything the transaction made, with its references, becomes visible.  *)
Commit(p) ==
    /\ call[p].pc = "commit"
    /\ status' = [status EXCEPT ![call[p].pkg] = "activated"]
    /\ ref' = ref \cup call[p].refd
    /\ row' = [i \in Rows |-> IF i \in call[p].made THEN "live" ELSE row[i]]
    /\ issued' = [i \in Items |-> IF i \in call[p].made THEN issued[i] + 1 ELSE issued[i]]
    /\ program' \in {f \in [Airports -> Items \cup {NoItem, Staff}] : \A a \in Airports :
            IF MadeFor(p, a) = {} THEN f[a] = program[a] ELSE f[a] \in MadeFor(p, a)}
    /\ Goto(p, Idle)
    /\ UNCHANGED <<phase, armed, planned, deleted, corrected, env>>

-----------------------------------------------------------------------------
(* Deactivation. *)

BeginDeactivate(p, k) ==
    /\ MayBegin(p)
    /\ status[k] = "activated"
    /\ Goto(p, [pc |-> "list_refs", pkg |-> k])
    /\ UNCHANGED <<phase, status, armed, planned, deleted, ref, row, issued, corrected,
                   program, env>>

AutoEnded_Armed(k) == armed[k] /\ phase = "over"   \* mutant: armed packages only

(* ended_activated_packages selects the activated ones of an event over.   *)
AutoEnded(k) == phase = "over"

AutoArchive(p, k) == AutoEnded(k) /\ BeginDeactivate(p, k)

ListRefs(p) ==
    /\ call[p].pc = "list_refs"
    /\ Goto(p, [pc |-> "cancel", pkg |-> call[p].pkg, todo |-> ref \cap ItemsOf(call[p].pkg)])
    /\ UNCHANGED <<phase, status, armed, planned, deleted, ref, row, issued, corrected,
                   program, env>>

(* Ending row i, and whether its post is corrected: a restriction's only   *)
(* when it ends before the window that was posted.                         *)
Early(i) == KindOf[i] = "restriction" => phase # "over" \/ i \in OpenEnded

EndRow(i) == row' = [row EXCEPT ![i] = IF @ = "live" THEN "ended" ELSE @]

Correct_Again(i) ==    \* mutant: queued whether or not this call ended the row
    corrected' = [j \in Announced |->
        IF j = i /\ Early(i) THEN corrected[j] + 1 ELSE corrected[j]]

Correct(i) ==
    corrected' = [j \in Announced |->
        IF j = i /\ row[i] = "live" /\ Early(i) THEN corrected[j] + 1 ELSE corrected[j]]

(* One item of deactivate_package.  A program is deleted by its airport,   *)
(* whoever has set it since.                                               *)
CancelItem(p) ==
    /\ call[p].pc = "cancel"
    /\ \E i \in First(call[p].todo) :
        /\ Goto(p, [call[p] EXCEPT !.todo = @ \ {i}])
        /\ IF i \in Programs
           THEN /\ ProgramFree(AirportOf[i], Others(p))
                /\ program' = [program EXCEPT ![AirportOf[i]] = NoItem]
                /\ UNCHANGED <<row, corrected>>
           ELSE EndRow(i) /\ Correct(i) /\ UNCHANGED program
    /\ UNCHANGED <<phase, status, armed, planned, deleted, ref, issued, env>>

Archivable_Now(p) == TRUE   \* mutant: archived before its items are cancelled

Archivable(p) == call[p].todo = {}

(* mark_package_archived has no guard on the status.                       *)
Archive(p) ==
    /\ call[p].pc = "cancel" /\ Archivable(p)
    /\ LET k == call[p].pkg IN
        /\ PackageFree(k, Others(p)) /\ \A i \in ItemsOf(k) : ItemFree(i, Others(p))
        /\ status' = [status EXCEPT ![k] = IF @ = "deleted" THEN @ ELSE "archived"]
        /\ ref' = ref \ ItemsOf(k)
    /\ Goto(p, Idle)
    /\ UNCHANGED <<phase, armed, planned, deleted, row, issued, corrected, program, env>>

-----------------------------------------------------------------------------
(* The rest of the system. *)

(* An error, a crash or a lost connection: an open transaction is rolled   *)
(* back, what has committed stays.                                         *)
Fail(p) ==
    /\ "fail" \in env /\ call[p] # Idle
    /\ Goto(p, Idle)
    /\ UNCHANGED <<phase, status, armed, planned, deleted, ref, row, issued, corrected,
                   program, env>>

Recover ==
    /\ "recovers" \in env
    /\ env' = env \ {"fail", "recovers"}
    /\ UNCHANGED <<phase, status, armed, planned, deleted, ref, row, issued, corrected,
                   program, call>>

(* The TMU handlers: a rate program is set or deleted, a row is cancelled  *)
(* with its correction.                                                    *)
StaffProgram(a) ==
    /\ "by_hand" \in env
    /\ ProgramFree(a, Procs)
    /\ program' \in {[program EXCEPT ![a] = x] : x \in {NoItem, Staff}}
    /\ UNCHANGED <<phase, status, armed, planned, deleted, ref, row, issued, corrected,
                   call, env>>

StaffCancel(i) ==
    /\ "by_hand" \in env /\ row[i] = "live"
    /\ EndRow(i)
    /\ corrected' = [j \in Announced |-> IF j = i THEN corrected[j] + 1 ELSE corrected[j]]
    /\ UNCHANGED <<phase, status, armed, planned, deleted, ref, issued, program, call, env>>

(* run_cleanup: a row that is past its window expires, and an advisory's   *)
(* post is corrected; a planned program ends an hour after its event.      *)
Lapsed(i) == phase = "over" /\ row[i] = "live" /\ i \notin OpenEnded

Expire(i) ==
    /\ Lapsed(i)
    /\ EndRow(i)
    /\ Correct(i)
    /\ UNCHANGED <<phase, status, armed, planned, deleted, ref, issued, program, call, env>>

DropProgram(a) ==
    /\ phase = "over" /\ program[a] \in Items
    /\ ProgramFree(a, Procs)
    /\ program' = [program EXCEPT ![a] = NoItem]
    /\ UNCHANGED <<phase, status, armed, planned, deleted, ref, row, issued, corrected,
                   call, env>>

Tick ==
    /\ phase # "over"
    /\ phase' = IF phase = "planning" THEN "near" ELSE "over"
    /\ UNCHANGED <<status, armed, planned, deleted, ref, row, issued, corrected,
                   program, call, env>>

Steps(p) ==
    \/ InsertItem(p) \/ ListItems(p) \/ Materialize(p) \/ Mark(p) \/ Commit(p)
    \/ ListRefs(p) \/ CancelItem(p) \/ Archive(p)

Next ==
    \/ \E p \in Procs : Steps(p) \/ Fail(p)
    \/ \E p \in Procs, k \in Packages :
            AddItem(p, k) \/ BeginActivate(p, k) \/ AutoActivate(p, k)
            \/ BeginDeactivate(p, k) \/ AutoArchive(p, k)
    \/ \E i \in Items : DeleteItem(i)
    \/ \E k \in Packages : DeletePackage(k) \/ \E on \in BOOLEAN : SetAuto(k, on)
    \/ \E a \in Airports : StaffProgram(a) \/ DropProgram(a)
    \/ \E i \in Rows : StaffCancel(i) \/ Expire(i)
    \/ Recover \/ Tick

Spec == Init /\ [][Next]_vars

(* A call that runs goes on; the lifecycle job ticks every minute, however *)
(* busy the processes of the model are.                                    *)
Fairness ==
    /\ \A p \in Procs : WF_vars(Steps(p))
    /\ \A k \in Packages :
        /\ SF_vars(\E p \in Procs : AutoActivate(p, k))
        /\ SF_vars(\E p \in Procs : AutoArchive(p, k))
    /\ WF_vars(Recover)

FairSpec == Spec /\ Fairness

-----------------------------------------------------------------------------
(* Properties. *)

(* Types; and only items that exist carry a live_ref.                      *)
TypeOK ==
    /\ phase \in {"planning", "near", "over"}
    /\ status \in [Packages -> {"draft", "activated", "archived", "deleted"}]
    /\ armed \in [Packages -> BOOLEAN]
    /\ planned \subseteq Items /\ deleted \subseteq Items \ planned /\ ref \subseteq planned
    /\ row \in [Rows -> {"none", "live", "ended"}]
    /\ issued \in [Items -> Nat] /\ corrected \in [Announced -> Nat]
    /\ program \in [Airports -> Items \cup {NoItem, Staff}]
    /\ call \in [Procs -> Calls]
    /\ env \subseteq HazardKinds

(* However a click, a double click and the passes of several replicas      *)
(* overlap, fail and are retried, no item ever goes live twice: a second   *)
(* numbered advisory would belong to nothing that could withdraw it.       *)
IssuedOnce == \A i \in Items : issued[i] <= 1

LateEdits == "late_edit" \in env

(* A package goes live as a whole: nothing of a draft is live, whatever    *)
(* failed before; and everything an activated package plans was issued,    *)
(* where nobody adds items while it is activated.                          *)
AllOrNothing ==
    \A k \in Packages :
        /\ status[k] = "draft" => \A i \in ItemsOf(k) : issued[i] = 0
        /\ status[k] \in {"activated", "archived"} /\ ~LateEdits =>
            \A i \in ItemsOf(k) \cap planned : issued[i] = 1

(* An archived package has nothing left in force, whoever deactivated it   *)
(* and however often that failed midway, where no reference was deleted.   *)
Withdrawn ==
    \A k \in Packages : status[k] = "archived" /\ ~LateEdits =>
        /\ \A i \in ItemsOf(k) \cap Rows : row[i] # "live"
        /\ \A a \in Airports : program[a] \notin ItemsOf(k)

(* A post is corrected once at most, whether staff, two deactivations or   *)
(* the cleanup end its row, and it is corrected when the row ends before   *)
(* its posted window; an advisory's always.                                *)
CorrectedOnce ==
    \A i \in Announced :
        /\ corrected[i] <= 1
        /\ corrected[i] = 1 => row[i] = "ended"
        /\ row[i] = "ended" /\ (phase # "over" \/ KindOf[i] = "advisory" \/ i \in OpenEnded) =>
              corrected[i] = 1

Failing == "fail" \in env

(* An armed draft is activated once its event is near, unless it is        *)
(* disarmed, deleted or overtaken by the end of the event.                 *)
ArmedGoesLive ==
    \A k \in Packages :
        (armed[k] /\ status[k] = "draft" /\ phase = "near" /\ ~Failing)
            ~> (status[k] # "draft" \/ ~armed[k] \/ phase = "over")

(* An activated package is archived after its event, failures that stop    *)
(* and deactivations that were left half done notwithstanding.             *)
EndedArchived ==
    \A k \in Packages :
        (status[k] = "activated" /\ phase = "over" /\ ~Failing)
            ~> status[k] \in {"archived", "deleted"}

(* What events.rs says of a deactivation, that it cancels exactly the live *)
(* rows the package created: the airport of an activated package whose     *)
(* items nobody withdraws keeps a rate program.                            *)
ProgramsStand ==
    \A i \in Programs :
        (i \in ref /\ phase # "over" /\ Working(PackageOf[i]) = {}) =>
            program[AirportOf[i]] # NoItem
=============================================================================
