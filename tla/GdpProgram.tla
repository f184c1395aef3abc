----------------------------- MODULE GdpProgram -----------------------------
(***************************************************************************)
(* The life of one Ground Delay Program and of the advisories generated    *)
(* from it (handlers/gdp.rs, repos/gdp.rs, the advisory part of            *)
(* handlers/tmu.rs and repos/tmu.rs): staff draft, revise, publish,        *)
(* compress, cancel and delete it while the cleanup pass expires it.       *)
(*                                                                         *)
(* A handler reads the program, runs ration-by-schedule on the feed, and   *)
(* only then opens its transaction, so what it writes may be computed from *)
(* parameters that another handler has replaced.  Under READ COMMITTED a   *)
(* statement that deletes slots or cancels advisories works on the rows it *)
(* saw when it began and waits for those another transaction holds; hence  *)
(* its two steps.  A run of the engine is a number: RationBySchedule says  *)
(* what it computes, here it matters which parameters it was given.        *)
(* lock_slot, unlock_slot and the pruning of history are left out.         *)
(***************************************************************************)
EXTENDS Integers, FiniteSets

CONSTANTS
    Procs,         \* handler calls that may run at the same time
    VersionBound,  \* bound: sets of parameters a behaviour gives the program
    RunBound,      \* bound: runs of the engine
    Environments   \* what may happen in a behaviour: subsets of Conditions

Conditions == {"channel",  \* the advisories' facility has a Discord channel
               "overlap",  \* handlers of the program overlap
               "staff",    \* staff cancel or delete its advisories by hand
               "fail"}     \* a handler fails after its first write

ASSUME GdpAssumption ==
    /\ IsFiniteSet(Procs)
    /\ VersionBound \in Nat \ {0} /\ RunBound \in Nat
    /\ Environments \subseteq SUBSET Conditions

VARIABLES
    gdp,         \* the row of tmu.gdp: status, parameters, published_at set
    slots,       \* runs whose control times are rows of tmu.gdp_slot
    ran,         \* history: the parameters each run was given, 0 if not run
    advisories,  \* per run: the advisory generated with it
    calls,       \* per handler call: its control state and its locks
    sweep,       \* where the cleanup pass is
    env          \* the conditions of this behaviour

vars == <<gdp, slots, ran, advisories, calls, sweep, env>>

Runs   == 1..RunBound
NoCall == [pc |-> "idle", kind |-> "none", run |-> 0, rows |-> FALSE,
           seen |-> {}, dropped |-> {}, retired |-> {}]
NoAdvisory == [status |-> "none", version |-> 0, posted |-> FALSE,
               corrected |-> FALSE, by |-> "nobody"]

Idle(p)  == calls[p].pc = "idle"
AllIdle  == \A p \in Procs : Idle(p)
MayBegin == "overlap" \in env \/ AllIdle

(* A publish has updated the program's row and not committed yet.          *)
RowLocked == \E p \in Procs : calls[p].kind = "publish" /\ calls[p].pc \notin {"idle", "ready"}

Retirable_Drafts(r) == advisories[r].status = "draft"   \* mutant

Retirable(r) == advisories[r].status \in {"draft", "published"}
Live == {r \in Runs : Retirable(r)}

(* An advisory whose row an open transaction has cancelled.                *)
AdvisoryLocked(r) == \E p \in Procs : r \in calls[p].retired

Ended == gdp.status \in {"cancelled", "expired"}

Init ==
    /\ gdp = [status |-> "none", version |-> 0, published |-> FALSE]
    /\ slots = {}
    /\ ran = [r \in Runs |-> 0]
    /\ advisories = [r \in Runs |-> NoAdvisory]
    /\ calls = [p \in Procs |-> NoCall]
    /\ sweep = "idle"
    /\ env \in Environments

-----------------------------------------------------------------------------
(* Handlers of the program. *)

CreateGdp ==
    /\ gdp.status = "none"
    /\ gdp' = [gdp EXCEPT !.status = "draft", !.version = 1]
    /\ UNCHANGED <<slots, ran, advisories, calls, sweep, env>>

(* revise_gdp: the new parameters are a statement of their own.            *)
Revise(p) ==
    /\ Idle(p) /\ MayBegin /\ ~RowLocked
    /\ gdp.status \in {"draft", "published"}
    /\ gdp.version < VersionBound
    /\ gdp' = [gdp EXCEPT !.version = @ + 1]
    /\ calls' = [calls EXCEPT ![p].pc = "reread", ![p].kind = "revise"]
    /\ UNCHANGED <<slots, ran, advisories, sweep, env>>

(* The engine runs on the parameters just read, outside any transaction;   *)
(* rows: whether it controls any flight.                                   *)
RunEngine(p, kind, rows) ==
    \E r \in Runs :
        /\ ran[r] = 0 /\ \A q \in 1..(r - 1) : ran[q] # 0
        /\ ran' = [ran EXCEPT ![r] = gdp.version]
        /\ calls' = [calls EXCEPT ![p] =
                [NoCall EXCEPT !.pc = IF kind = "publish" THEN "ready" ELSE "slots",
                               !.kind = kind, !.run = r, !.rows = rows]]

Freezes_Never == FALSE   \* mutant: a revise changes the row alone

(* Only a live program is rationed again.                                  *)
Freezes == gdp.status = "published"

Reread(p) ==
    /\ calls[p].pc = "reread"
    /\ \/ Freezes /\ \E rows \in BOOLEAN : RunEngine(p, "revise", rows)
       \/ ~Freezes /\ calls' = [calls EXCEPT ![p] = NoCall] /\ UNCHANGED ran
    /\ UNCHANGED <<gdp, slots, advisories, sweep, env>>

(* publish_gdp reads the draft and runs the engine ...                     *)
ReadDraft(p) ==
    /\ Idle(p) /\ MayBegin
    /\ gdp.status = "draft"
    /\ \E rows \in BOOLEAN : RunEngine(p, "publish", rows)
    /\ UNCHANGED <<gdp, slots, advisories, sweep, env>>

CanPublish_Read == TRUE   \* mutant: trusts the draft it read before the run

CanPublish == gdp.status = "draft"

(* ... then updates the row where it is still a draft, or conflicts.       *)
PublishRow(p) ==
    /\ calls[p].pc = "ready" /\ ~RowLocked
    /\ calls' = [calls EXCEPT ![p] =
            IF CanPublish THEN [@ EXCEPT !.pc = "slots"] ELSE NoCall]
    /\ UNCHANGED <<gdp, slots, ran, advisories, sweep, env>>

(* compress_gdp reads a live program and its frozen rows, and runs.        *)
ReadFrozen(p) ==
    /\ Idle(p) /\ MayBegin
    /\ gdp.status = "published"
    /\ \E rows \in IF slots = {} THEN {FALSE} ELSE BOOLEAN : RunEngine(p, "compress", rows)
    /\ UNCHANGED <<gdp, slots, advisories, sweep, env>>

(* replace_slots_in deletes the rows there were when the statement began,  *)
(* waiting for those another transaction is deleting ...                   *)
SeeSlots(p) ==
    /\ calls[p].pc = "slots"
    /\ calls' = [calls EXCEPT ![p].pc = "drop", ![p].seen = slots]
    /\ UNCHANGED <<gdp, slots, ran, advisories, sweep, env>>

(* ... and inserts its own; a callsign that another transaction has        *)
(* inserted meanwhile breaks the primary key: Fail.  A revise goes on to   *)
(* cancel the program's advisory.                                          *)
ReplaceSlots(p) ==
    /\ calls[p].pc = "drop"
    /\ \A q \in Procs \ {p} : calls[q].dropped \cap calls[p].seen \cap slots = {}
    /\ calls' = [calls EXCEPT ![p].pc = IF calls[p].kind = "revise" THEN "live" ELSE "commit",
                              ![p].dropped = calls[p].seen \cap slots, ![p].seen = {}]
    /\ UNCHANGED <<gdp, slots, ran, advisories, sweep, env>>

(* cancel_program_advisory_tx, the same way.                               *)
SeeLive(p) ==
    /\ calls[p].pc = "live"
    /\ calls' = [calls EXCEPT ![p].pc = "retire", ![p].seen = Live]
    /\ UNCHANGED <<gdp, slots, ran, advisories, sweep, env>>

Cancelled(a, who) == [a EXCEPT !.status = "cancelled", !.by = who]

CancelLive_Now(p) ==   \* mutant: not part of the transaction
    /\ calls[p].pc = "retire"
    /\ advisories' = [r \in Runs |->
            IF r \in calls[p].seen \cap Live THEN Cancelled(advisories[r], "revise") ELSE advisories[r]]
    /\ calls' = [calls EXCEPT ![p].pc = "commit", ![p].seen = {}]
    /\ UNCHANGED <<gdp, slots, ran, sweep, env>>

CancelLive(p) ==
    /\ calls[p].pc = "retire"
    /\ \A r \in calls[p].seen : ~AdvisoryLocked(r)
    /\ calls' = [calls EXCEPT ![p].pc = "commit", ![p].retired = calls[p].seen \cap Live,
                              ![p].seen = {}]
    /\ UNCHANGED <<gdp, slots, ran, advisories, sweep, env>>

Published(g) == [g EXCEPT !.status = "published", !.published = TRUE]

(* The advisory of p's run describes the program as re-read, by revise     *)
(* before its transaction and by publish inside it.                        *)
Generated(p) ==
    [NoAdvisory EXCEPT !.status = "draft",
        !.version = IF calls[p].kind = "publish" THEN gdp.version ELSE ran[calls[p].run]]

(* generate_gdp_advisory and the commit.                                   *)
Commit(p) ==
    /\ calls[p].pc = "commit"
    /\ slots' = (slots \ calls[p].dropped) \cup (IF calls[p].rows THEN {calls[p].run} ELSE {})
    /\ advisories' = [r \in Runs |->
            CASE r \in calls[p].retired -> Cancelled(advisories[r], "revise")
              [] r = calls[p].run /\ calls[p].kind # "compress" -> Generated(p)
              [] OTHER -> advisories[r]]
    /\ gdp' = IF calls[p].kind = "publish" THEN Published(gdp) ELSE gdp
    /\ calls' = [calls EXCEPT ![p] = NoCall]
    /\ UNCHANGED <<ran, sweep, env>>

(* A statement fails or the server stops: the open transaction is gone,    *)
(* the parameters a revise wrote before it stay.                           *)
Fail(p) ==
    /\ "fail" \in env
    /\ ~Idle(p)
    /\ calls' = [calls EXCEPT ![p] = NoCall]
    /\ UNCHANGED <<gdp, slots, ran, advisories, sweep, env>>

CancelGdp ==
    /\ MayBegin /\ ~RowLocked
    /\ gdp.status \in {"draft", "published"}
    /\ gdp' = [gdp EXCEPT !.status = "cancelled"]
    /\ UNCHANGED <<slots, ran, advisories, calls, sweep, env>>

(* delete_or_retain: what was never published goes, the rest is kept,      *)
(* cancelled if it was live.                                               *)
DeleteGdp ==
    /\ MayBegin /\ ~RowLocked
    /\ gdp.status \in {"draft", "published", "cancelled", "expired"}
    /\ gdp' = [gdp EXCEPT !.status =
            IF ~gdp.published THEN "deleted" ELSE IF Ended THEN @ ELSE "cancelled"]
    /\ slots' = IF gdp.published THEN slots ELSE {}
    /\ UNCHANGED <<ran, advisories, calls, sweep, env>>

-----------------------------------------------------------------------------
(* Handlers of an advisory. *)

(* The post is enqueued if the facility has an advisory channel.           *)
PublishAdvisory(r) ==
    /\ advisories[r].status = "draft" /\ ~AdvisoryLocked(r)
    /\ advisories' = [advisories EXCEPT ![r].status = "published",
                                        ![r].posted = "channel" \in env]
    /\ UNCHANGED <<gdp, slots, ran, calls, sweep, env>>

(* The correction goes where the post went, or where it would go now.      *)
CancelAdvisory(r) ==
    /\ "staff" \in env
    /\ Retirable(r) /\ ~AdvisoryLocked(r)
    /\ advisories' = [advisories EXCEPT ![r] =
            [Cancelled(advisories[r], "staff") EXCEPT
                !.corrected = advisories[r].posted \/ "channel" \in env]]
    /\ UNCHANGED <<gdp, slots, ran, calls, sweep, env>>

DeleteAdvisory(r) ==
    /\ "staff" \in env
    /\ advisories[r].status = "draft" /\ ~AdvisoryLocked(r)
    /\ advisories' = [advisories EXCEPT ![r] = NoAdvisory]
    /\ UNCHANGED <<gdp, slots, ran, calls, sweep, env>>

-----------------------------------------------------------------------------
(* run_cleanup: statements of their own, and one transaction at the end. *)

(* The window may have passed; publishing holds the row.                   *)
SweepExpire ==
    /\ sweep = "idle" /\ ~RowLocked
    /\ \/ gdp.status \in {"draft", "published"} /\ gdp' = [gdp EXCEPT !.status = "expired"]
       \/ UNCHANGED gdp
    /\ sweep' = "purge"
    /\ UNCHANGED <<slots, ran, advisories, calls, env>>

(* An hour later, what was never published is deleted.                     *)
SweepPurge ==
    /\ sweep = "purge" /\ ~RowLocked
    /\ \/ /\ Ended /\ ~gdp.published
          /\ gdp' = [gdp EXCEPT !.status = "deleted"]
          /\ slots' = {}
       \/ UNCHANGED <<gdp, slots>>
    /\ sweep' = "retire"
    /\ UNCHANGED <<ran, advisories, calls, env>>

(* The advisories of an ended program are cancelled, the posted ones with  *)
(* their correction in the same transaction.                               *)
SweepRetire ==
    /\ sweep = "retire"
    /\ Ended => \A r \in Live : ~AdvisoryLocked(r)
    /\ advisories' = [r \in Runs |->
            IF Ended /\ Retirable(r)
            THEN [Cancelled(advisories[r], "cleanup") EXCEPT !.corrected = advisories[r].posted]
            ELSE advisories[r]]
    /\ sweep' = "idle"
    /\ UNCHANGED <<gdp, slots, ran, calls, env>>

-----------------------------------------------------------------------------
Step(p) ==
    \/ Reread(p) \/ PublishRow(p) \/ SeeSlots(p) \/ ReplaceSlots(p)
    \/ SeeLive(p) \/ CancelLive(p) \/ Commit(p)

Sweep == SweepExpire \/ SweepPurge \/ SweepRetire

Next ==
    \/ CreateGdp
    \/ \E p \in Procs : Revise(p) \/ ReadDraft(p) \/ ReadFrozen(p) \/ Step(p) \/ Fail(p)
    \/ CancelGdp
    \/ DeleteGdp
    \/ \E r \in Runs : PublishAdvisory(r) \/ CancelAdvisory(r) \/ DeleteAdvisory(r)
    \/ Sweep

(* A request that the server works on goes on; the cleanup pass repeats.   *)
Fairness == WF_vars(Sweep) /\ \A p \in Procs : WF_vars(Step(p))

Spec == Init /\ [][Next]_vars /\ Fairness

-----------------------------------------------------------------------------
(* Properties. *)

GdpRecords ==
    [status : {"none", "draft", "published", "cancelled", "expired", "deleted"},
     version : 0..VersionBound, published : BOOLEAN]

CallRecords ==
    [pc : {"idle", "reread", "ready", "slots", "drop", "live", "retire", "commit"},
     kind : {"none", "revise", "publish", "compress"}, run : 0..RunBound, rows : BOOLEAN,
     seen : SUBSET Runs, dropped : SUBSET Runs, retired : SUBSET Runs]

AdvisoryRecords ==
    [status : {"none", "draft", "published", "cancelled"}, version : 0..VersionBound,
     posted : BOOLEAN, corrected : BOOLEAN, by : {"nobody", "revise", "staff", "cleanup"}]

(* Types; a published program carries its publish time.                    *)
TypeOK ==
    /\ gdp \in GdpRecords
    /\ gdp.status = "published" => gdp.published
    /\ slots \subseteq Runs
    /\ ran \in [Runs -> 0..VersionBound]
    /\ advisories \in [Runs -> AdvisoryRecords]
    /\ calls \in [Procs -> CallRecords]
    /\ sweep \in {"idle", "purge", "retire"}
    /\ env \in Environments

(* Advisories that are up, as drafts or published.                         *)
Standing == {r \in Runs : advisories[r].status \in {"draft", "published"}}

(* An advisory is only ever generated for a program that was published     *)
(* (repos/tmu.rs:796 relies on it to delete the others safely).            *)
OnlyForPublished == \A r \in Runs : advisories[r].status # "none" => gdp.published

(* handlers/gdp.rs:494 "a program is never left with no live advisory",    *)
(* unless staff cancel it by hand: whatever fails and however revises      *)
(* overlap.                                                                *)
AdvisoryStands == "staff" \notin env => (gdp.status = "published" => Standing # {})

(* repos/tmu.rs:1097 "there is only ever one live advisory per program",   *)
(* when the handlers of the program take turns.                            *)
OneLiveAdvisory == "overlap" \notin env => Cardinality(Standing) <= 1

(* What is frozen and announced was computed from the program's current    *)
(* parameters (handlers/gdp.rs:229 "with the program's current params"),   *)
(* whenever no handler is under way and none failed half-way ...           *)
ParametersCurrent ==
    (AllIdle /\ gdp.status = "published" /\ "fail" \notin env) =>
        /\ \A r \in slots : ran[r] = gdp.version
        /\ \A r \in Standing : advisories[r].version = gdp.version

(* ... if the handlers take turns.                                         *)
TurnsKeepParameters == "overlap" \notin env => ParametersCurrent

(* A cancelled or expired program never comes back, not even through a     *)
(* publish or a revise that read it before.                                *)
NeverRevived == [][Ended => gdp'.status \in {gdp.status, "deleted"}]_vars

(* Once a program has ended its advisories are cancelled for good, the one *)
(* a revise under way still generates included.                            *)
EndedRetired == Ended ~> [](Standing = {})
=============================================================================
