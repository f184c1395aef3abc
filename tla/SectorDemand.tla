---------------------------- MODULE SectorDemand ----------------------------
(***************************************************************************)
(* The predicted demand of one ARTCC's sectors, as one replica answers it  *)
(* from its caches (handlers/sector_demand.rs, sector_demand_cache.rs).    *)
(*                                                                         *)
(* Three tables are kept in memory: the sector volumes, the limits and the *)
(* consolidations.  Each has a job that reloads it, in two steps (the rows *)
(* are read, then stored); a write of limits or consolidations reloads its *)
(* table too.  A request reads its inputs one after the other, then waits  *)
(* for the ARTCC's slot.  Whoever holds the slot answers from the entry if *)
(* everything it was projected from is what the request read, and projects *)
(* otherwise, in a task that outlives the request.                         *)
(***************************************************************************)
EXTENDS SectorConsolidations, Integers, Sequences, SequencesExt

CONSTANTS
    Requests,      \* viewers of the ARTCC, each with one request at a time
    Setters,       \* calls that set the sector's limit
    OtherReplica,  \* the savers and setters another replica serves, if there is one
    Limits, Default,   \* limits a call may ask for; the one no row is kept for
    PublishBound,  \* bound: VATSIM publishes
    ReloadBound,   \* bound: reloads of the sector volumes
    None

Conditions == {"cold",     \* the replica has just started
               "read",     \* the ARTCC is being viewed
               "feed",     \* VATSIM publishes move, and a poll may answer an old one
               "wheels",   \* releases, EDCTs and control times are written
               "save",     \* sectors are consolidated, in saves and batches
               "release",  \* single sectors are given their own row
               "limit",    \* limits are set
               "volumes",  \* the sector volumes are reloaded
               "replica",  \* some calls are handled by another replica
               "overlap",  \* reloads of a table overlap
               "drop",     \* viewers go away while they wait
               "fail"}     \* statements and projections fail

ASSUME DemandAssumption ==
    /\ Default \in Limits /\ Limits \subseteq Nat \ {0}
    /\ PublishBound \in Nat \ {0} /\ ReloadBound \in Nat \ {0}
    /\ \A e \in Environments : e \subseteq Conditions

Tables == {"sectors", "limits", "consolidations"}

ASSUME ReaderAssumption ==
    Savers \cap Setters = {} /\ Savers \cap Tables = {} /\ Setters \cap Tables = {}

VARIABLES
    limit,     \* the sector's limit as stored (Default: no row)
    sets,      \* per setter: the call under way
    cache,     \* the tables in memory; of the volumes, which load they are
    loaded,    \* airspace_sectors_loaded
    reading,   \* per job and call: the table it has read and not stored, or None
    snapshot,  \* the publish in the feed, 0 before the first poll
    wheels,    \* the locked wheels-up times in the database
    asked,     \* per viewer: its request
    queue,     \* the requests waiting for the slot
    task,      \* the projection under way: its inputs and its requester
    entry,     \* what the slot holds: inputs of the last projection, limits of the last rendering
    projected  \* per publish: how often it was projected, up to 2

tableVars == <<rows, saves, limit, sets>>
cacheVars == <<cache, loaded, reading>>
feedVars  == <<snapshot, wheels>>
slotVars  == <<asked, queue, task, entry, projected>>
vars      == <<tableVars, cacheVars, feedVars, slotVars, env>>

\* What a projection is computed from, and the limits its rows are judged by.
Inputs == [publish : 0..PublishBound, sectors : 0..ReloadBound, wheels : BOOLEAN,
           consolidations : Arrangements, limits : Limits]

NoInputs == [publish |-> 0, sectors |-> 0, wheels |-> FALSE,
             consolidations |-> NoRows, limits |-> Default]

ASSUME NoneAssumption ==
    None \notin Inputs /\ None \notin [for : Requests, in : Inputs]

Away   == [pc |-> "away", loaded |-> FALSE, in |-> NoInputs, answer |-> None]
NotSet == [pc |-> "idle", limit |-> Default]

RequestSteps == {"away", "table", "feed", "wheels", "config", "wait", "projecting",
                 "ready", "pending", "no_sector_data", "error"}

Warm == "cold" \notin env

Elsewhere(s) == "replica" \in env /\ s \in OtherReplica

\* The replica has been running, or has just started and read nothing.
Init ==
    /\ env \in Environments
    /\ ConsolidationsInit
    /\ limit \in IF Warm THEN {Default} ELSE Limits
    /\ sets = [s \in Setters |-> NotSet]
    /\ cache = [sectors |-> IF Warm THEN 1 ELSE 0, limits |-> Default,
                consolidations |-> IF Warm THEN rows ELSE NoRows]
    /\ loaded = Warm
    /\ reading = [p \in Tables \cup Savers \cup Setters |-> None]
    /\ snapshot = IF Warm THEN 1 ELSE 0
    /\ wheels = FALSE
    /\ asked = [r \in Requests |-> Away]
    /\ queue = << >>
    /\ task = None
    /\ entry = None
    /\ projected = [p \in 0..PublishBound |-> 0]

------------------------------------------------------------------------------
(* Tables and their reloads. *)

Stored(t) == CASE t = "limits" -> limit
               [] t = "consolidations" -> rows
               [] t = "sectors" -> cache.sectors + 1

Calls(t) == CASE t = "limits" -> Setters [] t = "consolidations" -> Savers [] t = "sectors" -> {}

\* Where reloads do not overlap, nobody has a table in hand when somebody
\* writes it or begins to read it.
Alone(t) ==
    "overlap" \notin env =>
    /\ reading[t] = None
    /\ \A s \in Setters : t = "limits" => sets[s].pc \notin {"load", "store"}
    /\ \A s \in Savers : t = "consolidations" => saves[s].pc \notin {"load", "store"}

\* spawn_sector_limits_refresh and its like: a job reads its table ...
RefreshLoad(t) ==
    /\ reading[t] = None
    /\ Alone(t)
    /\ t = "sectors" => /\ cache.sectors < ReloadBound /\ loaded = (cache.sectors > 0)
                        /\ loaded => "volumes" \in env
    /\ reading' = [reading EXCEPT ![t] = Stored(t)]
    /\ UNCHANGED <<tableVars, cache, loaded, feedVars, slotVars, env>>

\* mutant: the job leaves a table that was loaded once as it is
Reloaded_Once(t) == IF cache[t] # NoInputs[t] THEN cache[t] ELSE reading[t]

Reloaded(t) == reading[t]

\* ... and stores it, whatever was stored since.
RefreshStore(t) ==
    /\ reading[t] # None
    /\ cache' = [cache EXCEPT ![t] = Reloaded(t)]
    /\ reading' = [reading EXCEPT ![t] = None]
    /\ UNCHANGED <<tableVars, loaded, feedVars, slotVars, env>>

TableStored == cache.sectors > 0

\* spawn_airspace_sectors_refresh sets the flag after the table.
MarkLoaded ==
    /\ ~loaded /\ TableStored
    /\ loaded' = TRUE
    /\ UNCHANGED <<tableVars, cache, reading, feedVars, slotVars, env>>

\* republish and set_sector_limit: a call reloads what it has written.
CallLoad(t, s, pc) ==
    /\ pc = "load" /\ ~Elsewhere(s)
    /\ reading' = [reading EXCEPT ![s] = Stored(t)]
    /\ UNCHANGED <<rows, limit, cache, loaded, feedVars, slotVars, env>>

CallStore(t, s, pc) ==
    /\ pc = "store"
    /\ cache' = [cache EXCEPT ![t] = reading[s]]
    /\ reading' = [reading EXCEPT ![s] = None]
    /\ UNCHANGED <<rows, limit, loaded, feedVars, slotVars, env>>

\* Another replica reloads a cache of its own; or the load fails, and the
\* call answers 500 for what it has written.
NoReload(s) == Elsewhere(s) \/ "fail" \in env

CallLeaves(s, pc) ==
    /\ pc = "load" /\ NoReload(s)
    /\ UNCHANGED <<rows, limit, cacheVars, feedVars, slotVars, env>>

\* consolidate_sector, consolidate_sectors and release_sector, to the answer
Save(s) ==
    \/ /\ \/ "save" \in env /\ BeginBatch(s)
          \/ AdvisoryLock(s) \/ ReleaseIn(s) \/ Resolve(s) \/ Upsert(s) \/ Move(s) \/ Rollback(s)
          \/ Alone("consolidations") /\ (Commit(s) \/ Release(s))
       /\ UNCHANGED <<limit, sets, cacheVars, feedVars, slotVars>>
    \/ /\ CallLoad("consolidations", s, saves[s].pc)
       /\ saves' = [saves EXCEPT ![s].pc = "store"]
       /\ UNCHANGED sets
    \/ /\ CallStore("consolidations", s, saves[s].pc) \/ CallLeaves(s, saves[s].pc)
       /\ saves' = [saves EXCEPT ![s] = Idle]
       /\ UNCHANGED sets

------------------------------------------------------------------------------
(* set_sector_limit *)

BeginSet(s) ==
    /\ "limit" \in env
    /\ sets[s].pc = "idle"
    /\ \E l \in Limits : sets' = [sets EXCEPT ![s] = [pc |-> "compare", limit |-> l]]

Unchanged(s) == sets[s].limit = limit

\* The stored value is a no-op: nothing is written and nothing reloaded.
Compare(s) ==
    /\ sets[s].pc = "compare"
    /\ sets' = [sets EXCEPT ![s] = IF Unchanged(s) THEN NotSet ELSE [@ EXCEPT !.pc = "write"]]

\* An upsert, or a delete for the default.
WriteLimit(s) ==
    /\ sets[s].pc = "write"
    /\ Alone("limits")
    /\ limit' = sets[s].limit
    /\ sets' = [sets EXCEPT ![s].pc = "load"]

Set(s) ==
    \/ /\ BeginSet(s) \/ Compare(s)
       /\ UNCHANGED <<rows, saves, limit, cacheVars, feedVars, slotVars, env>>
    \/ /\ WriteLimit(s)
       /\ UNCHANGED <<rows, saves, cacheVars, feedVars, slotVars, env>>
    \/ /\ CallLoad("limits", s, sets[s].pc)
       /\ sets' = [sets EXCEPT ![s].pc = "store"]
       /\ UNCHANGED saves
    \/ /\ CallStore("limits", s, sets[s].pc) \/ CallLeaves(s, sets[s].pc)
       /\ sets' = [sets EXCEPT ![s] = NotSet]
       /\ UNCHANGED saves

------------------------------------------------------------------------------
(* What moves by itself. *)

\* A poll that repeats a publish changes nothing a projection reads.
Poll ==
    /\ snapshot = 0 \/ "feed" \in env
    /\ snapshot < PublishBound
    /\ snapshot' = snapshot + 1
    /\ UNCHANGED <<tableVars, cacheVars, wheels, slotVars, env>>

\* A release, CFR, GDP or FCA write.
WheelsMove ==
    /\ "wheels" \in env
    /\ wheels' = ~wheels
    /\ UNCHANGED <<tableVars, cacheVars, snapshot, slotVars, env>>

------------------------------------------------------------------------------
(* get_sector_demand *)

Step(r, pc) == asked' = [asked EXCEPT ![r].pc = pc]

\* The flag first, the table after it.
Ask(r) ==
    /\ "read" \in env
    /\ asked[r].pc = "away"
    /\ asked' = [asked EXCEPT ![r].pc = "table", ![r].loaded = loaded]
    /\ UNCHANGED queue

ReadTable(r) ==
    /\ asked[r].pc = "table"
    /\ asked' = [asked EXCEPT ![r].pc = CASE ~asked[r].loaded -> "pending"
                                          [] asked[r].loaded /\ cache.sectors = 0 -> "no_sector_data"
                                          [] OTHER -> "feed",
                              ![r].in.sectors = cache.sectors]
    /\ UNCHANGED queue

ReadFeed(r) ==
    /\ asked[r].pc = "feed"
    /\ asked' = [asked EXCEPT ![r].pc = IF snapshot = 0 THEN "pending" ELSE "wheels",
                              ![r].in.publish = snapshot]
    /\ UNCHANGED queue

\* locked_wheels_up: a query, while everything read before may move on.
ReadWheels(r) ==
    /\ asked[r].pc = "wheels"
    /\ asked' = [asked EXCEPT ![r].pc = "config", ![r].in.wheels = wheels]
    /\ UNCHANGED queue

ReadConfig(r) ==
    /\ asked[r].pc = "config"
    /\ asked' = [asked EXCEPT ![r].pc = "wait", ![r].in.limits = cache.limits,
                              ![r].in.consolidations = cache.consolidations]
    /\ queue' = Append(queue, r)

\* The rows are drawn and the viewer asks again, or gets an error.
Answered(r) == asked[r].pc \in {"ready", "pending", "no_sector_data", "error"}

Done(r) ==
    /\ Answered(r)
    /\ asked' = [asked EXCEPT ![r] = Away]
    /\ UNCHANGED queue

Read(r) ==
    /\ Ask(r) \/ ReadTable(r) \/ ReadFeed(r) \/ ReadWheels(r) \/ ReadConfig(r) \/ Done(r)
    /\ UNCHANGED <<tableVars, cacheVars, feedVars, task, entry, projected, env>>

------------------------------------------------------------------------------
(* SectorDemandCache::demand *)

\* mutant: the wheels-up times are not part of the key
Matches_AnyWheels(in)  == entry # None /\ [entry EXCEPT !.limits = in.limits, !.wheels = in.wheels] = in

\* Everything but the limits.
Matches(in) == entry # None /\ [entry EXCEPT !.limits = in.limits] = in

\* The first in line has the slot.  The entry answers it, its rows judged
\* against the request's limits, or a projection starts.
Serve(r) ==
    LET in == asked[r].in
        twice == IF projected[in.publish] = 0 THEN 1 ELSE 2
    IN  /\ task = None
        /\ queue # << >> /\ Head(queue) = r /\ asked[r].pc = "wait"
        /\ queue' = Tail(queue)
        /\ \/ /\ Matches(in)
              /\ entry' = [entry EXCEPT !.limits = in.limits]
              /\ asked' = [asked EXCEPT ![r].pc = "ready", ![r].answer = entry']
              /\ UNCHANGED <<task, projected>>
           \/ /\ ~Matches(in)
              /\ asked' = [asked EXCEPT ![r].pc = "projecting"]
              /\ task' = [for |-> r, in |-> in]
              /\ projected' = [projected EXCEPT ![in.publish] = twice]
              /\ UNCHANGED entry
        /\ UNCHANGED <<tableVars, cacheVars, feedVars, env>>

Replaces(in) == entry = None \/ entry.publish <= in.publish

\* What the requester gets, if it still waits.
Requester(pc) ==
    asked' = IF asked[task.for].pc = "projecting"
             THEN [asked EXCEPT ![task.for].pc = pc, ![task.for].answer = task.in]
             ELSE asked

Projected ==
    /\ task # None
    /\ entry' = IF Replaces(task.in) THEN task.in ELSE entry
    /\ Requester("ready")
    /\ task' = None
    /\ UNCHANGED <<tableVars, cacheVars, feedVars, queue, projected, env>>

ProjectionFails ==
    /\ "fail" \in env /\ task # None
    /\ Requester("error")
    /\ task' = None
    /\ UNCHANGED <<tableVars, cacheVars, feedVars, queue, entry, projected, env>>

Kept_Dropped(r) == IF task # None /\ task.for = r THEN None ELSE task    \* mutant: dropped with its request

\* The task owns the slot: its request's end does not end it.
Kept(r) == task

InLine_Still(r) == queue    \* mutant: a request that is gone keeps its place

InLine(r) == RemoveFirst(queue, r)

\* The viewer goes away.
Drop(r) ==
    /\ "drop" \in env
    /\ asked[r].pc \in {"wait", "projecting"}
    /\ asked' = [asked EXCEPT ![r] = Away]
    /\ queue' = InLine(r)
    /\ task' = Kept(r)
    /\ UNCHANGED <<tableVars, cacheVars, feedVars, entry, projected, env>>

------------------------------------------------------------------------------
Next ==
    \/ \E t \in Tables : RefreshLoad(t) \/ RefreshStore(t)
    \/ MarkLoaded
    \/ \E s \in Savers : Save(s)
    \/ \E s \in Setters : Set(s)
    \/ Poll
    \/ WheelsMove
    \/ \E r \in Requests : Read(r) \/ Serve(r) \/ Drop(r)
    \/ Projected
    \/ ProjectionFails

Spec == Init /\ [][Next]_vars

(* The jobs run on their intervals, a call goes on once it has begun, the  *)
(* runtime hands the slot on and ends what it computes.  Nobody has to     *)
(* ask, write, fail or go away.                                            *)
Fairness ==
    /\ \A t \in Tables : WF_vars(RefreshLoad(t)) /\ WF_vars(RefreshStore(t))
    /\ \A r \in Requests : WF_vars(Serve(r))
    /\ WF_vars(Projected)

FairSpec == Spec /\ Fairness

------------------------------------------------------------------------------
(* Properties. *)

(* Every variable has its type; what a job or a call has in hand is of the *)
(* table it reloads.                                                       *)
TypeOK ==
    /\ rows \in Arrangements /\ saves \in [Savers -> Saves]
    /\ limit \in Limits
    /\ sets \in [Setters -> [pc : {"idle", "compare", "write", "load", "store"}, limit : Limits]]
    /\ cache \in [sectors : 0..ReloadBound, limits : Limits, consolidations : Arrangements]
    /\ loaded \in BOOLEAN
    /\ reading = [p \in Tables \cup Savers \cup Setters |-> reading[p]]
    /\ reading["sectors"] \in {None} \cup 0..ReloadBound
    /\ reading["limits"] \in {None} \cup Limits
    /\ reading["consolidations"] \in {None} \cup Arrangements
    /\ \A s \in Savers : saves[s].pc = "store" => reading[s] \in Arrangements
    /\ \A s \in Setters : sets[s].pc = "store" => reading[s] \in Limits
    /\ snapshot \in 0..PublishBound /\ wheels \in BOOLEAN
    /\ asked \in [Requests -> [pc : RequestSteps, loaded : BOOLEAN, in : Inputs,
                               answer : {None} \cup Inputs]]
    /\ queue \in Seq(Requests)
    /\ task \in {None} \cup [for : Requests, in : Inputs]
    /\ entry \in {None} \cup Inputs
    /\ projected \in [0..PublishBound -> 0..2]

(* A request is answered from exactly what it read: the publish, the       *)
(* volumes, the wheels-up times and the consolidations it found, judged    *)
(* against the limits it found, whoever projected or rendered before it    *)
(* (sector_demand_cache.rs: "Keyed on everything it reads").               *)
AnswersAsRead ==
    \A r \in Requests : asked[r].pc = "ready" => asked[r].answer = asked[r].in

(* An ARTCC that has sectors never answers no_sector_data, even while the  *)
(* replica starts (sector_demand.rs: "Read before the table").             *)
NoFalseGap == \A r \in Requests : asked[r].pc # "no_sector_data"

(* Where only the feed moves, a publish is projected once, unless a newer  *)
(* one is already held: requests that wait together share a projection,    *)
(* and one whose viewer went away is not lost.                             *)
OncePerPublish ==
    (Warm /\ env \cap {"volumes", "wheels", "save", "release", "limit", "fail"} = {}) =>
    \A p \in DOMAIN projected : projected[p] > 1 => entry # None /\ entry.publish > p

(* Where reloads do not overlap and every call is served here and reloads, *)
(* a table in memory is the stored one as soon as no call is between its   *)
(* write and its reload.                                                   *)
CacheCurrent ==
    (Warm /\ env \cap {"overlap", "replica", "fail"} = {}) =>
    /\ (\A s \in Setters : sets[s].pc \notin {"load", "store"}) => cache.limits = limit
    /\ (\A s \in Savers : saves[s].pc \notin {"load", "store"}) => cache.consolidations = rows

(* The entry never goes back to an older publish, although requests that   *)
(* read one may be served after those that read a newer.                   *)
EntryForward ==
    [][entry # None => entry' # None /\ entry.publish <= entry'.publish]_entry

(* Whatever overlapped, failed or was written by another replica: once the *)
(* writes stop, the tables in memory become the stored ones and stay so.   *)
EventuallyCurrent ==
    (<>[](/\ \A s \in Savers : saves[s].pc = "idle"
          /\ \A s \in Setters : sets[s].pc = "idle"))
    => <>[](cache.limits = limit /\ cache.consolidations = rows)

(* A request that waits is answered or gone, whoever is in front of it and *)
(* whether or not their viewers stay.                                      *)
EventuallyAnswered ==
    \A r \in Requests :
        asked[r].pc \in {"wait", "projecting"} ~> asked[r].pc \notin {"wait", "projecting"}
==============================================================================
