----------------------------- MODULE TmuEntries -----------------------------
(***************************************************************************)
(* One traffic management entry, a TMI or a ground stop, from draft to     *)
(* pruned history (handlers/tmu.rs, repos/tmu.rs).  The two tables share   *)
(* delete_or_retain, the cleanup pass and the pruning.  A TMI's changes    *)
(* are lines of the NTML log, jobs enqueued in the transaction of the      *)
(* change; a ground stop publishes with a generated advisory, which only   *)
(* the cleanup pass retires.                                               *)
(*                                                                         *)
(* Every transaction here writes the row first and commits right after, so *)
(* it is one step; what a handler reads before it is a step of its own.    *)
(* Time is counted in hours, the cleanup's grace.                          *)
(*                                                                         *)
(* A job is due at now(), which in Postgres is the beginning of its        *)
(* transaction: jobs that one poll of the bot takes together are posted in *)
(* the order in which their transactions began, not in that of the commits *)
(* (the hazard "batched"; otherwise the bot is quicker than the calls).    *)
(***************************************************************************)
EXTENDS Integers, Sequences, FiniteSets, SequencesExt

CONSTANTS
    Lines,        \* texts of a restriction
    Stops,        \* times an entry may be planned to end
    Channels,     \* Discord channels the logical NTML channel may map to
    Workers,      \* handler calls and cleanup passes that may overlap
    Retention,    \* hours that published history is kept
    MaxClock,     \* bound: hours of a behaviour
    PostBound,    \* bound: lines in the log
    NoTime,       \* SQL null
    Keep,         \* a field an edit leaves out
    Environments  \* sets of hazards, one of which a behaviour runs with

HazardKinds == {"concurrent",  \* calls and cleanup passes overlap
                "edits",       \* TMIs are edited
                "batched",     \* lines of overlapping calls wait for one poll
                "remap",       \* the NTML channel is mapped to another channel
                "fail"}        \* a call or pass dies between two statements

ASSUME EntryAssumption ==
    /\ IsFiniteSet(Stops) /\ Stops \subseteq Nat
    /\ Retention \in Nat \ {0} /\ MaxClock \in Nat /\ PostBound \in Nat
    /\ NoTime \notin Nat /\ Keep \notin Lines \cup Stops
    /\ Environments \subseteq SUBSET HazardKinds

VARIABLES
    kind,     \* "tmi" or "ground_stop"
    row,      \* the row of tmu.tmis or tmu.ground_stops
    posts,    \* the entry's lines of the NTML log, and places of open transactions
    adv,      \* the ground stop's advisory
    channel,  \* what the NTML channel maps to now
    clock,
    seen,     \* hours at whose end the entry was in force
    swept,    \* a cleanup pass has begun and ended within this hour
    call,     \* per process: the call it runs
    env

entryVars == <<kind, row, posts, adv, channel, clock, seen, swept, call, env>>

Shown    == [cnx : BOOLEAN, line : Lines, stop : Stops \cup {NoTime}, channel : Channels]
Changes  == [line : Lines \cup {Keep}, stop : Stops \cup {Keep}]

Idle == [pc |-> "idle"]

Exists    == row.status \notin {"none", "gone"}
Active    == row.status \in {"draft", "published"}
Before(t, u) == t # NoTime /\ t < u
NoAdvisory == [status |-> "none", posted |-> FALSE, corrected |-> 0]
AdvisoryLives == adv.status \in {"draft", "published"}

EntryInit ==
    /\ kind \in {"tmi", "ground_stop"}
    /\ \E l \in Lines : row = [status |-> "none", line |-> l, stop |-> NoTime, published |-> NoTime,
                               ended |-> NoTime, updated |-> 0, dismissed |-> FALSE]
    /\ posts = << >>
    /\ adv = NoAdvisory
    /\ channel \in Channels
    /\ clock = 0 /\ seen = {} /\ swept = FALSE
    /\ call = [p \in Workers |-> Idle]
    /\ env \in Environments

Free        == "concurrent" \in env \/ \A q \in Workers : call[q] = Idle
MayBegin(p) == call[p] = Idle /\ Free
Goto(p, c)  == call' = [call EXCEPT ![p] = c]

(* Every update of the row touches updated_at (a trigger).                 *)
Update(r) == row' = [r EXCEPT !.updated = clock]

Line(r, cnx, ch) == [cnx |-> cnx, line |-> r.line, stop |-> r.stop, channel |-> ch]

(* Where the log has its lines, those of a publish or an edit among them,  *)
(* and the newest line of some.                                            *)
Log        == {n \in DOMAIN posts : posts[n] \in Shown}
Published  == {n \in Log : ~posts[n].cnx}
Newest(S)  == posts[Max(S)]

Place(p)   == [by |-> p]
PlaceAt(p) == {n \in DOMAIN posts : posts[n] = Place(p)}
Reserve(p) == posts' = IF "batched" \in env THEN Append(posts, Place(p)) ELSE posts
Leave(p)   == posts' = IF PlaceAt(p) = {} THEN posts ELSE RemoveAt(posts, Max(PlaceAt(p)))
Post(p, l) == posts' = IF "batched" \in env THEN ReplaceAll(posts, Place(p), l) ELSE Append(posts, l)

-----------------------------------------------------------------------------
(* Handlers. *)

Create ==
    /\ row.status = "none"
    /\ \E l \in Lines, s \in Stops \cup {NoTime} :
         Update([row EXCEPT !.status = "draft", !.line = l, !.stop = s])
    /\ UNCHANGED <<kind, posts, adv, channel, clock, seen, swept, call, env>>

(* A TMI goes live with its line, a ground stop with its advisory.         *)
PublishEntry ==
    /\ Free /\ row.status = "draft"
    /\ Update([row EXCEPT !.status = "published", !.published = clock])
    /\ IF kind = "tmi"
       THEN posts' = Append(posts, Line(row, FALSE, channel)) /\ UNCHANGED adv
       ELSE adv' = [adv EXCEPT !.status = "draft"] /\ UNCHANGED posts
    /\ UNCHANGED <<kind, channel, clock, seen, swept, call, env>>

(* update_tmi begins and reads the row without locking it ...              *)
BeginEdit(p) ==
    /\ "edits" \in env /\ kind = "tmi"
    /\ MayBegin(p) /\ Exists
    /\ Len(posts) + Cardinality({q \in Workers : call[q].pc = "edit"}) + 1 < PostBound
    /\ Reserve(p)
    /\ \E c \in Changes :
         Goto(p, [pc |-> "edit", before |-> [line |-> row.line, stop |-> row.stop], change |-> c])
    /\ UNCHANGED <<kind, row, adv, channel, clock, seen, swept, env>>

Merged(c) == [row EXCEPT !.line = IF c.line = Keep THEN @ ELSE c.line,
                         !.stop = IF c.stop = Keep THEN @ ELSE c.stop]

LineChanged_Text(b, r) == b.line # r.line   \* mutant: a new stop time alone is not posted

(* line_fields_differ: what the edit read against what it left behind.     *)
LineChanged(b, r) == b # [line |-> r.line, stop |-> r.stop]

Revises(b, r) == r.status = "published" /\ LineChanged(b, r)

(* ... and then updates whatever is there, and posts a revised line.       *)
WriteEdit(p) ==
    /\ call[p].pc = "edit"
    /\ LET r == Merged(call[p].change) IN
        IF Exists
        THEN /\ Update(r)
             /\ IF Revises(call[p].before, r) THEN Post(p, Line(r, FALSE, channel)) ELSE Leave(p)
        ELSE Leave(p) /\ UNCHANGED row
    /\ Goto(p, Idle)
    /\ UNCHANGED <<kind, adv, channel, clock, seen, swept, env>>

CancelChannel_Current == channel   \* mutant: resolved anew, as it once was

(* published_channel_for_tmi: the latest publish job's channel; without    *)
(* one the name is resolved.                                               *)
CancelChannel == IF Published = {} THEN channel ELSE Newest(Published).channel

(* cancel_tmi reads the channel, then begins.                              *)
BeginCancel(p) ==
    /\ kind = "tmi"
    /\ MayBegin(p) /\ Exists
    /\ Goto(p, [pc |-> "cancel", channel |-> CancelChannel])
    /\ Reserve(p)
    /\ UNCHANGED <<kind, row, adv, channel, clock, seen, swept, env>>

Ended(r, s) == [r EXCEPT !.status = s, !.ended = IF @ = NoTime THEN clock ELSE @]

Cancellable_Any == Exists   \* mutant: update .. where id = $1 alone

Cancellable == Active

WriteCancel(p) ==
    /\ call[p].pc = "cancel"
    /\ IF Cancellable
       THEN Update(Ended(row, "cancelled")) /\ Post(p, Line(row, TRUE, call[p].channel))
       ELSE Leave(p) /\ UNCHANGED row
    /\ Goto(p, Idle)
    /\ UNCHANGED <<kind, adv, channel, clock, seen, swept, env>>

(* cancel_ground_stop: the row alone, its advisory is left to the cleanup. *)
CancelGroundStop ==
    /\ Free /\ kind = "ground_stop" /\ Active
    /\ Update(Ended(row, "cancelled"))
    /\ UNCHANGED <<kind, posts, adv, channel, clock, seen, swept, call, env>>

(* delete_or_retain: a row that never went live is deleted ...             *)
Discardable == row.published = NoTime

HardDelete(p) ==
    /\ MayBegin(p) /\ Exists
    /\ IF Discardable
       THEN row' = [row EXCEPT !.status = "gone"] /\ UNCHANGED call
       ELSE Goto(p, [pc |-> "soft_delete"]) /\ UNCHANGED row
    /\ UNCHANGED <<kind, posts, adv, channel, clock, seen, swept, env>>

Dismissed_Unstamped(r) ==   \* mutant: the end is not recorded
    [r EXCEPT !.status = IF Active THEN "cancelled" ELSE @, !.dismissed = TRUE]

Dismissed(r) == [(IF Active THEN Ended(r, "cancelled") ELSE r) EXCEPT !.dismissed = TRUE]

(* ... any other is ended, if it still runs, and hidden from the lists.    *)
SoftDelete(p) ==
    /\ call[p].pc = "soft_delete"
    /\ IF Exists THEN Update(Dismissed(row)) ELSE UNCHANGED row
    /\ Goto(p, Idle)
    /\ UNCHANGED <<kind, posts, adv, channel, clock, seen, swept, env>>

-----------------------------------------------------------------------------
(* The ground stop's advisory, as staff handle it. *)

PublishAdvisory ==
    /\ adv.status = "draft"
    /\ adv' = [adv EXCEPT !.status = "published", !.posted = TRUE]
    /\ UNCHANGED <<kind, row, posts, channel, clock, seen, swept, call, env>>

(* Cancelled, with a correction in the same transaction if it was posted.  *)
Withdrawn(a) == [a EXCEPT !.status = "cancelled", !.corrected = IF a.posted THEN @ + 1 ELSE @]

CancelAdvisory ==
    /\ AdvisoryLives
    /\ adv' = Withdrawn(adv)
    /\ UNCHANGED <<kind, row, posts, channel, clock, seen, swept, call, env>>

DeleteAdvisory ==
    /\ adv.status = "draft"
    /\ adv' = [adv EXCEPT !.status = "deleted"]
    /\ UNCHANGED <<kind, row, posts, channel, clock, seen, swept, call, env>>

-----------------------------------------------------------------------------
(* The cleanup pass, statement by statement, and the pruning. *)

Lapsed == Before(row.stop, clock)

SweepExpire(p) ==
    /\ MayBegin(p)
    /\ IF Active /\ Lapsed THEN Update([row EXCEPT !.status = "expired"]) ELSE UNCHANGED row
    /\ Goto(p, [pc |-> "purge", timely |-> TRUE])
    /\ UNCHANGED <<kind, posts, adv, channel, clock, seen, swept, env>>

Purgeable == Exists /\ row.published = NoTime

SweepPurge(p) ==
    /\ call[p].pc = "purge"
    /\ IF Purgeable /\ (Before(row.stop, clock - 1)
                        \/ (row.status \in {"expired", "cancelled"} /\ row.updated < clock - 1))
       THEN row' = [row EXCEPT !.status = "gone"]
       ELSE UNCHANGED row
    /\ Goto(p, [call[p] EXCEPT !.pc = "retire"])
    /\ UNCHANGED <<kind, posts, adv, channel, clock, seen, swept, env>>

Retires_Expired == row.status = "expired"   \* mutant: not of cancelled ground stops

Retires == row.status \in {"expired", "cancelled"}

(* Advisories of ended ground stops are cancelled, posts withdrawn.        *)
SweepRetire(p) ==
    /\ call[p].pc = "retire"
    /\ adv' = IF AdvisoryLives /\ Retires THEN Withdrawn(adv) ELSE adv
    /\ swept' = (swept \/ call[p].timely)
    /\ Goto(p, Idle)
    /\ UNCHANGED <<kind, row, posts, channel, clock, seen, env>>

(* prune_history, from the statistics compaction.                          *)
Prune ==
    /\ row.published # NoTime /\ row.status \in {"expired", "cancelled"}
    /\ (IF row.ended = NoTime THEN row.updated ELSE row.ended) < clock - Retention
    /\ row' = [row EXCEPT !.status = "gone"]
    /\ UNCHANGED <<kind, posts, adv, channel, clock, seen, swept, call, env>>

-----------------------------------------------------------------------------

Remap ==
    /\ "remap" \in env
    /\ channel' \in Channels \ {channel}
    /\ UNCHANGED <<kind, row, posts, adv, clock, seen, swept, call, env>>

Fail(p) ==
    /\ "fail" \in env /\ call[p] # Idle
    /\ Goto(p, Idle) /\ Leave(p)
    /\ UNCHANGED <<kind, row, adv, channel, clock, seen, swept, env>>

InForce == row.status = "published" /\ ~(row.stop # NoTime /\ row.stop <= clock)

(* An hour goes by, in which a cleanup pass ran from start to end: there   *)
(* are twelve of them.                                                     *)
Tick ==
    /\ clock < MaxClock /\ swept
    /\ clock' = clock + 1 /\ swept' = FALSE
    /\ seen' = IF InForce THEN seen \cup {clock} ELSE seen
    /\ call' = [p \in Workers |-> IF call[p].pc \in {"purge", "retire"}
                                 THEN [call[p] EXCEPT !.timely = FALSE] ELSE call[p]]
    /\ UNCHANGED <<kind, row, posts, adv, channel, env>>

EntryNext ==
    \/ Create \/ PublishEntry \/ CancelGroundStop \/ Prune
    \/ PublishAdvisory \/ CancelAdvisory \/ DeleteAdvisory
    \/ Remap \/ Tick
    \/ \E p \in Workers :
         \/ BeginEdit(p) \/ WriteEdit(p) \/ BeginCancel(p) \/ WriteCancel(p)
         \/ HardDelete(p) \/ SoftDelete(p)
         \/ SweepExpire(p) \/ SweepPurge(p) \/ SweepRetire(p) \/ Fail(p)

EntrySpec == EntryInit /\ [][EntryNext]_entryVars

-----------------------------------------------------------------------------
(* Properties. *)

(* The log never goes on after a cancellation, and has one at most: an     *)
(* edit, a cancel and a delete that overlap do not put a dead restriction  *)
(* back at its bottom.                                                     *)
NothingAfterCancel == \A m, n \in Log : m < n => ~posts[m].cnx

(* So it is where the bot posts in the order of the commits.               *)
CancelIsLast == "batched" \notin env => NothingAfterCancel

(* The line at n is the next one after that at m.                          *)
Follows(n, m) == m < n /\ \A k \in Log : k <= m \/ n <= k

Turns == "concurrent" \notin env

(* While edits of it do not overlap, the log follows the row: what it      *)
(* shows last of a TMI in force is what its row says, and no line repeats  *)
(* the one before it, so a save that changed nothing is not posted.        *)
LogFollows ==
    Turns =>
    /\ (kind = "tmi" /\ row.status = "published") =>
          /\ Log # {}
          /\ ~Newest(Log).cnx /\ Newest(Log).line = row.line /\ Newest(Log).stop = row.stop
    /\ \A m, n \in Log : Follows(n, m) =>
          posts[n].cnx \/ posts[n].line # posts[m].line \/ posts[n].stop # posts[m].stop

(* A cancelled TMI that was posted has its cancellation in the log, beside *)
(* the line it corrects even if the channel was mapped anew in between.    *)
CancelCorrected ==
    (kind = "tmi" /\ row.status = "cancelled" /\ row.published # NoTime /\ ~row.dismissed) =>
        /\ \E n \in Log : posts[n].cnx
        /\ Turns => Newest(Log).channel = Newest(Published).channel

(* What was in force is what the replay shows, hour by hour, however the   *)
(* entry ended; edits rewrite the window and are left out.                 *)
Replays(t) ==
    /\ row.published # NoTime /\ row.published <= t
    /\ row.stop = NoTime \/ row.stop > t
    /\ row.ended = NoTime \/ row.ended > t

ReplayFaithful ==
    (Exists /\ "edits" \notin env) => \A t \in 0..(clock - 1) : Replays(t) <=> t \in seen

(* A ground stop's advisory does not outlive it: it is retired, with its   *)
(* post withdrawn once, before the row it hangs on is pruned.              *)
AdvisoryRetired ==
    /\ row.status = "gone" => ~AdvisoryLives
    /\ adv.corrected <= 1
    /\ (adv.status = "cancelled" /\ adv.posted) => adv.corrected = 1
=============================================================================
