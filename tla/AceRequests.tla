---------------------------- MODULE AceRequests ----------------------------
(***************************************************************************)
(* One ACE support request of an event, on a deployment with an ACE        *)
(* channel configured (without one no job is enqueued): people claim and   *)
(* release its coverage slots from the website or from Discord, staff      *)
(* decide or delete it, every change enqueues a Discord job in its own     *)
(* transaction and then nudges the web viewers (handlers/ace.rs,           *)
(* repos/ace.rs, handlers/integration.rs discord_ace_claim).               *)
(*                                                                         *)
(* A handler's transaction is several steps, because what it reads under   *)
(* READ COMMITTED is the state other handlers have committed by then; the  *)
(* row lock that claim_request takes is the variable lock.  The job queue  *)
(* is JobDelivery, what OutboundJobs promises: job PostJob posts the embed *)
(* and every other job edits it to a snapshot of the claims.  The          *)
(* confirmation DM a claim also enqueues is one more job of that queue and *)
(* shares no state with the request, so it is left out.                    *)
(***************************************************************************)
EXTENDS Integers, FiniteSets

CONSTANTS
    Users,        \* people who may claim a slot
    Procs,        \* handler calls that may run at the same time
    SlotCount,    \* ace.requests.slots
    NotifyBound,  \* bound: notify jobs a behaviour may enqueue
    MaxAttempts,  \* MAX_ATTEMPTS of the queue
    Environments, \* sets of hazards, one of which a behaviour runs with
    Nobody        \* no handler holds the row lock

HazardKinds == {"early_claim",  \* a claim before the post job is acknowledged
                "concurrent",   \* handlers of one request overlap
                "reorder",      \* jobs fail, are retried, or arrive late
                "discord"}      \* people also claim through the bot

ASSUME AceAssumption ==
    /\ IsFiniteSet(Users) /\ IsFiniteSet(Procs)
    /\ SlotCount \in 1..99
    /\ NotifyBound \in Nat /\ MaxAttempts \in Nat \ {0}
    /\ Environments \subseteq SUBSET HazardKinds
    /\ Nobody \notin Procs

VARIABLES
    reqStatus,  \* "none", "open", "completed", "cancelled" or "deleted"
    claims,     \* committed rows of ace.claims: who
    lock,       \* the handler that holds select .. for update on the row
    tx,         \* per handler: its transaction
    payload,    \* per notify job: the snapshot it was built from
    jobCount,   \* notify jobs enqueued so far
    embed,      \* what the Discord message shows
    board,      \* what the web viewers show
    hazards,    \* what the environment may do in this behaviour
    state, tries, delivered   \* the job queue

queue == <<state, tries, delivered>>
db    == <<reqStatus, claims, lock>>
vars  == <<reqStatus, claims, lock, tx, payload, jobCount,
           embed, board, hazards, state, tries, delivered>>

PostJob    == 0
NotifyJobs == 1..NotifyBound
Q == INSTANCE JobDelivery WITH Jobs <- {PostJob} \cup NotifyJobs

NoJob     == [claimers |-> {}, count |-> -1]
Snapshots == [claimers : SUBSET Users, count : Nat]
NoEmbed   == [shown |-> FALSE, claimers |-> {}, filled |-> FALSE]

IdleTx == [pc |-> "idle"]
Idle(p) == tx[p].pc = "idle"

(* A handler may begin: alone, unless handlers overlap; and the bound on   *)
(* notify jobs leaves room for every handler that is under way.            *)
MayBegin(p) ==
    /\ Idle(p)
    /\ "concurrent" \in hazards \/ \A q \in Procs : Idle(q)
    /\ jobCount + Cardinality({q \in Procs : ~Idle(q)}) < NotifyBound

(* No other transaction has an uncommitted insert or delete of u's claim.  *)
RowFree(p, u) ==
    \A q \in Procs \ {p} :
        tx[q].pc \in {"count", "notify", "commit"} => tx[q].user # u

Init ==
    /\ reqStatus = "none"
    /\ claims = {}
    /\ lock = Nobody
    /\ tx = [p \in Procs |-> IdleTx]
    /\ payload = [j \in NotifyJobs |-> NoJob]
    /\ jobCount = 0
    /\ embed = NoEmbed
    /\ board = [status |-> "none", claims |-> {}]
    /\ hazards \in Environments
    /\ Q!QInit

-----------------------------------------------------------------------------
(* Handlers. *)

(* create_one: the row and its post job commit together.                   *)
CreateRequest(p) ==
    /\ Idle(p) /\ reqStatus = "none"
    /\ reqStatus' = "open"
    /\ Q!Submit(PostJob)
    /\ tx' = [tx EXCEPT ![p] = [pc |-> "publish"]]
    /\ UNCHANGED <<claims, lock, payload, jobCount, embed, board, hazards>>

ForUpdate_Plain(p) == lock' = lock   \* mutant: a select without for update

(* select .. for update: others that want the row wait from here on.       *)
ForUpdate(p) == lock' = p

HasRoom == Cardinality(claims) < SlotCount

(* repos/ace.rs claim_request: lock the row, require it open and not full  *)
(* ...                                                                     *)
LockRequest(p, u, via) ==
    /\ MayBegin(p)
    /\ "early_claim" \in hazards \/ state[PostJob] = "done"
    /\ via = "discord" => "discord" \in hazards /\ delivered[PostJob]
    /\ lock = Nobody
    /\ reqStatus = "open"
    /\ HasRoom
    /\ ForUpdate(p)
    /\ tx' = [tx EXCEPT ![p] =
            [pc |-> "insert", kind |-> "claim", user |-> u, via |-> via,
             count |-> Cardinality(claims) + 1]]
    /\ UNCHANGED <<reqStatus, claims, payload, jobCount, embed, board, queue, hazards>>

(* ... then insert, waiting for the same person's release if one is being  *)
(* committed.  Somebody who holds a slot already gets a conflict: Rollback. *)
InsertClaim(p) ==
    /\ tx[p].pc = "insert"
    /\ RowFree(p, tx[p].user)
    /\ tx[p].user \notin claims
    /\ tx' = [tx EXCEPT ![p] = [@ EXCEPT !.pc = "notify"]]
    /\ UNCHANGED <<db, payload, jobCount, embed, board, queue, hazards>>

(* release_claim deletes the caller's row without locking the request ...  *)
DropClaim(p, u) ==
    /\ MayBegin(p)
    /\ u \in claims
    /\ RowFree(p, u)
    /\ tx' = [tx EXCEPT ![p] =
            [pc |-> "count", kind |-> "release", user |-> u, via |-> "web",
             count |-> 0]]
    /\ UNCHANGED <<db, payload, jobCount, embed, board, queue, hazards>>

(* What a handler's own transaction sees: its change on top of what others *)
(* have committed.                                                         *)
SeenClaims(p) ==
    IF tx[p].kind = "claim" THEN claims \cup {tx[p].user} ELSE claims \ {tx[p].user}

(* ... and counts what is left in a second statement.                      *)
CountLeft(p) ==
    /\ tx[p].pc = "count"
    /\ tx' = [tx EXCEPT ![p] = [@ EXCEPT !.pc = "notify",
                                         !.count = Cardinality(SeenClaims(p))]]
    /\ UNCHANGED <<db, payload, jobCount, embed, board, queue, hazards>>

(* mutant: the claims read on a pool connection instead of the transaction *)
Snapshot_Committed(p) == [claimers |-> claims, count |-> tx[p].count]

(* claims_for reads in the transaction, the count was taken before.        *)
Snapshot(p) == [claimers |-> SeenClaims(p), count |-> tx[p].count]

(* enqueue_notify: nothing without the message id of an acknowledged post, *)
(* otherwise a snapshot of the claims.  The job is part of the open        *)
(* transaction until it commits.                                           *)
BuildNotify(p) ==
    /\ tx[p].pc = "notify"
    /\ tx' = [tx EXCEPT ![p] =
            [pc |-> "commit", kind |-> tx[p].kind, user |-> tx[p].user,
             via |-> tx[p].via,
             job |-> IF state[PostJob] = "done" THEN Snapshot(p) ELSE NoJob]]
    /\ UNCHANGED <<db, payload, jobCount, embed, board, queue, hazards>>

(* The end of a transaction gives its row lock back.                       *)
Unlocked(p) == IF lock = p THEN Nobody ELSE lock

AfterCommit_Silent(p) == IdleTx   \* mutant: the change is not published

(* Only the website's handlers publish.                                    *)
AfterCommit(p) == IF tx[p].via = "web" THEN [pc |-> "publish"] ELSE IdleTx

(* The commit of claim_request, release_claim or discord_ace_claim.        *)
Commit(p) ==
    /\ tx[p].pc = "commit"
    /\ claims' = SeenClaims(p)
    /\ lock' = Unlocked(p)
    /\ tx' = [tx EXCEPT ![p] = AfterCommit(p)]
    /\ \/ /\ tx[p].job = NoJob
          /\ UNCHANGED <<payload, jobCount, queue>>
       \/ /\ tx[p].job # NoJob
          /\ jobCount' = jobCount + 1
          /\ payload' = [payload EXCEPT ![jobCount + 1] = tx[p].job]
          /\ Q!Submit(jobCount + 1)
    /\ UNCHANGED <<reqStatus, embed, board, hazards>>

(* A statement fails, or a nested connection cannot be had: nothing stays. *)
Rollback(p) ==
    /\ tx[p].pc \in {"insert", "count", "notify", "commit"}
    /\ lock' = Unlocked(p)
    /\ tx' = [tx EXCEPT ![p] = IdleTx]
    /\ UNCHANGED <<reqStatus, claims, payload, jobCount, embed, board, queue, hazards>>

(* state.publish(topic::ACE): every viewer loads the committed request.    *)
Publish(p) ==
    /\ tx[p].pc = "publish"
    /\ board' = [status |-> reqStatus, claims |-> claims]
    /\ tx' = [tx EXCEPT ![p] = IdleTx]
    /\ UNCHANGED <<db, payload, jobCount, embed, queue, hazards>>

(* decide_request: waits for the row lock, refuses a decided request.      *)
Decide(p, outcome) ==
    /\ MayBegin(p)
    /\ lock = Nobody
    /\ reqStatus = "open"
    /\ reqStatus' = outcome
    /\ tx' = [tx EXCEPT ![p] = [pc |-> "publish"]]
    /\ UNCHANGED <<claims, lock, payload, jobCount, embed, board, queue, hazards>>

(* delete_request: the cascade waits for claim rows being deleted.         *)
DeleteRequest(p) ==
    /\ MayBegin(p)
    /\ lock = Nobody
    /\ \A u \in claims : RowFree(p, u)
    /\ reqStatus \in {"open", "completed", "cancelled"}
    /\ reqStatus' = "deleted"
    /\ claims' = {}
    /\ tx' = [tx EXCEPT ![p] = [pc |-> "publish"]]
    /\ UNCHANGED <<lock, payload, jobCount, embed, board, queue, hazards>>

-----------------------------------------------------------------------------
(* The bot, through the promise of the queue. *)

app == <<db, tx, payload, jobCount>>

TakeJobs ==
    /\ \E S \in SUBSET ({PostJob} \cup NotifyJobs) : S # {} /\ Q!Take(S)
    /\ UNCHANGED <<app, embed, board, hazards>>

(* Without the hazard, jobs arrive once and in the order of their commits. *)
InOrder(j) ==
    /\ state[j] = "taken" /\ ~delivered[j]
    /\ \A k \in {PostJob} \cup NotifyJobs : k < j => state[k] = "done"

(* post_ace_request shows an empty claim list whatever was claimed since;  *)
(* notify_ace_claim shows its snapshot and drops the button when full.     *)
Deliver(j) ==
    /\ "reorder" \in hazards \/ InOrder(j)
    /\ Q!Deliver(j)
    /\ IF j = PostJob
       THEN /\ ~delivered[j]   \* a second post is another message
            /\ embed' = [shown |-> TRUE, claimers |-> {}, filled |-> FALSE]
       ELSE embed' = [shown |-> TRUE, claimers |-> payload[j].claimers,
                      filled |-> payload[j].count >= SlotCount]
    /\ UNCHANGED <<app, board, hazards>>

FinishJob(j) ==
    /\ Q!Finish(j)
    /\ UNCHANGED <<app, embed, board, hazards>>

GiveUpJobs ==
    /\ "reorder" \in hazards
    /\ \E S \in SUBSET ({PostJob} \cup NotifyJobs) : S # {} /\ Q!GiveUp(S)
    /\ UNCHANGED <<app, embed, board, hazards>>

-----------------------------------------------------------------------------
Next ==
    \/ \E p \in Procs : CreateRequest(p)
    \/ \E p \in Procs, u \in Users, via \in {"web", "discord"} : LockRequest(p, u, via)
    \/ \E p \in Procs : InsertClaim(p)
    \/ \E p \in Procs, u \in Users : DropClaim(p, u)
    \/ \E p \in Procs : CountLeft(p)
    \/ \E p \in Procs : BuildNotify(p)
    \/ \E p \in Procs : Commit(p)
    \/ \E p \in Procs : Rollback(p)
    \/ \E p \in Procs : Publish(p)
    \/ \E p \in Procs, outcome \in {"completed", "cancelled"} : Decide(p, outcome)
    \/ \E p \in Procs : DeleteRequest(p)
    \/ TakeJobs
    \/ \E j \in {PostJob} \cup NotifyJobs : Deliver(j) \/ FinishJob(j)
    \/ GiveUpJobs

Spec == Init /\ [][Next]_vars

-----------------------------------------------------------------------------
(* Properties. *)

(* The types of the request, its queue and the transactions' control; the  *)
(* row lock is held only inside a claim's transaction.                     *)
TypeOK ==
    /\ reqStatus \in {"none", "open", "completed", "cancelled", "deleted"}
    /\ claims \subseteq Users
    /\ lock \in Procs \cup {Nobody}
    /\ lock # Nobody => tx[lock].pc \in {"insert", "notify", "commit"}
    /\ \A p \in Procs : tx[p].pc \in {"idle", "insert", "count", "notify", "commit", "publish"}
    /\ payload \in [NotifyJobs -> Snapshots \cup {NoJob}]
    /\ jobCount \in 0..NotifyBound
    /\ hazards \in Environments

(* However claims and releases overlap, no more people hold a slot than    *)
(* the request has (repos/ace.rs claim_request: "already full").           *)
SlotsRespected == Cardinality(claims) <= SlotCount

(* Nobody is added to a request that was decided or deleted, not even by a *)
(* claim that read it while it was open.                                   *)
ClaimsOnlyWhileOpen ==
    [][claims' \subseteq claims \/ (reqStatus = "open" /\ reqStatus' = "open")]_vars

(* A notify job never shows more people, or a larger "X/N claimed", than   *)
(* the request has slots, although the people are read one statement after *)
(* the count and other handlers commit in between.                         *)
SnapshotWithinSlots ==
    \A j \in NotifyJobs :
        /\ Cardinality(payload[j].claimers) <= SlotCount
        /\ payload[j].count <= SlotCount

(* At rest the embed shows the claims and drops the button when full:      *)
(* handlers/ace.rs:119 "reflecting the request's current claims ... (X/N   *)
(* claimed + claimers; keeps the button while slots remain)".              *)
AtRest ==
    /\ \A p \in Procs : Idle(p)
    /\ \A j \in {PostJob} \cup NotifyJobs : state[j] \in {"absent", "done"}

EmbedCurrent ==
    (AtRest /\ reqStatus \in {"open", "completed", "cancelled"}) =>
        /\ embed.shown
        /\ embed.claimers = claims
        /\ embed.filled = (Cardinality(claims) >= SlotCount)

(* It does when handlers take turns, jobs arrive in order and nobody       *)
(* claims before the post is acknowledged.                                 *)
EmbedShowsClaims == hazards = {} => EmbedCurrent

(* When no handler is under way the viewers' boards show the committed     *)
(* request: realtime.rs:166 names every change of a request as published.  *)
BoardCurrent ==
    (\A p \in Procs : Idle(p)) => board = [status |-> reqStatus, claims |-> claims]

(* They do, however the handlers overlap, as long as nobody claims through *)
(* the bot.                                                                *)
BoardFresh == "discord" \notin hazards => BoardCurrent
=============================================================================
