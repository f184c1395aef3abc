---------------------------- MODULE OutboundJobs ----------------------------
(***************************************************************************)
(* The outbound-job queue of the Discord integration.                      *)
(*                                                                         *)
(* The backend inserts a row into integration.outbound_jobs inside the     *)
(* transaction of the feature that wants a Discord side effect             *)
(* (repos/integration.rs enqueue_job).  A bot instance polls: it leases a  *)
(* batch of due rows, performs them one after the other and acknowledges   *)
(* each (discord/src/jobs/mod.rs job_loop).  A reaper in the backend puts  *)
(* rows back whose worker never acknowledged them (jobs.rs).               *)
(*                                                                         *)
(* Every SQL statement of the queue is one atomic action.  Time is kept    *)
(* relative to now(): leaseAge is now() - last_attempt_at, dueIn is        *)
(* next_attempt_at - now().  Both saturate, leaseAge just above the lease  *)
(* timeout (older leases are all alike) and dueIn at -DueHorizon (beyond   *)
(* it the order of two overdue rows is forgotten, so either may go first). *)
(***************************************************************************)
EXTENDS Integers, FiniteSets

CONSTANTS
    Jobs,           \* ids of the rows that may be enqueued
    Workers,        \* bot instances: two overlap during a redeploy
    Consumers,      \* service-account keys
    ConsumerOf,     \* the consumer column of each job
    KeyOf,          \* the key of the service account each worker calls with
    SendsAttempt,   \* the workers that echo attempt_count on an ack
    MaxAttempts,    \* MAX_ATTEMPTS, 8 in the code
    LeaseTimeout,   \* OUTBOUND_JOB_LEASE_TIMEOUT_MINS, in clock units
    BackoffUnit,    \* 30 seconds, in clock units
    BackoffCap,     \* 10: the backoff stops growing at this attempt
    LeaseLimit,     \* jobs asked for by one lease call, 10 in the bot
    DueHorizon,     \* how long the order of overdue rows is remembered
    Environments,   \* sets of faults, one of which a behaviour runs with
    NoLease         \* a worker that is not performing a job

FaultKinds == {"crash",        \* a bot process dies and restarts
               "lease_lost",   \* the answer to a lease call never arrives
               "ack_lost",     \* an ack never reaches the backend
               "late",         \* a worker may outlive its lease
               "post_err"}     \* Discord posts, but the call reports an error

ASSUME QueueAssumption ==
    /\ ConsumerOf \in [Jobs -> Consumers]
    /\ KeyOf \in [Workers -> Consumers]
    /\ SendsAttempt \subseteq Workers
    /\ MaxAttempts \in Nat \ {0}
    /\ LeaseTimeout \in Nat
    /\ BackoffUnit \in Nat /\ BackoffCap \in Nat
    /\ LeaseLimit \in 1..100
    /\ DueHorizon \in Nat
    /\ Environments \subseteq SUBSET FaultKinds
    /\ NoLease \notin [lease : [job : Jobs, attempt : Nat], success : BOOLEAN]

VARIABLES
    status,         \* the status column, "absent" before the insert
    attempt_count,  \* the attempt_count column
    leaseAge,       \* now() - last_attempt_at, Never while it is null
    dueIn,          \* next_attempt_at - now()
    result,         \* the attempt whose Discord ids the result column holds
    batch,          \* per worker: leases it was handed and has not finished
    current,        \* per worker: the lease it performed and must acknowledge
    acks,           \* acknowledgements on their way to the backend
    posted,         \* per job: the attempts whose post reached Discord
    faults          \* what may go wrong in this behaviour

rowVars    == <<status, attempt_count, leaseAge, dueIn, result>>
workerVars == <<batch, current>>
vars       == <<status, attempt_count, leaseAge, dueIn, result,
                batch, current, acks, posted, faults>>

Attempts  == 1..MaxAttempts
Never     == -1
NoAttempt == 0          \* attempt: None, sent by a bot older than the fence
Leases    == [job : Jobs, attempt : Attempts]
Acks      == [lease : Leases, token : Attempts \cup {NoAttempt},
              success : BOOLEAN, consumer : Consumers]

Statuses == {"absent", "pending", "in_progress", "succeeded", "failed"}
Terminal == {"succeeded", "failed"}

(* interval '30 seconds' * least(attempt_count, 10) *)
Backoff(n) == BackoffUnit * (IF n <= BackoffCap THEN n ELSE BackoffCap)

(* The leases a worker still answers for. *)
Held(w) == batch[w] \cup (IF current[w] = NoLease THEN {} ELSE {current[w].lease})

Init ==
    /\ status = [j \in Jobs |-> "absent"]
    /\ attempt_count = [j \in Jobs |-> 0]
    /\ leaseAge = [j \in Jobs |-> Never]
    /\ dueIn = [j \in Jobs |-> 0]
    /\ result = [j \in Jobs |-> NoAttempt]
    /\ batch = [w \in Workers |-> {}]
    /\ current = [w \in Workers |-> NoLease]
    /\ acks = {}
    /\ posted = [j \in Jobs |-> {}]
    /\ faults \in Environments

-----------------------------------------------------------------------------
(* The backend. *)

(* A feature's transaction commits together with its job. *)
Enqueue(j) ==
    /\ status[j] = "absent"
    /\ status' = [status EXCEPT ![j] = "pending"]
    /\ dueIn' = [dueIn EXCEPT ![j] = 0]
    /\ UNCHANGED <<attempt_count, leaseAge, result, batch, current, acks, posted, faults>>

Due(consumer) ==
    {j \in Jobs : status[j] = "pending" /\ ConsumerOf[j] = consumer /\ dueIn[j] <= 0}

(* The row sets the lease query may pick: the LeaseLimit earliest due. *)
Leasable(consumer) ==
    {S \in SUBSET Due(consumer) :
        /\ S # {}
        /\ \/ S = Due(consumer) /\ Cardinality(S) <= LeaseLimit
           \/ Cardinality(S) = LeaseLimit
        /\ \A j \in S, k \in Due(consumer) \ S : dueIn[j] <= dueIn[k]}

LeaseRows(S) ==
    /\ status' = [j \in Jobs |-> IF j \in S THEN "in_progress" ELSE status[j]]
    /\ attempt_count' =
        [j \in Jobs |-> IF j \in S THEN attempt_count[j] + 1 ELSE attempt_count[j]]
    /\ leaseAge' = [j \in Jobs |-> IF j \in S THEN 0 ELSE leaseAge[j]]
    /\ UNCHANGED <<dueIn, result>>

(* Mutant: the cap is tested with > instead of >=. *)
RetryRows_OneMore(S) ==
    /\ status' = [j \in Jobs |->
            IF j \notin S THEN status[j]
            ELSE IF attempt_count[j] > MaxAttempts THEN "failed" ELSE "pending"]
    /\ dueIn' = [j \in Jobs |->
            IF j \in S THEN Backoff(attempt_count[j]) ELSE dueIn[j]]
    /\ UNCHANGED <<attempt_count, leaseAge, result>>

(* The retry policy a failed ack and the reaper share. *)
RetryRows(S) ==
    /\ status' = [j \in Jobs |->
            IF j \notin S THEN status[j]
            ELSE IF attempt_count[j] >= MaxAttempts THEN "failed" ELSE "pending"]
    /\ dueIn' = [j \in Jobs |->
            IF j \in S THEN Backoff(attempt_count[j]) ELSE dueIn[j]]
    /\ UNCHANGED <<attempt_count, leaseAge, result>>

(* Mutants: the fence before the reaper existed, and the one without it. *)
AckApplies_StatusOnly(m) ==
    status[m.lease.job] = "in_progress" /\ ConsumerOf[m.lease.job] = m.consumer
AckApplies_AnyStatus(m) ==
    /\ ConsumerOf[m.lease.job] = m.consumer
    /\ m.token = NoAttempt \/ m.token = attempt_count[m.lease.job]

(* The where clause of both branches of ack_job. *)
AckApplies(m) ==
    LET j == m.lease.job
    IN  /\ status[j] = "in_progress"
        /\ ConsumerOf[j] = m.consumer
        /\ m.token = NoAttempt \/ m.token = attempt_count[j]

ApplySuccess(m) ==
    /\ status' = [status EXCEPT ![m.lease.job] = "succeeded"]
    /\ result' = [result EXCEPT ![m.lease.job] = m.lease.attempt]
    /\ UNCHANGED <<attempt_count, leaseAge, dueIn>>

(* An ack reaches the backend.  One that does not apply is answered 404,   *)
(* which the bot only logs.                                                *)
ReceiveAck(m) ==
    /\ acks' = acks \ {m}
    /\ \/ AckApplies(m) /\ m.success /\ ApplySuccess(m)
       \/ AckApplies(m) /\ ~m.success /\ RetryRows({m.lease.job})
       \/ ~AckApplies(m) /\ UNCHANGED rowVars
    /\ UNCHANGED <<batch, current, posted, faults>>

(* Mutant: rows are taken only when never stamped. *)
Stranded_NullOnly ==
    {j \in Jobs : status[j] = "in_progress" /\ leaseAge[j] = Never}

Stranded ==
    {j \in Jobs : /\ status[j] = "in_progress"
                  /\ leaseAge[j] > LeaseTimeout \/ leaseAge[j] = Never}

(* The reaper's one update statement moves every stranded row. *)
Reap ==
    /\ Stranded # {}
    /\ RetryRows(Stranded)
    /\ UNCHANGED <<batch, current, acks, posted, faults>>

-----------------------------------------------------------------------------
(* A bot instance: poll, perform, ack. *)

(* One lease call.  The rows come back in no particular order, so the      *)
(* batch is a set.                                                         *)
Lease(w) ==
    /\ batch[w] = {} /\ current[w] = NoLease
    /\ \E S \in Leasable(KeyOf[w]) :
        /\ LeaseRows(S)
        /\ batch' = [batch EXCEPT ![w] =
                {[job |-> j, attempt |-> attempt_count[j] + 1] : j \in S}]
    /\ UNCHANGED <<current, acks, posted, faults>>

(* The update commits and the answer is lost: nobody holds the rows. *)
LeaseAnswerLost(w) ==
    /\ "lease_lost" \in faults
    /\ batch[w] = {} /\ current[w] = NoLease
    /\ \E S \in Leasable(KeyOf[w]) : LeaseRows(S)
    /\ UNCHANGED <<batch, current, acks, posted, faults>>

(* Mutant: the bot reports success for a job it did not post. *)
Perform_Blind(w, l) ==
    /\ current[w] = NoLease
    /\ l \in batch[w]
    /\ \E posts, ok \in BOOLEAN :
        /\ posted' = IF posts
                     THEN [posted EXCEPT ![l.job] = @ \cup {l.attempt}]
                     ELSE posted
        /\ current' = [current EXCEPT ![w] = [lease |-> l, success |-> ok]]
    /\ batch' = [batch EXCEPT ![w] = @ \ {l}]
    /\ UNCHANGED <<status, attempt_count, leaseAge, dueIn, result, acks, faults>>

(* perform_job: Discord takes the post or not, the call succeeds or not. *)
Perform(w, l) ==
    /\ current[w] = NoLease
    /\ l \in batch[w]
    /\ \E posts, ok \in BOOLEAN :
        /\ ok => posts
        /\ posts /\ ~ok => "post_err" \in faults
        /\ posted' = IF posts
                     THEN [posted EXCEPT ![l.job] = @ \cup {l.attempt}]
                     ELSE posted
        /\ current' = [current EXCEPT ![w] = [lease |-> l, success |-> ok]]
    /\ batch' = [batch EXCEPT ![w] = @ \ {l}]
    /\ UNCHANGED <<status, attempt_count, leaseAge, dueIn, result, acks, faults>>

(* The ack leaves.  A worker whose connection breaks goes on with the next *)
(* job while the backend may still receive the request, so the worker is   *)
(* not made to wait for the answer.                                        *)
SendAck(w) ==
    /\ current[w] # NoLease
    /\ acks' = acks \cup
        {[lease    |-> current[w].lease,
          token    |-> IF w \in SendsAttempt THEN current[w].lease.attempt
                                             ELSE NoAttempt,
          success  |-> current[w].success,
          consumer |-> KeyOf[w]]}
    /\ current' = [current EXCEPT ![w] = NoLease]
    /\ UNCHANGED <<status, attempt_count, leaseAge, dueIn, result, batch, posted, faults>>

LoseAck(m) ==
    /\ "ack_lost" \in faults
    /\ acks' = acks \ {m}
    /\ UNCHANGED <<status, attempt_count, leaseAge, dueIn, result,
                   batch, current, posted, faults>>

(* The process dies and a new one polls: what it held is forgotten. *)
Crash(w) ==
    /\ "crash" \in faults
    /\ Held(w) # {}
    /\ batch' = [batch EXCEPT ![w] = {}]
    /\ current' = [current EXCEPT ![w] = NoLease]
    /\ UNCHANGED <<status, attempt_count, leaseAge, dueIn, result, acks, posted, faults>>

-----------------------------------------------------------------------------
(* Time. *)

(* Without the fault "late" every worker is done with a job, and its ack   *)
(* received, before the lease of that job runs out.                        *)
InTime ==
    \A j \in Jobs :
        (status[j] = "in_progress" /\ leaseAge[j] >= LeaseTimeout) =>
            /\ \A w \in Workers : \A l \in Held(w) : l.job # j
            /\ \A m \in acks : m.lease.job # j

Tick ==
    /\ "late" \in faults \/ InTime
    /\ leaseAge' = [j \in Jobs |->
            IF leaseAge[j] = Never \/ leaseAge[j] > LeaseTimeout
            THEN leaseAge[j] ELSE leaseAge[j] + 1]
    /\ dueIn' = [j \in Jobs |->
            IF dueIn[j] > -DueHorizon THEN dueIn[j] - 1 ELSE dueIn[j]]
    /\ UNCHANGED <<status, attempt_count, result, batch, current, acks, posted, faults>>

-----------------------------------------------------------------------------
Next ==
    \/ \E j \in Jobs : Enqueue(j)
    \/ \E w \in Workers : Lease(w)
    \/ \E w \in Workers : LeaseAnswerLost(w)
    \/ \E w \in Workers : \E l \in batch[w] : Perform(w, l)
    \/ \E w \in Workers : SendAck(w)
    \/ \E m \in acks : ReceiveAck(m)
    \/ \E m \in acks : LoseAck(m)
    \/ \E w \in Workers : Crash(w)
    \/ Reap
    \/ Tick

Spec == Init /\ [][Next]_vars

(* The poll loop never stops and performs what it leased; an ack is either *)
(* received or lost; the reaper runs on an interval; time passes.  Nothing *)
(* makes the environment crash, lose or delay anything.                    *)
Fairness ==
    /\ \A w \in Workers :
        /\ WF_vars(Lease(w))
        /\ WF_vars(\E l \in batch[w] : Perform(w, l))
        /\ WF_vars(SendAck(w))
    /\ WF_vars(\E m \in acks : ReceiveAck(m) \/ LoseAck(m))
    /\ WF_vars(Reap)
    /\ WF_vars(Tick)

FairSpec == Spec /\ Fairness

-----------------------------------------------------------------------------
(* Properties. *)

(* Every column, batch and message has its type. *)
TypeOK ==
    /\ status \in [Jobs -> Statuses]
    /\ attempt_count \in [Jobs -> 0..MaxAttempts]
    /\ leaseAge \in [Jobs -> {Never} \cup 0..(LeaseTimeout + 1)]
    /\ dueIn \in [Jobs -> Int]
    /\ result \in [Jobs -> Attempts \cup {NoAttempt}]
    /\ batch \in [Workers -> SUBSET Leases]
    /\ current \in [Workers -> [lease : Leases, success : BOOLEAN] \cup {NoLease}]
    /\ acks \subseteq Acks
    /\ posted \in [Jobs -> SUBSET Attempts]
    /\ faults \in Environments

(* No delivery is lost in silence: a row counts as succeeded only when the *)
(* post whose ids it stores was made (ack_job: "the case that loses a      *)
(* delivery"), whatever crashed, was lost or came late.                    *)
NoSilentLoss ==
    \A j \in Jobs : status[j] = "succeeded" => result[j] \in posted[j]

(* The stored result is the one of the last lease: a predecessor whose job *)
(* was reaped and leased again cannot overwrite it (the attempt fence of   *)
(* ack_job).  It is promised only for bots that echo their attempt.        *)
ResultOfLastLease ==
    \A j \in Jobs : status[j] = "succeeded" => result[j] = attempt_count[j]

(* A lease belongs to one worker: no two bot instances ever answer for the *)
(* same attempt of the same job, not even after a reap (lease_jobs: "lets  *)
(* multiple bot instances lease without collisions").                      *)
LeaseExclusive ==
    \A v, w \in Workers :
        /\ v # w => Held(v) \cap Held(w) = {}
        /\ \A m \in acks : m.lease \notin Held(w)

(* Every attempt of the budget is used before a job is parked, and a job   *)
(* waiting for a retry still has one: MAX_ATTEMPTS bounds the leases, and  *)
(* with them the duplicate posts, even though acks and reaps race.         *)
AttemptBudget ==
    \A j \in Jobs :
        /\ status[j] = "failed" => attempt_count[j] = MaxAttempts
        /\ status[j] = "pending" => attempt_count[j] < MaxAttempts
        /\ \A a \in posted[j] : a <= attempt_count[j]

(* A settled row never changes again: a late ack, a reap or another lease  *)
(* cannot reopen it or replace the ids it stores.                          *)
SettledIsFinal ==
    [][\A j \in Jobs : status[j] \in Terminal =>
           /\ status'[j] = status[j]
           /\ result'[j] = result[j]
           /\ attempt_count'[j] = attempt_count[j]]_vars

(* Every enqueued job is settled, with any number of crashes and losses:   *)
(* the worker or else the reaper moves it on, and its attempts run out.    *)
EventuallySettled ==
    \A j \in Jobs : status[j] = "pending" ~> status[j] \in Terminal

(* The queue implements its abstract promise. *)
AbstractOf(s) == CASE s = "absent"      -> "absent"
                   [] s = "pending"     -> "waiting"
                   [] s = "in_progress" -> "taken"
                   [] s = "succeeded"   -> "done"
                   [] s = "failed"      -> "parked"

AbstractState == [j \in Jobs |-> AbstractOf(status[j])]

Promise == INSTANCE JobDelivery WITH
    state <- AbstractState,
    tries <- attempt_count,
    delivered <- [j \in Jobs |-> posted[j] # {}]

(* Leases, acks, the reaper and every fault only ever amount to the steps  *)
(* of JobDelivery: tried, delivered, given up, finished.                   *)
ImplementsPromise == Promise!QSpec
=============================================================================
