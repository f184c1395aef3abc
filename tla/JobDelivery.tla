---------------------------- MODULE JobDelivery ----------------------------
(***************************************************************************)
(* What the outbound-job queue promises a feature that enqueues a job,     *)
(* without leases, workers, messages or clocks: the job is tried a bounded *)
(* number of times, reported done only after it was delivered, settled     *)
(* once, and settled eventually.  Delivery is at least once: a try that    *)
(* was given up may still reach Discord later.                             *)
(*                                                                         *)
(* OutboundJobs implements this specification; the features that use the   *)
(* queue are composed with it instead of with the queue's machinery.       *)
(***************************************************************************)
EXTENDS Integers

CONSTANTS Jobs, MaxAttempts

VARIABLES
    state,      \* per job: "absent", "waiting", "taken", "done" or "parked"
    tries,      \* per job: how often it was taken
    delivered   \* per job: whether its effect ever reached Discord

qvars == <<state, tries, delivered>>

QInit ==
    /\ state = [j \in Jobs |-> "absent"]
    /\ tries = [j \in Jobs |-> 0]
    /\ delivered = [j \in Jobs |-> FALSE]

Submit(j) ==
    /\ state[j] = "absent"
    /\ state' = [state EXCEPT ![j] = "waiting"]
    /\ UNCHANGED <<tries, delivered>>

(* One lease call takes several jobs at once. *)
Take(S) ==
    /\ \A j \in S : state[j] = "waiting"
    /\ state' = [j \in Jobs |-> IF j \in S THEN "taken" ELSE state[j]]
    /\ tries' = [j \in Jobs |-> IF j \in S THEN tries[j] + 1 ELSE tries[j]]
    /\ UNCHANGED delivered

(* Any try, a current one or one given up, may reach Discord. *)
Deliver(j) ==
    /\ tries[j] > 0
    /\ delivered' = [delivered EXCEPT ![j] = TRUE]
    /\ UNCHANGED <<state, tries>>

Finish(j) ==
    /\ state[j] = "taken"
    /\ delivered[j]
    /\ state' = [state EXCEPT ![j] = "done"]
    /\ UNCHANGED <<tries, delivered>>

(* Tries end without an answer the queue accepts; the reaper ends several  *)
(* at once.                                                                *)
GiveUp(S) ==
    /\ \A j \in S : state[j] = "taken"
    /\ state' = [j \in Jobs |->
            IF j \notin S THEN state[j]
            ELSE IF tries[j] >= MaxAttempts THEN "parked" ELSE "waiting"]
    /\ UNCHANGED <<tries, delivered>>

QNext ==
    \/ \E j \in Jobs : Submit(j) \/ Deliver(j) \/ Finish(j)
    \/ \E S \in SUBSET Jobs : Take(S) \/ GiveUp(S)

QSpec == QInit /\ [][QNext]_qvars
=============================================================================
