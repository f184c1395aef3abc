------------------------- MODULE OutboundJobsProofs -------------------------
(***************************************************************************)
(* Proofs about OutboundJobs for every number of jobs and workers and      *)
(* every value of its constants.                                           *)
(***************************************************************************)
EXTENDS OutboundJobs, TLAPS

(* What a worker or a message may refer to: only leases that were granted, *)
(* and a job has been granted attempt_count of them.                       *)
LeaseBound ==
    /\ \A w \in Workers : \A l \in Held(w) : l.attempt <= attempt_count[l.job]
    /\ \A m \in acks : m.lease.attempt <= attempt_count[m.lease.job]

(* An unborn row was never leased. *)
AbsentUntouched ==
    \A j \in Jobs : status[j] = "absent" => attempt_count[j] = 0

(* The lease being acknowledged has left the batch. *)
CurrentLeftBatch ==
    \A w \in Workers : current[w] # NoLease => current[w].lease \notin batch[w]

(* A success is only ever reported for an attempt that posted. *)
SuccessPosted ==
    /\ \A w \in Workers :
        (current[w] # NoLease /\ current[w].success) =>
            current[w].lease.attempt \in posted[current[w].lease.job]
    /\ \A m \in acks : m.success => m.lease.attempt \in posted[m.lease.job]

(* The inductive invariant: type and attempt budget need the bound on the  *)
(* leases in circulation.                                                  *)
BudgetInv == TypeOK /\ AttemptBudget /\ AbsentUntouched /\ LeaseBound

(* On top of it, the leases in circulation are distinct and honest. *)
LeaseInv == BudgetInv /\ CurrentLeftBatch /\ LeaseExclusive

DeliveryInv == BudgetInv /\ SuccessPosted /\ NoSilentLoss

-----------------------------------------------------------------------------
(* The initial state satisfies the budget invariant. *)
LEMMA InitBudget == Init => BudgetInv
  <1> SUFFICES ASSUME Init PROVE BudgetInv
    OBVIOUS
  <1> USE QueueAssumption DEF Init
  <1>1. TypeOK
    BY DEF TypeOK, Statuses, Never, NoAttempt, Attempts, Leases, Acks
  <1>2. AttemptBudget /\ AbsentUntouched
    BY DEF AttemptBudget, AbsentUntouched
  <1>3. LeaseBound
    BY DEF LeaseBound, Held
  <1> QED
    BY <1>1, <1>2, <1>3 DEF BudgetInv

(* The retry policy keeps the budget: a row with an attempt left goes back *)
(* to pending, one without is parked.                                      *)
LEMMA RetryKeepsBudget ==
  ASSUME NEW S \in SUBSET Jobs, TypeOK, AttemptBudget, AbsentUntouched, RetryRows(S),
         \A j \in S : status[j] = "in_progress", posted' = posted
  PROVE  /\ status' \in [Jobs -> Statuses]
         /\ dueIn' \in [Jobs -> Int]
         /\ UNCHANGED <<attempt_count, leaseAge, result>>
         /\ AttemptBudget' /\ AbsentUntouched'
  <1> USE QueueAssumption DEF RetryRows, TypeOK
  <1>1. status' \in [Jobs -> Statuses]
    BY DEF Statuses
  <1>2. dueIn' \in [Jobs -> Int]
    <2>1. \A n \in Nat : Backoff(n) \in Int
      BY DEF Backoff
    <2> QED
      BY <2>1
  <1>3. UNCHANGED <<attempt_count, leaseAge, result>>
    OBVIOUS
  <1>4. \A j \in Jobs : status'[j] =
            IF j \notin S THEN status[j]
            ELSE IF attempt_count[j] >= MaxAttempts THEN "failed" ELSE "pending"
    OBVIOUS
  <1>5. \A j \in Jobs : attempt_count[j] \in 0..MaxAttempts
    OBVIOUS
  <1>6. AttemptBudget'
    <2> HIDE DEF RetryRows, TypeOK
    <2>1. \A j \in Jobs :
            /\ status'[j] = "failed" => attempt_count'[j] = MaxAttempts
            /\ status'[j] = "pending" => attempt_count'[j] < MaxAttempts
      BY <1>3, <1>4, <1>5 DEF AttemptBudget
    <2>2. \A j \in Jobs : \A a \in posted'[j] : a <= attempt_count'[j]
      BY <1>3 DEF AttemptBudget
    <2> QED
      BY <2>1, <2>2 DEF AttemptBudget
  <1>7. AbsentUntouched'
    BY <1>3, <1>4 DEF AbsentUntouched
  <1> QED
    BY <1>1, <1>2, <1>3, <1>6, <1>7

(* A lease stays within the budget: only a pending row is leased, and it   *)
(* has an attempt left.                                                    *)
LEMMA LeaseKeepsBudget ==
  ASSUME NEW S \in SUBSET Jobs, TypeOK, AttemptBudget, AbsentUntouched, LeaseRows(S),
         \A j \in S : status[j] = "pending", posted' = posted
  PROVE  /\ status' \in [Jobs -> Statuses]
         /\ attempt_count' \in [Jobs -> 0..MaxAttempts]
         /\ \A j \in S : attempt_count'[j] = attempt_count[j] + 1
         /\ \A j \in S : attempt_count[j] + 1 \in Attempts
         /\ \A j \in Jobs \ S : attempt_count'[j] = attempt_count[j]
         /\ leaseAge' \in [Jobs -> {Never} \cup 0..(LeaseTimeout + 1)]
         /\ UNCHANGED <<dueIn, result>>
         /\ AttemptBudget' /\ AbsentUntouched'
  <1> USE QueueAssumption DEF LeaseRows, TypeOK
  <1>1. \A j \in S : attempt_count[j] \in 0..MaxAttempts /\ attempt_count[j] < MaxAttempts
    BY DEF AttemptBudget
  <1>2. attempt_count' \in [Jobs -> 0..MaxAttempts]
    BY <1>1
  <1>3. \A j \in S : attempt_count'[j] = attempt_count[j] + 1
    OBVIOUS
  <1>4. \A j \in S : attempt_count[j] + 1 \in Attempts
    BY <1>1 DEF Attempts
  <1>5. \A j \in Jobs \ S : attempt_count'[j] = attempt_count[j]
    OBVIOUS
  <1>6. status' \in [Jobs -> Statuses]
    BY DEF Statuses
  <1>7. leaseAge' \in [Jobs -> {Never} \cup 0..(LeaseTimeout + 1)]
    OBVIOUS
  <1>8. AttemptBudget'
    <2> SUFFICES ASSUME NEW j \in Jobs
                 PROVE  /\ status'[j] = "failed" => attempt_count'[j] = MaxAttempts
                        /\ status'[j] = "pending" => attempt_count'[j] < MaxAttempts
                        /\ \A a \in posted[j] : a <= attempt_count'[j]
      BY DEF AttemptBudget
    <2>1. CASE j \in S
      <3>1. status'[j] = "in_progress"
        BY <2>1
      <3>2. \A a \in posted[j] : a \in Int /\ a <= attempt_count[j]
        BY DEF AttemptBudget, Attempts
      <3> QED
        BY <2>1, <3>1, <3>2, <1>3, <1>1
    <2>2. CASE j \notin S
      BY <2>2, <1>5 DEF AttemptBudget
    <2> QED
      BY <2>1, <2>2
  <1>9. AbsentUntouched'
    BY <1>5 DEF AbsentUntouched
  <1> QED
    BY <1>2, <1>3, <1>4, <1>5, <1>6, <1>7, <1>8, <1>9

(* Every step of the queue, of a bot and of the clock keeps the budget.    *)
LEMMA BudgetStep == BudgetInv /\ [Next]_vars => BudgetInv'
  <1> SUFFICES ASSUME BudgetInv, [Next]_vars PROVE BudgetInv'
    OBVIOUS
  <1> USE QueueAssumption
  <1>a. TypeOK /\ AttemptBudget /\ AbsentUntouched /\ LeaseBound
    BY DEF BudgetInv
  <1>f. faults' = faults
    BY DEF Next, vars, Enqueue, Lease, LeaseAnswerLost, Perform, SendAck, ReceiveAck, LoseAck,
           Crash, Reap, Tick
  <1>1. ASSUME NEW j \in Jobs, Enqueue(j) PROVE BudgetInv'
    <2>1. TypeOK'
      BY <1>a, <1>1 DEF Enqueue, TypeOK, Statuses
    <2>2. AttemptBudget' /\ AbsentUntouched'
      BY <1>a, <1>1 DEF Enqueue, TypeOK, AttemptBudget, AbsentUntouched
    <2>3. LeaseBound'
      BY <1>a, <1>1 DEF Enqueue, LeaseBound, Held
    <2> QED
      BY <2>1, <2>2, <2>3 DEF BudgetInv
  <1>2. ASSUME NEW w \in Workers, Lease(w) PROVE BudgetInv'
    <2>1. PICK S \in Leasable(KeyOf[w]) :
            /\ LeaseRows(S)
            /\ batch' = [batch EXCEPT ![w] =
                  {[job |-> j, attempt |-> attempt_count[j] + 1] : j \in S}]
      BY <1>2 DEF Lease
    <2>2. UNCHANGED <<current, acks, posted>> /\ current[w] = NoLease
      BY <1>2 DEF Lease
    <2>3. S \in SUBSET Jobs /\ \A j \in S : status[j] = "pending"
      BY DEF Leasable, Due
    <2>4. /\ status' \in [Jobs -> Statuses]
          /\ attempt_count' \in [Jobs -> 0..MaxAttempts]
          /\ \A j \in S : attempt_count'[j] = attempt_count[j] + 1
          /\ \A j \in S : attempt_count[j] + 1 \in Attempts
          /\ \A j \in Jobs \ S : attempt_count'[j] = attempt_count[j]
          /\ leaseAge' \in [Jobs -> {Never} \cup 0..(LeaseTimeout + 1)]
          /\ UNCHANGED <<dueIn, result>>
          /\ AttemptBudget' /\ AbsentUntouched'
      BY <1>a, <2>1, <2>2, <2>3, LeaseKeepsBudget
    <2>5. batch' \in [Workers -> SUBSET Leases]
      <3>1. {[job |-> j, attempt |-> attempt_count[j] + 1] : j \in S} \in SUBSET Leases
        BY <2>3, <2>4 DEF Leases
      <3> QED
        BY <3>1, <2>1, <1>a DEF TypeOK
    <2>6. TypeOK'
      BY <1>a, <1>f, <2>2, <2>4, <2>5 DEF TypeOK
    <2>7. \A j \in Jobs : attempt_count[j] <= attempt_count'[j]
      BY <1>a, <2>3, <2>4 DEF TypeOK
    <2>8. LeaseBound'
      <3>1. \A v \in Workers : \A l \in Held(v)' : l.attempt <= attempt_count'[l.job]
        <4> SUFFICES ASSUME NEW v \in Workers, NEW l \in Held(v)'
                     PROVE  l.attempt <= attempt_count'[l.job]
          OBVIOUS
        <4>1. CASE l \in Held(v)
          <5>1. l.attempt <= attempt_count[l.job] /\ l \in Leases
            BY <4>1, <1>a DEF LeaseBound, Held, TypeOK
          <5> QED
            BY <5>1, <2>7, <2>4, <1>a DEF Leases, Attempts, TypeOK
        <4>2. CASE l \notin Held(v)
          <5>1. v = w /\ l \in {[job |-> j, attempt |-> attempt_count[j] + 1] : j \in S}
            BY <4>2, <2>1, <2>2, <1>a DEF Held, TypeOK
          <5> QED
            BY <5>1, <2>4, <2>3, <1>a DEF TypeOK
        <4> QED
          BY <4>1, <4>2
      <3>2. \A m \in acks' : m.lease.attempt <= attempt_count'[m.lease.job]
        <4> SUFFICES ASSUME NEW m \in acks PROVE m.lease.attempt <= attempt_count'[m.lease.job]
          BY <2>2
        <4>1. m.lease.job \in Jobs /\ m.lease.attempt \in Attempts
          BY <1>a DEF TypeOK, Acks, Leases
        <4> QED
          BY <4>1, <2>7, <2>4, <1>a DEF LeaseBound, TypeOK, Attempts
      <3> QED
        BY <3>1, <3>2 DEF LeaseBound
    <2> QED
      BY <2>4, <2>6, <2>8 DEF BudgetInv
  <1>3. ASSUME NEW w \in Workers, LeaseAnswerLost(w) PROVE BudgetInv'
    <2>1. PICK S \in Leasable(KeyOf[w]) : LeaseRows(S)
      BY <1>3 DEF LeaseAnswerLost
    <2>2. UNCHANGED <<batch, current, acks, posted>>
      BY <1>3 DEF LeaseAnswerLost
    <2>3. S \in SUBSET Jobs /\ \A j \in S : status[j] = "pending"
      BY DEF Leasable, Due
    <2>4. /\ status' \in [Jobs -> Statuses]
          /\ attempt_count' \in [Jobs -> 0..MaxAttempts]
          /\ \A j \in S : attempt_count'[j] = attempt_count[j] + 1
          /\ \A j \in Jobs \ S : attempt_count'[j] = attempt_count[j]
          /\ leaseAge' \in [Jobs -> {Never} \cup 0..(LeaseTimeout + 1)]
          /\ UNCHANGED <<dueIn, result>>
          /\ AttemptBudget' /\ AbsentUntouched'
      BY <1>a, <2>1, <2>2, <2>3, LeaseKeepsBudget
    <2>5. TypeOK'
      BY <1>a, <1>f, <2>2, <2>4 DEF TypeOK
    <2>6. \A j \in Jobs : attempt_count[j] <= attempt_count'[j]
      BY <1>a, <2>3, <2>4 DEF TypeOK
    <2>7. LeaseBound'
      <3> SUFFICES ASSUME NEW l \in Leases, l.attempt <= attempt_count[l.job]
                   PROVE  l.attempt <= attempt_count'[l.job]
        BY <1>a, <2>2 DEF LeaseBound, Held, TypeOK, Acks
      <3> QED
        BY <2>4, <2>6, <1>a DEF Leases, Attempts, TypeOK
    <2> QED
      BY <2>4, <2>5, <2>7 DEF BudgetInv
  <1>4. ASSUME NEW w \in Workers, NEW l \in batch[w], Perform(w, l) PROVE BudgetInv'
    <2>1. PICK posts \in BOOLEAN, ok \in BOOLEAN :
            /\ posted' = IF posts THEN [posted EXCEPT ![l.job] = @ \cup {l.attempt}]
                         ELSE posted
            /\ current' = [current EXCEPT ![w] = [lease |-> l, success |-> ok]]
      BY <1>4 DEF Perform
    <2>2. batch' = [batch EXCEPT ![w] = @ \ {l}]
          /\ UNCHANGED <<status, attempt_count, leaseAge, dueIn, result, acks>>
      BY <1>4 DEF Perform
    <2>3. l \in Leases /\ l.attempt <= attempt_count[l.job]
      BY <1>a DEF TypeOK, LeaseBound, Held
    <2>4. posted' \in [Jobs -> SUBSET Attempts]
      BY <2>1, <2>3, <1>a DEF TypeOK, Leases
    <2>5. TypeOK'
      BY <1>a, <1>f, <2>1, <2>2, <2>3, <2>4 DEF TypeOK
    <2>6. AttemptBudget'
      BY <1>a, <2>1, <2>2, <2>3 DEF AttemptBudget, TypeOK, Leases
    <2>7. AbsentUntouched'
      BY <1>a, <2>2 DEF AbsentUntouched
    <2>8. LeaseBound'
      <3>1. \A v \in Workers : \A k \in Held(v)' : k \in Held(v)
        BY <2>1, <2>2, <1>a DEF Held, TypeOK
      <3> QED
        BY <3>1, <2>2, <1>a DEF LeaseBound
    <2> QED
      BY <2>5, <2>6, <2>7, <2>8 DEF BudgetInv
  <1>5. ASSUME NEW w \in Workers, SendAck(w) PROVE BudgetInv'
    <2> DEFINE m == [lease    |-> current[w].lease,
                     token    |-> IF w \in SendsAttempt THEN current[w].lease.attempt
                                                        ELSE NoAttempt,
                     success  |-> current[w].success,
                     consumer |-> KeyOf[w]]
    <2>1. /\ current[w] # NoLease
          /\ acks' = acks \cup {m}
          /\ current' = [current EXCEPT ![w] = NoLease]
          /\ UNCHANGED <<status, attempt_count, leaseAge, dueIn, result, batch, posted>>
      BY <1>5 DEF SendAck
    <2>2. current[w] \in [lease : Leases, success : BOOLEAN]
      BY <1>a, <2>1 DEF TypeOK
    <2>3. m \in Acks
      BY <2>2 DEF Acks, Leases
    <2>4. TypeOK'
      BY <1>a, <1>f, <2>1, <2>3 DEF TypeOK
    <2>5. AttemptBudget' /\ AbsentUntouched'
      BY <1>a, <2>1 DEF AttemptBudget, AbsentUntouched
    <2>6. LeaseBound'
      <3>1. \A v \in Workers : \A k \in Held(v)' : k \in Held(v)
        BY <2>1, <1>a DEF Held, TypeOK
      <3>2. m.lease \in Held(w)
        BY <2>1 DEF Held
      <3> QED
        BY <3>1, <3>2, <2>1, <1>a DEF LeaseBound
    <2> QED
      BY <2>4, <2>5, <2>6 DEF BudgetInv
  <1>6. ASSUME NEW m \in acks, ReceiveAck(m) PROVE BudgetInv'
    <2>1. acks' = acks \ {m} /\ UNCHANGED <<batch, current, posted>>
      BY <1>6 DEF ReceiveAck
    <2>2. m \in Acks
      BY <1>a DEF TypeOK
    <2>3. /\ status' \in [Jobs -> Statuses]
          /\ dueIn' \in [Jobs -> Int]
          /\ result' \in [Jobs -> Attempts \cup {NoAttempt}]
          /\ UNCHANGED <<attempt_count, leaseAge>>
          /\ AttemptBudget' /\ AbsentUntouched'
      <3>1. CASE AckApplies(m) /\ m.success /\ ApplySuccess(m)
        BY <1>a, <3>1, <2>1, <2>2
           DEF ApplySuccess, TypeOK, Acks, Leases, Statuses, AttemptBudget, AbsentUntouched
      <3>2. CASE AckApplies(m) /\ ~m.success /\ RetryRows({m.lease.job})
        <4>1. {m.lease.job} \in SUBSET Jobs /\ \A j \in {m.lease.job} : status[j] = "in_progress"
          BY <2>2, <3>2 DEF Acks, Leases, AckApplies
        <4> QED
          BY <4>1, <3>2, <2>1, <1>a, RetryKeepsBudget DEF TypeOK
      <3>3. CASE ~AckApplies(m) /\ UNCHANGED rowVars
        BY <1>a, <3>3, <2>1 DEF rowVars, TypeOK, AttemptBudget, AbsentUntouched
      <3> QED
        BY <3>1, <3>2, <3>3, <1>6 DEF ReceiveAck
    <2>4. TypeOK'
      BY <1>a, <1>f, <2>1, <2>3 DEF TypeOK
    <2>5. LeaseBound'
      BY <1>a, <2>1, <2>3 DEF LeaseBound, Held
    <2> QED
      BY <2>3, <2>4, <2>5 DEF BudgetInv
  <1>7. ASSUME NEW m \in acks, LoseAck(m) PROVE BudgetInv'
    BY <1>a, <1>7 DEF LoseAck, BudgetInv, TypeOK, AttemptBudget, AbsentUntouched, LeaseBound, Held
  <1>8. ASSUME NEW w \in Workers, Crash(w) PROVE BudgetInv'
    <2>1. TypeOK'
      BY <1>a, <1>8 DEF Crash, TypeOK
    <2>2. AttemptBudget' /\ AbsentUntouched'
      BY <1>a, <1>8 DEF Crash, AttemptBudget, AbsentUntouched
    <2>3. \A v \in Workers : \A k \in Held(v)' : k \in Held(v)
      BY <1>a, <1>8 DEF Crash, Held, TypeOK
    <2>4. LeaseBound'
      BY <1>a, <1>8, <2>3 DEF Crash, LeaseBound
    <2> QED
      BY <2>1, <2>2, <2>4 DEF BudgetInv
  <1>9. CASE Reap
    <2>1. UNCHANGED <<batch, current, acks, posted>> /\ RetryRows(Stranded)
      BY <1>9 DEF Reap
    <2>2. Stranded \in SUBSET Jobs /\ \A j \in Stranded : status[j] = "in_progress"
      BY DEF Stranded
    <2>3. /\ status' \in [Jobs -> Statuses]
          /\ dueIn' \in [Jobs -> Int]
          /\ UNCHANGED <<attempt_count, leaseAge, result>>
          /\ AttemptBudget' /\ AbsentUntouched'
      BY <1>a, <2>1, <2>2, RetryKeepsBudget
    <2>4. TypeOK'
      BY <1>a, <1>f, <2>1, <2>3 DEF TypeOK
    <2>5. LeaseBound'
      BY <1>a, <2>1, <2>3 DEF LeaseBound, Held
    <2> QED
      BY <2>3, <2>4, <2>5 DEF BudgetInv
  <1>10. CASE Tick
    <2>1. UNCHANGED <<status, attempt_count, result, batch, current, acks, posted>>
      BY <1>10 DEF Tick
    <2>2. leaseAge' \in [Jobs -> {Never} \cup 0..(LeaseTimeout + 1)]
      BY <1>a, <1>10 DEF Tick, TypeOK, Never
    <2>3. dueIn' \in [Jobs -> Int]
      BY <1>a, <1>10 DEF Tick, TypeOK
    <2>4. TypeOK'
      BY <1>a, <1>f, <2>1, <2>2, <2>3 DEF TypeOK
    <2> QED
      BY <1>a, <2>1, <2>4 DEF BudgetInv, AttemptBudget, AbsentUntouched, LeaseBound, Held
  <1>11. CASE UNCHANGED vars
    BY <1>a, <1>11 DEF vars, BudgetInv, TypeOK, AttemptBudget, AbsentUntouched, LeaseBound, Held
  <1> QED
    BY <1>1, <1>2, <1>3, <1>4, <1>5, <1>6, <1>7, <1>8, <1>9, <1>10, <1>11 DEF Next

(* Every reachable state of the queue is well typed, for any number of     *)
(* jobs, workers and attempts and under every fault.                       *)
THEOREM TypeCorrect == Spec => []TypeOK
  <1>1. Spec => []BudgetInv
    BY InitBudget, BudgetStep, PTL DEF Spec
  <1>2. BudgetInv => TypeOK
    BY DEF BudgetInv
  <1> QED
    BY <1>1, <1>2, PTL

(* No job is leased more than MaxAttempts times, a retried one still has   *)
(* an attempt, and a parked one has used them all.                         *)
THEOREM BudgetRespected == Spec => []AttemptBudget
  <1>1. Spec => []BudgetInv
    BY InitBudget, BudgetStep, PTL DEF Spec
  <1>2. BudgetInv => AttemptBudget
    BY DEF BudgetInv
  <1> QED
    BY <1>1, <1>2, PTL

-----------------------------------------------------------------------------
(* A lease belongs to one worker.                                          *)

(* Steps that grant no lease hand none from one worker to another; what    *)
(* a worker holds afterwards it held before.                               *)
LEMMA LeaseStep == LeaseInv /\ [Next]_vars => LeaseInv'
  <1> SUFFICES ASSUME LeaseInv, [Next]_vars PROVE CurrentLeftBatch' /\ LeaseExclusive'
    BY BudgetStep DEF LeaseInv
  <1> USE QueueAssumption
  <1>a. TypeOK /\ LeaseBound /\ CurrentLeftBatch /\ LeaseExclusive
    BY DEF LeaseInv, BudgetInv
  <1>b. BudgetInv
    BY DEF LeaseInv
  <1>c. ASSUME UNCHANGED <<batch, current>>, acks' \subseteq acks
        PROVE  CurrentLeftBatch' /\ LeaseExclusive'
    BY <1>a, <1>c DEF CurrentLeftBatch, LeaseExclusive, Held
  <1>1. ASSUME NEW j \in Jobs, Enqueue(j) PROVE CurrentLeftBatch' /\ LeaseExclusive'
    BY <1>c, <1>1 DEF Enqueue
  <1>2. ASSUME NEW w \in Workers, Lease(w) PROVE CurrentLeftBatch' /\ LeaseExclusive'
    <2>1. PICK S \in Leasable(KeyOf[w]) :
            batch' = [batch EXCEPT ![w] =
                  {[job |-> j, attempt |-> attempt_count[j] + 1] : j \in S}]
      BY <1>2 DEF Lease
    <2>2. UNCHANGED <<current, acks>> /\ current[w] = NoLease
      BY <1>2 DEF Lease
    <2>3. S \in SUBSET Jobs
      BY DEF Leasable, Due
    <2>4. \A l \in batch'[w] : l.job \in Jobs /\ l.attempt = attempt_count[l.job] + 1
      BY <2>1, <2>3, <1>a DEF TypeOK
    <2>5. \A v \in Workers : v # w => Held(v)' = Held(v)
      BY <2>1, <2>2, <1>a DEF Held, TypeOK
    <2>6. Held(w)' = batch'[w]
      BY <2>2 DEF Held
    <2>7. \A v \in Workers : \A l \in Held(v) : l \notin batch'[w]
      <3> SUFFICES ASSUME NEW v \in Workers, NEW l \in Held(v), l \in batch'[w] PROVE FALSE
        OBVIOUS
      <3>1. l.attempt <= attempt_count[l.job]
        BY <1>a DEF LeaseBound
      <3>2. l.job \in Jobs /\ l.attempt = attempt_count[l.job] + 1
        BY <2>4
      <3>3. attempt_count[l.job] \in Int
        BY <3>2, <1>a DEF TypeOK
      <3> QED
        BY <3>1, <3>2, <3>3
    <2>8. \A m \in acks : m.lease \notin batch'[w]
      <3> SUFFICES ASSUME NEW m \in acks, m.lease \in batch'[w] PROVE FALSE
        OBVIOUS
      <3>1. m.lease.attempt <= attempt_count[m.lease.job]
        BY <1>a DEF LeaseBound
      <3>2. m.lease.job \in Jobs /\ m.lease.attempt = attempt_count[m.lease.job] + 1
        BY <2>4
      <3>3. attempt_count[m.lease.job] \in Int
        BY <3>2, <1>a DEF TypeOK
      <3> QED
        BY <3>1, <3>2, <3>3
    <2>9. CurrentLeftBatch'
      BY <2>1, <2>2, <1>a DEF CurrentLeftBatch, TypeOK
    <2>10. LeaseExclusive'
      BY <2>2, <2>5, <2>6, <2>7, <2>8, <1>a DEF LeaseExclusive
    <2> QED
      BY <2>9, <2>10
  <1>3. ASSUME NEW w \in Workers, LeaseAnswerLost(w) PROVE CurrentLeftBatch' /\ LeaseExclusive'
    BY <1>c, <1>3 DEF LeaseAnswerLost
  <1>4. ASSUME NEW w \in Workers, NEW l \in batch[w], Perform(w, l)
        PROVE  CurrentLeftBatch' /\ LeaseExclusive'
    <2>1. PICK ok \in BOOLEAN :
            current' = [current EXCEPT ![w] = [lease |-> l, success |-> ok]]
      BY <1>4 DEF Perform
    <2>2. batch' = [batch EXCEPT ![w] = @ \ {l}] /\ UNCHANGED acks /\ current[w] = NoLease
      BY <1>4 DEF Perform
    <2>3. l \in Leases
      BY <1>a DEF TypeOK
    <2>4. [lease |-> l, success |-> ok] # NoLease
      BY <2>3 DEF Leases, Attempts
    <2>5. \A v \in Workers : Held(v)' = Held(v)
      BY <2>1, <2>2, <2>4, <1>a DEF Held, TypeOK
    <2>6. LeaseExclusive'
      BY <2>2, <2>5, <1>a DEF LeaseExclusive
    <2>7. CurrentLeftBatch'
      BY <2>1, <2>2, <1>a DEF CurrentLeftBatch, TypeOK
    <2> QED
      BY <2>6, <2>7
  <1>5. ASSUME NEW w \in Workers, SendAck(w) PROVE CurrentLeftBatch' /\ LeaseExclusive'
    <2>1. /\ current[w] # NoLease
          /\ \A m \in acks' : m \in acks \/ m.lease = current[w].lease
          /\ current' = [current EXCEPT ![w] = NoLease]
          /\ batch' = batch
      BY <1>5 DEF SendAck
    <2>2. \A v \in Workers : v # w => Held(v)' = Held(v)
      BY <2>1, <1>a DEF Held, TypeOK
    <2>3. Held(w)' = batch[w] /\ batch[w] \subseteq Held(w) /\ current[w].lease \in Held(w)
      BY <2>1, <1>a DEF Held, TypeOK
    <2>4. current[w].lease \notin batch[w]
      BY <2>1, <1>a DEF CurrentLeftBatch
    <2>5. LeaseExclusive'
      BY <2>1, <2>2, <2>3, <2>4, <1>a DEF LeaseExclusive
    <2>6. CurrentLeftBatch'
      BY <2>1, <1>a DEF CurrentLeftBatch, TypeOK
    <2> QED
      BY <2>5, <2>6
  <1>6. ASSUME NEW m \in acks, ReceiveAck(m) PROVE CurrentLeftBatch' /\ LeaseExclusive'
    BY <1>c, <1>6 DEF ReceiveAck
  <1>7. ASSUME NEW m \in acks, LoseAck(m) PROVE CurrentLeftBatch' /\ LeaseExclusive'
    BY <1>c, <1>7 DEF LoseAck
  <1>8. ASSUME NEW w \in Workers, Crash(w) PROVE CurrentLeftBatch' /\ LeaseExclusive'
    <2>1. /\ batch' = [batch EXCEPT ![w] = {}]
          /\ current' = [current EXCEPT ![w] = NoLease]
          /\ acks' = acks
      BY <1>8 DEF Crash
    <2>2. Held(w)' = {} /\ \A v \in Workers : v # w => Held(v)' = Held(v)
      BY <2>1, <1>a DEF Held, TypeOK
    <2>3. LeaseExclusive'
      BY <2>1, <2>2, <1>a DEF LeaseExclusive
    <2>4. CurrentLeftBatch'
      BY <2>1, <1>a DEF CurrentLeftBatch, TypeOK
    <2> QED
      BY <2>3, <2>4
  <1>9. CASE Reap
    BY <1>c, <1>9 DEF Reap
  <1>10. CASE Tick
    BY <1>c, <1>10 DEF Tick
  <1>11. CASE UNCHANGED vars
    BY <1>c, <1>11 DEF vars
  <1> QED
    BY <1>1, <1>2, <1>3, <1>4, <1>5, <1>6, <1>7, <1>8, <1>9, <1>10, <1>11 DEF Next

(* No two bots ever answer for the same attempt, and no lease is both held *)
(* and already answered for.                                               *)
THEOREM LeasesExclusive == Spec => []LeaseExclusive
  <1>1. Init => LeaseInv
    BY InitBudget DEF Init, LeaseInv, CurrentLeftBatch, LeaseExclusive, Held
  <1>2. LeaseInv => LeaseExclusive
    BY DEF LeaseInv
  <1> QED
    BY <1>1, <1>2, LeaseStep, PTL DEF Spec

-----------------------------------------------------------------------------
(* No delivery is lost in silence.                                         *)

LEMMA DeliveryStep == DeliveryInv /\ [Next]_vars => DeliveryInv'
  <1> SUFFICES ASSUME DeliveryInv, [Next]_vars PROVE SuccessPosted' /\ NoSilentLoss'
    BY BudgetStep DEF DeliveryInv
  <1> USE QueueAssumption
  <1>a. TypeOK /\ SuccessPosted /\ NoSilentLoss
    BY DEF DeliveryInv, BudgetInv
  <1>c. ASSUME UNCHANGED <<batch, current, posted>>, acks' \subseteq acks
        PROVE  SuccessPosted'
    BY <1>a, <1>c DEF SuccessPosted
  <1>d. ASSUME UNCHANGED <<result, posted>>,
               \A j \in Jobs : status'[j] = "succeeded" => status[j] = "succeeded"
        PROVE  NoSilentLoss'
    BY <1>a, <1>d DEF NoSilentLoss
  <1>e. ASSUME NEW S \in SUBSET Jobs, RetryRows(S)
        PROVE  \A j \in Jobs : status'[j] = "succeeded" => status[j] = "succeeded"
    BY <1>e DEF RetryRows
  <1>f. ASSUME NEW S \in SUBSET Jobs, LeaseRows(S)
        PROVE  \A j \in Jobs : status'[j] = "succeeded" => status[j] = "succeeded"
    BY <1>f DEF LeaseRows
  <1>1. ASSUME NEW j \in Jobs, Enqueue(j) PROVE SuccessPosted' /\ NoSilentLoss'
    <2>1. \A k \in Jobs : status'[k] = "succeeded" => status[k] = "succeeded"
      BY <1>1, <1>a DEF Enqueue, TypeOK
    <2> QED
      BY <1>c, <1>d, <1>1, <2>1 DEF Enqueue
  <1>2. ASSUME NEW w \in Workers, Lease(w) PROVE SuccessPosted' /\ NoSilentLoss'
    <2>1. PICK S \in Leasable(KeyOf[w]) : LeaseRows(S)
      BY <1>2 DEF Lease
    <2>2. S \in SUBSET Jobs
      BY DEF Leasable, Due
    <2>3. UNCHANGED <<current, acks, posted, result>>
      BY <1>2, <2>1 DEF Lease, LeaseRows
    <2>4. SuccessPosted'
      BY <2>3, <1>a DEF SuccessPosted
    <2> QED
      BY <1>d, <1>f, <2>1, <2>2, <2>3, <2>4
  <1>3. ASSUME NEW w \in Workers, LeaseAnswerLost(w) PROVE SuccessPosted' /\ NoSilentLoss'
    <2>1. PICK S \in Leasable(KeyOf[w]) : LeaseRows(S)
      BY <1>3 DEF LeaseAnswerLost
    <2>2. S \in SUBSET Jobs
      BY DEF Leasable, Due
    <2> QED
      BY <1>c, <1>d, <1>f, <1>3, <2>1, <2>2 DEF LeaseAnswerLost, LeaseRows
  <1>4. ASSUME NEW w \in Workers, NEW l \in batch[w], Perform(w, l)
        PROVE  SuccessPosted' /\ NoSilentLoss'
    <2>1. PICK posts \in BOOLEAN, ok \in BOOLEAN :
            /\ ok => posts
            /\ posted' = IF posts THEN [posted EXCEPT ![l.job] = @ \cup {l.attempt}]
                         ELSE posted
            /\ current' = [current EXCEPT ![w] = [lease |-> l, success |-> ok]]
      BY <1>4 DEF Perform
    <2>2. UNCHANGED <<status, result, acks>>
      BY <1>4 DEF Perform
    <2>3. l \in Leases
      BY <1>a DEF TypeOK
    <2>4. \A j \in Jobs : posted[j] \subseteq posted'[j]
      BY <2>1, <2>3, <1>a DEF TypeOK, Leases
    <2>5. ok => l.attempt \in posted'[l.job]
      BY <2>1, <2>3, <1>a DEF TypeOK, Leases
    <2>6. SuccessPosted'
      <3>1. ASSUME NEW v \in Workers, current'[v] # NoLease, current'[v].success
            PROVE  current'[v].lease.attempt \in posted'[current'[v].lease.job]
        <4>1. CASE v = w
          BY <4>1, <3>1, <2>1, <2>5, <1>a DEF TypeOK
        <4>2. CASE v # w
          <5>1. current'[v] = current[v]
            BY <4>2, <2>1, <1>a DEF TypeOK
          <5>2. current[v].lease.job \in Jobs
            BY <5>1, <3>1, <1>a DEF TypeOK, Leases
          <5> QED
            BY <5>1, <5>2, <3>1, <2>4, <1>a DEF SuccessPosted
        <4> QED
          BY <4>1, <4>2
      <3>2. ASSUME NEW m \in acks, m.success
            PROVE  m.lease.attempt \in posted'[m.lease.job]
        <4>1. m.lease.job \in Jobs
          BY <1>a DEF TypeOK, Acks, Leases
        <4> QED
          BY <4>1, <3>2, <2>4, <1>a DEF SuccessPosted
      <3> QED
        BY <3>1, <3>2, <2>2 DEF SuccessPosted
    <2>7. NoSilentLoss'
      BY <2>2, <2>4, <1>a DEF NoSilentLoss
    <2> QED
      BY <2>6, <2>7
  <1>5. ASSUME NEW w \in Workers, SendAck(w) PROVE SuccessPosted' /\ NoSilentLoss'
    <2>1. /\ current[w] # NoLease
          /\ \A m \in acks' : m \in acks \/ (m.lease = current[w].lease /\ m.success = current[w].success)
          /\ current' = [current EXCEPT ![w] = NoLease]
          /\ UNCHANGED <<status, result, posted>>
      BY <1>5 DEF SendAck
    <2>2. SuccessPosted'
      BY <2>1, <1>a DEF SuccessPosted, TypeOK
    <2> QED
      BY <2>1, <2>2, <1>d
  <1>6. ASSUME NEW m \in acks, ReceiveAck(m) PROVE SuccessPosted' /\ NoSilentLoss'
    <2>1. SuccessPosted'
      BY <1>c, <1>6 DEF ReceiveAck
    <2>2. posted' = posted /\ m.lease.job \in Jobs
      BY <1>6, <1>a DEF ReceiveAck, TypeOK, Acks, Leases
    <2>3. CASE m.success /\ ApplySuccess(m)
      <3>1. m.lease.attempt \in posted[m.lease.job]
        BY <2>3, <1>a DEF SuccessPosted
      <3>2. NoSilentLoss'
        BY <2>2, <2>3, <3>1, <1>a DEF ApplySuccess, NoSilentLoss, TypeOK
      <3> QED
        BY <2>1, <3>2
    <2>4. CASE RetryRows({m.lease.job})
      BY <2>1, <2>2, <2>4, <1>d, <1>e DEF RetryRows
    <2>5. CASE UNCHANGED rowVars
      BY <2>1, <2>2, <2>5, <1>d DEF rowVars
    <2> QED
      BY <2>3, <2>4, <2>5, <1>6 DEF ReceiveAck
  <1>7. ASSUME NEW m \in acks, LoseAck(m) PROVE SuccessPosted' /\ NoSilentLoss'
    BY <1>c, <1>d, <1>7 DEF LoseAck
  <1>8. ASSUME NEW w \in Workers, Crash(w) PROVE SuccessPosted' /\ NoSilentLoss'
    <2>1. SuccessPosted'
      BY <1>8, <1>a DEF Crash, SuccessPosted, TypeOK
    <2> QED
      BY <2>1, <1>d, <1>8 DEF Crash
  <1>9. CASE Reap
    <2>1. Stranded \in SUBSET Jobs
      BY DEF Stranded
    <2> QED
      BY <1>c, <1>d, <1>e, <1>9, <2>1 DEF Reap, RetryRows
  <1>10. CASE Tick
    BY <1>c, <1>d, <1>10 DEF Tick
  <1>11. CASE UNCHANGED vars
    BY <1>c, <1>d, <1>11 DEF vars
  <1> QED
    BY <1>1, <1>2, <1>3, <1>4, <1>5, <1>6, <1>7, <1>8, <1>9, <1>10, <1>11 DEF Next

(* A job is recorded as succeeded only when the post it records was made,  *)
(* whatever crashed, was lost, came late or sent no attempt.               *)
THEOREM NothingLostInSilence == Spec => []NoSilentLoss
  <1>1. Init => DeliveryInv
    BY InitBudget DEF Init, DeliveryInv, SuccessPosted, NoSilentLoss
  <1>2. DeliveryInv => NoSilentLoss
    BY DEF DeliveryInv
  <1> QED
    BY <1>1, <1>2, DeliveryStep, PTL DEF Spec

-----------------------------------------------------------------------------
(* Settled rows are final.                                                 *)

(* A terminal row is neither pending nor in progress, and every statement  *)
(* that writes rows asks for one or the other.                             *)
THEOREM SettledRowsAreFinal == Spec => SettledIsFinal
  <1> DEFINE Final == \A j \in Jobs : status[j] \in Terminal =>
                          /\ status'[j] = status[j]
                          /\ result'[j] = result[j]
                          /\ attempt_count'[j] = attempt_count[j]
  <1> USE DEF Terminal
  <1>1. ASSUME TypeOK, Next PROVE Final
    <2> SUFFICES ASSUME NEW j \in Jobs, status[j] \in Terminal
                 PROVE  /\ status'[j] = status[j]
                        /\ result'[j] = result[j]
                        /\ attempt_count'[j] = attempt_count[j]
      OBVIOUS
    <2>1. ASSUME NEW S \in SUBSET Jobs, LeaseRows(S), \A k \in S : status[k] = "pending"
          PROVE  /\ status'[j] = status[j]
                 /\ result'[j] = result[j]
                 /\ attempt_count'[j] = attempt_count[j]
      BY <2>1 DEF LeaseRows
    <2>2. ASSUME NEW S \in SUBSET Jobs, RetryRows(S), \A k \in S : status[k] = "in_progress"
          PROVE  /\ status'[j] = status[j]
                 /\ result'[j] = result[j]
                 /\ attempt_count'[j] = attempt_count[j]
      BY <2>2 DEF RetryRows
    <2>3. CASE \E k \in Jobs : Enqueue(k)
      BY <2>3, <1>1 DEF Enqueue, TypeOK
    <2>4. CASE \E w \in Workers : Lease(w) \/ LeaseAnswerLost(w)
      <3>1. PICK w \in Workers : \E S \in Leasable(KeyOf[w]) : LeaseRows(S)
        BY <2>4 DEF Lease, LeaseAnswerLost
      <3>2. \A S \in Leasable(KeyOf[w]) : S \in SUBSET Jobs /\ \A k \in S : status[k] = "pending"
        BY DEF Leasable, Due
      <3> QED
        BY <2>1, <3>1, <3>2
    <2>5. CASE \E m \in acks : ReceiveAck(m)
      <3>1. PICK m \in acks : ReceiveAck(m)
        BY <2>5
      <3>2. m.lease.job \in Jobs
        BY <1>1 DEF TypeOK, Acks, Leases
      <3>3. CASE AckApplies(m) /\ ApplySuccess(m)
        BY <3>2, <3>3, <1>1 DEF AckApplies, ApplySuccess, TypeOK
      <3>4. CASE AckApplies(m) /\ RetryRows({m.lease.job})
        BY <3>2, <3>4, <2>2 DEF AckApplies
      <3>5. CASE UNCHANGED rowVars
        BY <3>5 DEF rowVars
      <3> QED
        BY <3>1, <3>3, <3>4, <3>5 DEF ReceiveAck
    <2>6. CASE Reap
      <3>1. Stranded \in SUBSET Jobs /\ \A k \in Stranded : status[k] = "in_progress"
        BY DEF Stranded
      <3> QED
        BY <3>1, <2>2, <2>6 DEF Reap
    <2>7. CASE \/ \E w \in Workers : SendAck(w) \/ Crash(w) \/ \E l \in batch[w] : Perform(w, l)
               \/ \E m \in acks : LoseAck(m)
               \/ Tick
      BY <2>7 DEF SendAck, Crash, Perform, LoseAck, Tick
    <2> QED
      BY <1>1, <2>3, <2>4, <2>5, <2>6, <2>7 DEF Next
  <1>2. TypeOK /\ [Next]_vars => [Final]_vars
    BY <1>1
  <1> QED
    BY <1>2, TypeCorrect, PTL DEF Spec, SettledIsFinal

-----------------------------------------------------------------------------
(* The attempt fence.                                                      *)

(* With bots that all echo their attempt, an ack names its own lease.      *)
Echoed == \A m \in acks : m.token = m.lease.attempt

FenceInv == TypeOK /\ Echoed /\ ResultOfLastLease

LEMMA FenceStep ==
  ASSUME SendsAttempt = Workers
  PROVE  TypeOK /\ TypeOK' /\ Echoed /\ ResultOfLastLease /\ [Next]_vars
            => Echoed' /\ ResultOfLastLease'
  <1> SUFFICES ASSUME TypeOK, Echoed, ResultOfLastLease, [Next]_vars
               PROVE  Echoed' /\ ResultOfLastLease'
    OBVIOUS
  <1>a. ASSUME acks' \subseteq acks PROVE Echoed'
    BY <1>a DEF Echoed
  <1>b. ASSUME UNCHANGED result,
               \A j \in Jobs : status'[j] = "succeeded" =>
                    status[j] = "succeeded" /\ attempt_count'[j] = attempt_count[j]
        PROVE  ResultOfLastLease'
    BY <1>b DEF ResultOfLastLease
  <1>1. CASE \E j \in Jobs : Enqueue(j)
    BY <1>1, <1>a, <1>b DEF Enqueue, TypeOK
  <1>2. CASE \E w \in Workers : Lease(w) \/ LeaseAnswerLost(w)
    <2>1. PICK w \in Workers : \E S \in Leasable(KeyOf[w]) : LeaseRows(S)
      BY <1>2 DEF Lease, LeaseAnswerLost
    <2>2. PICK S \in Leasable(KeyOf[w]) : LeaseRows(S)
      BY <2>1
    <2>3. ResultOfLastLease'
      BY <2>2, <1>b DEF LeaseRows
    <2> QED
      BY <2>3, <1>2, <1>a DEF Lease, LeaseAnswerLost
  <1>3. CASE \E w \in Workers : SendAck(w)
    <2>1. PICK w \in Workers : SendAck(w)
      BY <1>3
    <2>2. \A m \in acks' : m \in acks \/ m.token = m.lease.attempt
      BY <2>1 DEF SendAck
    <2> QED
      BY <2>1, <2>2, <1>b DEF SendAck, Echoed
  <1>4. CASE \E m \in acks : ReceiveAck(m)
    <2>1. PICK m \in acks : ReceiveAck(m)
      BY <1>4
    <2>2. Echoed'
      BY <2>1, <1>a DEF ReceiveAck
    <2>3. m \in Acks /\ m.token = m.lease.attempt
      BY DEF TypeOK, Echoed
    <2>4. m.lease.job \in Jobs /\ m.token # NoAttempt
      BY <2>3 DEF Acks, Leases, Attempts, NoAttempt
    <2>5. CASE AckApplies(m) /\ ApplySuccess(m)
      <3>1. m.lease.attempt = attempt_count[m.lease.job]
        BY <2>3, <2>4, <2>5 DEF AckApplies
      <3> QED
        BY <2>2, <2>4, <2>5, <3>1 DEF ApplySuccess, ResultOfLastLease, TypeOK
    <2>6. CASE RetryRows({m.lease.job})
      BY <2>2, <2>6, <1>b DEF RetryRows
    <2>7. CASE UNCHANGED rowVars
      BY <2>2, <2>7, <1>b DEF rowVars
    <2> QED
      BY <2>1, <2>5, <2>6, <2>7 DEF ReceiveAck
  <1>5. CASE Reap
    BY <1>5, <1>a, <1>b DEF Reap, RetryRows
  <1>6. CASE \/ \E w \in Workers : Crash(w) \/ \E l \in batch[w] : Perform(w, l)
             \/ \E m \in acks : LoseAck(m)
             \/ Tick
             \/ UNCHANGED vars
    BY <1>6, <1>a, <1>b DEF Crash, Perform, LoseAck, Tick, vars
  <1> QED
    BY <1>1, <1>2, <1>3, <1>4, <1>5, <1>6 DEF Next

(* Where every bot echoes its attempt, the ids a succeeded job stores come *)
(* from its last lease: no predecessor overwrites a successor.             *)
THEOREM AttemptFence ==
  ASSUME SendsAttempt = Workers
  PROVE  Spec => []ResultOfLastLease
  <1>1. Init => Echoed /\ ResultOfLastLease
    BY DEF Init, Echoed, ResultOfLastLease
  <1> QED
    BY <1>1, FenceStep, TypeCorrect, PTL DEF Spec

-----------------------------------------------------------------------------
(* The queue implements JobDelivery.                                       *)

LEMMA AbstractOfValues ==
  /\ AbstractOf("absent") = "absent"
  /\ AbstractOf("pending") = "waiting"
  /\ AbstractOf("in_progress") = "taken"
  /\ AbstractOf("succeeded") = "done"
  /\ AbstractOf("failed") = "parked"
  BY DEF AbstractOf

LEMMA PromiseInit == Init => Promise!QInit
  BY AbstractOfValues DEF Init, Promise!QInit, AbstractState

LEMMA PromiseStep ==
  DeliveryInv /\ [Next]_vars => [Promise!QNext]_(Promise!qvars)
  <1> SUFFICES ASSUME DeliveryInv, [Next]_vars
               PROVE  Promise!QNext \/ UNCHANGED Promise!qvars
    BY DEF Promise!qvars
  <1> USE QueueAssumption
  <1>a. TypeOK /\ LeaseBound /\ SuccessPosted
    BY DEF DeliveryInv, BudgetInv
  <1>b. ASSUME UNCHANGED <<status, attempt_count, posted>>
        PROVE  UNCHANGED Promise!qvars
    BY <1>b DEF Promise!qvars, AbstractState
  <1>c. ASSUME NEW S \in SUBSET Jobs, LeaseRows(S), UNCHANGED posted,
               \A j \in S : status[j] = "pending"
        PROVE  Promise!Take(S)
    BY <1>c, <1>a, AbstractOfValues DEF LeaseRows, Promise!Take, AbstractState, TypeOK
  <1>d. ASSUME NEW S \in SUBSET Jobs, RetryRows(S), UNCHANGED posted,
               \A j \in S : status[j] = "in_progress"
        PROVE  Promise!GiveUp(S)
    BY <1>d, <1>a, AbstractOfValues DEF RetryRows, Promise!GiveUp, AbstractState, TypeOK
  <1>1. ASSUME NEW j \in Jobs, Enqueue(j) PROVE Promise!QNext
    <2>1. Promise!Submit(j)
      BY <1>1, <1>a, AbstractOfValues DEF Enqueue, Promise!Submit, AbstractState, TypeOK
    <2> QED
      BY <2>1 DEF Promise!QNext
  <1>2. ASSUME NEW w \in Workers, Lease(w) \/ LeaseAnswerLost(w) PROVE Promise!QNext
    <2>1. PICK S \in Leasable(KeyOf[w]) : LeaseRows(S)
      BY <1>2 DEF Lease, LeaseAnswerLost
    <2>2. S \in SUBSET Jobs /\ \A j \in S : status[j] = "pending"
      BY DEF Leasable, Due
    <2>3. UNCHANGED posted
      BY <1>2 DEF Lease, LeaseAnswerLost
    <2>4. Promise!Take(S)
      BY <1>c, <2>1, <2>2, <2>3
    <2> QED
      BY <2>2, <2>4 DEF Promise!QNext
  <1>3. ASSUME NEW w \in Workers, NEW l \in batch[w], Perform(w, l)
        PROVE  Promise!QNext \/ UNCHANGED Promise!qvars
    <2>1. UNCHANGED <<status, attempt_count>>
      BY <1>3 DEF Perform
    <2>2. l.job \in Jobs /\ attempt_count[l.job] > 0
      <3>1. l \in Leases /\ l.attempt <= attempt_count[l.job]
        BY <1>a DEF TypeOK, LeaseBound, Held
      <3> QED
        BY <3>1, <1>a DEF Leases, Attempts, TypeOK
    <2>3. CASE posted' = [posted EXCEPT ![l.job] = @ \cup {l.attempt}]
      <3>1. [j \in Jobs |-> posted[j] # {}]' =
              [[j \in Jobs |-> posted[j] # {}] EXCEPT ![l.job] = TRUE]
        BY <2>2, <2>3, <1>a DEF TypeOK
      <3>2. AbstractState' = AbstractState
        BY <2>1 DEF AbstractState
      <3>3. Promise!Deliver(l.job)
        BY <2>1, <2>2, <3>1, <3>2 DEF Promise!Deliver
      <3> QED
        BY <2>2, <3>3 DEF Promise!QNext
    <2>4. CASE posted' = posted
      BY <2>1, <2>4, <1>b
    <2> QED
      BY <2>3, <2>4, <1>3 DEF Perform
  <1>4. ASSUME NEW m \in acks, ReceiveAck(m)
        PROVE  Promise!QNext \/ UNCHANGED Promise!qvars
    <2>1. UNCHANGED posted /\ m.lease.job \in Jobs
      BY <1>4, <1>a DEF ReceiveAck, TypeOK, Acks, Leases
    <2>2. CASE AckApplies(m) /\ m.success /\ ApplySuccess(m)
      <3>1. posted[m.lease.job] # {}
        BY <2>2, <1>a DEF SuccessPosted
      <3>2. /\ status[m.lease.job] = "in_progress"
            /\ status' = [status EXCEPT ![m.lease.job] = "succeeded"]
            /\ UNCHANGED <<attempt_count, posted>>
        BY <2>1, <2>2 DEF AckApplies, ApplySuccess
      <3>3. AbstractState[m.lease.job] = "taken"
        BY <2>1, <3>2, AbstractOfValues DEF AbstractState
      <3>4. AbstractState' = [AbstractState EXCEPT ![m.lease.job] = "done"]
        BY <2>1, <3>2, <1>a, AbstractOfValues DEF AbstractState, TypeOK
      <3>5. Promise!Finish(m.lease.job)
        BY <2>1, <3>1, <3>2, <3>3, <3>4 DEF Promise!Finish
      <3> QED
        BY <2>1, <3>5 DEF Promise!QNext
    <2>3. CASE AckApplies(m) /\ RetryRows({m.lease.job})
      <3>1. Promise!GiveUp({m.lease.job})
        BY <2>1, <2>3, <1>d DEF AckApplies
      <3> QED
        BY <2>1, <3>1 DEF Promise!QNext
    <2>4. CASE UNCHANGED rowVars
      BY <2>1, <2>4, <1>b DEF rowVars
    <2> QED
      BY <2>2, <2>3, <2>4, <1>4 DEF ReceiveAck
  <1>5. ASSUME Reap PROVE Promise!QNext
    <2>1. Stranded \in SUBSET Jobs /\ \A j \in Stranded : status[j] = "in_progress"
      BY DEF Stranded
    <2>2. Promise!GiveUp(Stranded)
      BY <1>5, <2>1, <1>d DEF Reap
    <2> QED
      BY <2>1, <2>2 DEF Promise!QNext
  <1>6. CASE \/ \E w \in Workers : SendAck(w) \/ Crash(w)
             \/ \E m \in acks : LoseAck(m)
             \/ Tick
             \/ UNCHANGED vars
    BY <1>6, <1>b DEF SendAck, Crash, LoseAck, Tick, vars
  <1> QED
    BY <1>1, <1>2, <1>3, <1>4, <1>5, <1>6 DEF Next

(* Every behaviour of the queue is one JobDelivery allows: leases, acks,   *)
(* the reaper and every fault amount to try, deliver, give up and finish.  *)
THEOREM QueueImplementsPromise == Spec => ImplementsPromise
  <1>1. Init => DeliveryInv
    BY InitBudget DEF Init, DeliveryInv, SuccessPosted, NoSilentLoss
  <1> QED
    BY <1>1, DeliveryStep, PromiseInit, PromiseStep, PTL
       DEF Spec, ImplementsPromise, Promise!QSpec
=============================================================================
