-------------------------- MODULE AceRequestsProofs --------------------------
(***************************************************************************)
(* What holds of an ACE support request for any number of people, slots    *)
(* and overlapping handlers.                                               *)
(***************************************************************************)
EXTENDS AceRequests, FiniteSetTheorems, TLAPS

Ways == {"web", "discord"}

Transactions ==
    {IdleTx} \cup [pc : {"publish"}]
    \cup [pc : {"insert"}, kind : {"claim"}, user : Users, via : Ways, count : Nat]
    \cup [pc : {"count"}, kind : {"release"}, user : Users, via : Ways, count : Nat]
    \cup [pc : {"notify"}, kind : {"claim", "release"}, user : Users, via : Ways, count : Nat]
    \cup [pc : {"commit"}, kind : {"claim", "release"}, user : Users, via : Ways,
          job : Snapshots \cup {NoJob}]

(* Transactions that are open, and those that claim a slot.                *)
Open(p)     == tx[p].pc \in {"insert", "count", "notify", "commit"}
Claiming(p) == Open(p) /\ tx[p].kind = "claim"

TypeInv ==
    /\ reqStatus \in {"none", "open", "completed", "cancelled", "deleted"}
    /\ claims \subseteq Users
    /\ lock \in Procs \cup {Nobody}
    /\ tx \in [Procs -> Transactions]
    /\ payload \in [NotifyJobs -> Snapshots \cup {NoJob}]
    /\ jobCount \in Nat
    /\ jobCount + Cardinality({p \in Procs : Open(p)}) <= NotifyBound
    /\ hazards \in Environments

Small(snap) == Cardinality(snap.claimers) <= SlotCount /\ snap.count <= SlotCount

(* A claim holds the row lock from its check to its commit, so nobody else *)
(* adds a claim and the request stays open.                                *)
AceInv ==
    /\ TypeInv
    /\ \A p \in Procs : Claiming(p) <=> lock = p
    /\ lock # Nobody => reqStatus = "open" /\ Cardinality(claims) < SlotCount
    /\ Cardinality(claims) <= SlotCount
    /\ \A p \in Procs : tx[p].pc \in {"insert", "notify"} => tx[p].count <= SlotCount
    /\ \A p \in Procs : tx[p].pc = "commit" => Small(tx[p].job)
    /\ \A j \in NotifyJobs : Small(payload[j])

-----------------------------------------------------------------------------
(* Sets. *)

LEMMA SlotSets ==
  ASSUME NEW S \in SUBSET Users
  PROVE  /\ IsFiniteSet(S) /\ Cardinality(S) \in Nat
         /\ \A u \in Users : /\ Cardinality(S \cup {u}) \in Nat
                             /\ Cardinality(S \cup {u}) <= Cardinality(S) + 1
                             /\ Cardinality(S \ {u}) \in Nat
                             /\ Cardinality(S \ {u}) <= Cardinality(S)
  <1>1. IsFiniteSet(S)
    BY AceAssumption, FS_Subset
  <1>2. Cardinality(S) \in Nat
    BY <1>1, FS_CardinalityType
  <1>3. ASSUME NEW u \in Users
        PROVE  Cardinality(S \cup {u}) \in Nat /\ Cardinality(S \cup {u}) <= Cardinality(S) + 1
    <2>1. Cardinality(S \cup {u}) = IF u \in S THEN Cardinality(S) ELSE Cardinality(S) + 1
      BY <1>1, FS_AddElement
    <2> QED
      BY <1>2, <2>1
  <1>4. ASSUME NEW u \in Users
        PROVE  Cardinality(S \ {u}) \in Nat /\ Cardinality(S \ {u}) <= Cardinality(S)
    <2>1. S \ {u} \in SUBSET S
      OBVIOUS
    <2>2. IsFiniteSet(S \ {u}) /\ Cardinality(S \ {u}) <= Cardinality(S)
      BY <1>1, <2>1, FS_Subset
    <2> QED
      BY <2>2, FS_CardinalityType
  <1> QED
    BY <1>1, <1>2, <1>3, <1>4

LEMMA Bounds == SlotCount \in Nat /\ SlotCount >= 1 /\ NotifyBound \in Nat /\ NoJob.claimers = {}
                /\ NoJob.count = -1 /\ Cardinality({}) = 0 /\ Nobody \notin Procs
  BY AceAssumption, FS_EmptySet DEF NoJob

LEMMA TxFacts ==
  ASSUME NEW t \in Transactions
  PROVE  /\ t.pc \in {"idle", "publish", "insert", "count", "notify", "commit"}
         /\ t.pc = "insert" =>
              t \in [pc : {"insert"}, kind : {"claim"}, user : Users, via : Ways, count : Nat]
         /\ t.pc = "count" =>
              t \in [pc : {"count"}, kind : {"release"}, user : Users, via : Ways, count : Nat]
         /\ t.pc = "notify" =>
              t \in [pc : {"notify"}, kind : {"claim", "release"}, user : Users, via : Ways,
                     count : Nat]
         /\ t.pc = "commit" =>
              t \in [pc : {"commit"}, kind : {"claim", "release"}, user : Users, via : Ways,
                     job : Snapshots \cup {NoJob}]
  BY DEF Transactions, IdleTx

LEMMA OpenSet ==
  /\ IsFiniteSet({p \in Procs : Open(p)})
  /\ Cardinality({p \in Procs : Open(p)}) \in Nat
  <1>1. IsFiniteSet({p \in Procs : Open(p)})
    BY AceAssumption, FS_Subset
  <1> QED
    BY <1>1, FS_CardinalityType

-----------------------------------------------------------------------------
(* One handler goes on.                                                    *)

OpenRecord(t)     == t.pc \in {"insert", "count", "notify", "commit"}
ClaimingRecord(t) == OpenRecord(t) /\ t.kind = "claim"
Goes(p, t)        == tx' = [tx EXCEPT ![p] = t]

LEMMA GoesFacts ==
  ASSUME TypeInv, NEW p \in Procs, NEW t \in Transactions, Goes(p, t)
  PROVE  /\ tx' \in [Procs -> Transactions]
         /\ tx'[p] = t /\ \A q \in Procs \ {p} : tx'[q] = tx[q]
  BY DEF TypeInv, Goes

(* The bound on notify jobs leaves room for every open transaction.        *)
LEMMA RoomForJobs ==
  ASSUME TypeInv, NEW p \in Procs, NEW t \in Transactions, Goes(p, t),
         \/ jobCount' = jobCount /\ (OpenRecord(t) => Open(p) \/ MayBegin(p))
         \/ jobCount' = jobCount + 1 /\ Open(p) /\ ~OpenRecord(t)
  PROVE  /\ jobCount' \in Nat
         /\ jobCount' + Cardinality({q \in Procs : Open(q)'}) <= NotifyBound
  <1> DEFINE O == {q \in Procs : Open(q)}
             N == {q \in Procs : Open(q)'}
             B == {q \in Procs : ~Idle(q)}
  <1>1. tx'[p] = t /\ \A q \in Procs \ {p} : tx'[q] = tx[q]
    BY GoesFacts
  <1>2. /\ IsFiniteSet(O) /\ IsFiniteSet(N) /\ IsFiniteSet(B)
        /\ Cardinality(O) \in Nat /\ Cardinality(N) \in Nat /\ Cardinality(B) \in Nat
    <2>1. IsFiniteSet(O) /\ IsFiniteSet(N) /\ IsFiniteSet(B)
      BY AceAssumption, FS_Subset
    <2> QED
      BY <2>1, FS_CardinalityType
  <1>3. /\ jobCount \in Nat /\ NotifyBound \in Nat /\ jobCount + Cardinality(O) <= NotifyBound
    BY AceAssumption DEF TypeInv
  <1>4. CASE N \subseteq O /\ jobCount' = jobCount
    <2>1. Cardinality(N) <= Cardinality(O)
      BY <1>2, <1>4, FS_Subset
    <2> HIDE DEF O, N, B
    <2>2. jobCount' + Cardinality(N) <= NotifyBound
      BY <1>2, <1>3, <1>4, <2>1
    <2> QED
      BY <1>3, <1>4, <2>2 DEF N
  <1>5. CASE MayBegin(p) /\ jobCount' = jobCount
    <2>1. N \subseteq B \cup {p}
      BY <1>1 DEF Open, Idle
    <2>2. Cardinality(B \cup {p}) <= Cardinality(B) + 1 /\ IsFiniteSet(B \cup {p})
      <3>1. Cardinality(B \cup {p}) = IF p \in B THEN Cardinality(B) ELSE Cardinality(B) + 1
        BY <1>2, FS_AddElement
      <3>2. IsFiniteSet(B \cup {p})
        BY <1>2, FS_AddElement
      <3> HIDE DEF O, N, B
      <3> QED
        BY <1>2, <3>1, <3>2
    <2>3. Cardinality(N) <= Cardinality(B \cup {p}) /\ Cardinality(B \cup {p}) \in Nat
      BY <2>1, <2>2, FS_Subset, FS_CardinalityType
    <2>4. jobCount + Cardinality(B) < NotifyBound
      BY <1>5 DEF MayBegin
    <2> HIDE DEF O, N, B
    <2>5. jobCount' + Cardinality(N) <= NotifyBound
      BY <1>2, <1>3, <1>5, <2>2, <2>3, <2>4
    <2> QED
      BY <1>3, <1>5, <2>5 DEF N
  <1>6. CASE jobCount' = jobCount + 1 /\ Open(p) /\ ~OpenRecord(t)
    <2>1. N \in SUBSET (O \ {p}) /\ p \in O
      BY <1>1, <1>6 DEF Open, OpenRecord
    <2>2. Cardinality(O \ {p}) = Cardinality(O) - 1 /\ IsFiniteSet(O \ {p})
      BY <1>2, <2>1, FS_RemoveElement
    <2>3. Cardinality(N) <= Cardinality(O \ {p})
      BY <2>1, <2>2, FS_Subset
    <2> HIDE DEF O, N, B
    <2>4. jobCount' + Cardinality(N) <= NotifyBound
      BY <1>2, <1>3, <1>6, <2>2, <2>3
    <2> QED
      BY <1>3, <1>6, <2>4 DEF N
  <1>7. (OpenRecord(t) => Open(p)) => N \subseteq O
    BY <1>1 DEF Open, OpenRecord
  <1> QED
    BY <1>4, <1>5, <1>6, <1>7

(* What the step leaves of the transactions' part of the invariant.        *)
LEMMA TxPart ==
  ASSUME AceInv, NEW p \in Procs, NEW t \in Transactions, Goes(p, t),
         t.pc \in {"insert", "notify"} => t.count <= SlotCount,
         t.pc = "commit" => Small(t.job),
         ClaimingRecord(t) <=> lock' = p,
         \A q \in Procs \ {p} : lock' = q <=> lock = q
  PROVE  /\ tx' \in [Procs -> Transactions]
         /\ \A q \in Procs : Claiming(q)' <=> lock' = q
         /\ \A q \in Procs : tx'[q].pc \in {"insert", "notify"} => tx'[q].count <= SlotCount
         /\ \A q \in Procs : tx'[q].pc = "commit" => Small(tx[q].job)'
  <1>1. /\ tx' \in [Procs -> Transactions]
        /\ tx'[p] = t /\ \A q \in Procs \ {p} : tx'[q] = tx[q]
    BY GoesFacts DEF AceInv
  <1>2. ASSUME NEW q \in Procs
        PROVE  /\ Claiming(q)' <=> lock' = q
               /\ tx'[q].pc \in {"insert", "notify"} => tx'[q].count <= SlotCount
               /\ tx'[q].pc = "commit" => Small(tx[q].job)'
    <2>1. CASE q = p
      BY <1>1, <2>1 DEF Claiming, Open, ClaimingRecord, OpenRecord, Small
    <2>2. CASE q # p
      BY <1>1, <2>2 DEF Claiming, Open, AceInv, Small
    <2> QED
      BY <2>1, <2>2
  <1> QED
    BY <1>1, <1>2

LEMMA AceAtStart == Init => AceInv
  <1> SUFFICES ASSUME Init PROVE AceInv
    OBVIOUS
  <1>1. \A p \in Procs : tx[p] = IdleTx
    BY DEF Init
  <1>2. {p \in Procs : Open(p)} = {}
    BY <1>1 DEF Open, IdleTx
  <1>3. tx \in [Procs -> Transactions]
    BY DEF Init, Transactions
  <1>4. TypeInv
    BY <1>2, <1>3, Bounds DEF TypeInv, Init
  <1>5. \A j \in NotifyJobs : Small(payload[j])
    BY Bounds DEF Init, Small
  <1> QED
    BY <1>1, <1>4, <1>5, Bounds DEF AceInv, Init, Claiming, Open, IdleTx

LEMMA Handler ==
  ASSUME AceInv, NEW p \in Procs, NEW t \in Transactions, Goes(p, t),
         \/ jobCount' = jobCount /\ (OpenRecord(t) => Open(p) \/ MayBegin(p))
         \/ jobCount' = jobCount + 1 /\ Open(p) /\ ~OpenRecord(t),
         t.pc \in {"insert", "notify"} => t.count <= SlotCount,
         t.pc = "commit" => Small(t.job),
         lock' \in Procs \cup {Nobody},
         ClaimingRecord(t) <=> lock' = p,
         \A q \in Procs \ {p} : lock' = q <=> lock = q,
         reqStatus' \in {"none", "open", "completed", "cancelled", "deleted"},
         claims' \subseteq Users, Cardinality(claims') <= SlotCount,
         lock' # Nobody => reqStatus' = "open" /\ Cardinality(claims') < SlotCount,
         payload' \in [NotifyJobs -> Snapshots \cup {NoJob}],
         \A j \in NotifyJobs : Small(payload[j])',
         UNCHANGED hazards
  PROVE  AceInv'
  <1>1. /\ tx' \in [Procs -> Transactions]
        /\ \A q \in Procs : Claiming(q)' <=> lock' = q
        /\ \A q \in Procs : tx'[q].pc \in {"insert", "notify"} => tx'[q].count <= SlotCount
        /\ \A q \in Procs : tx'[q].pc = "commit" => Small(tx[q].job)'
    BY TxPart
  <1>2. TypeInv
    BY DEF AceInv
  <1>3. /\ jobCount' \in Nat
        /\ jobCount' + Cardinality({q \in Procs : Open(q)'}) <= NotifyBound
    BY <1>2, RoomForJobs
  <1>4. TypeInv'
    BY <1>1, <1>2, <1>3 DEF TypeInv
  <1> QED
    BY <1>1, <1>4 DEF AceInv

(* The facts of the invariant a handler's step starts from.                *)
LEMMA Before ==
  ASSUME AceInv, NEW p \in Procs
  PROVE  /\ tx[p] \in Transactions /\ (Claiming(p) <=> lock = p)
         /\ lock \in Procs \cup {Nobody}
         /\ reqStatus \in {"none", "open", "completed", "cancelled", "deleted"}
         /\ claims \subseteq Users /\ Cardinality(claims) \in Nat
         /\ Cardinality(claims) <= SlotCount
         /\ lock # Nobody => reqStatus = "open" /\ Cardinality(claims) < SlotCount
         /\ payload \in [NotifyJobs -> Snapshots \cup {NoJob}]
         /\ \A j \in NotifyJobs : Small(payload[j])
         /\ Nobody \notin Procs /\ SlotCount \in Nat
  BY SlotSets, Bounds DEF AceInv, TypeInv

(* Handlers that begin outside a transaction of their own.                 *)
LEMMA StepOutside ==
  ASSUME AceInv, NEW p \in Procs,
         \/ CreateRequest(p) \/ Publish(p) \/ DeleteRequest(p)
         \/ \E outcome \in {"completed", "cancelled"} : Decide(p, outcome)
  PROVE  AceInv'
  <1> USE Before
  <1>1. ~Open(p) /\ lock # p
    <2>1. ~Open(p)
      BY DEF CreateRequest, Publish, DeleteRequest, Decide, MayBegin, Idle, Open
    <2> QED
      BY <2>1 DEF Claiming
  <1>2. PICK t \in {IdleTx, [pc |-> "publish"]} : Goes(p, t)
    BY DEF CreateRequest, Publish, DeleteRequest, Decide, Goes
  <1>3. t \in Transactions /\ t.pc \in {"idle", "publish"}
    BY DEF Transactions, IdleTx
  <1>4. UNCHANGED <<lock, payload, jobCount, hazards>>
    BY DEF CreateRequest, Publish, DeleteRequest, Decide, db
  <1>5. /\ reqStatus' \in {"none", "open", "completed", "cancelled", "deleted"}
        /\ claims' \in {claims, {}}
    BY DEF CreateRequest, Publish, DeleteRequest, Decide, db
  <1>6. claims' \subseteq Users /\ Cardinality(claims') <= SlotCount
        /\ (claims' = claims \/ Cardinality(claims') = 0)
    BY <1>5, Bounds
  <1>7. lock' # Nobody => reqStatus' = "open" /\ Cardinality(claims') < SlotCount
    <2>1. CASE Publish(p)
      BY <2>1 DEF Publish, db
    <2>2. CASE CreateRequest(p)
      BY <2>2 DEF CreateRequest
    <2>3. CASE DeleteRequest(p) \/ \E outcome \in {"completed", "cancelled"} : Decide(p, outcome)
      BY <2>3 DEF DeleteRequest, Decide
    <2> QED
      BY <2>1, <2>2, <2>3
  <1>8. \A j \in NotifyJobs : Small(payload[j])'
    BY <1>4 DEF Small
  <1> QED
    BY <1>1, <1>2, <1>3, <1>4, <1>5, <1>6, <1>7, <1>8, Handler
       DEF OpenRecord, ClaimingRecord

LEMMA StepLock ==
  ASSUME AceInv, NEW p \in Procs, NEW u \in Users, NEW via \in Ways, LockRequest(p, u, via)
  PROVE  AceInv'
  <1> USE Before
  <1> DEFINE t == [pc |-> "insert", kind |-> "claim", user |-> u, via |-> via,
                   count |-> Cardinality(claims) + 1]
  <1>1. t \in Transactions /\ t.pc = "insert" /\ t.count <= SlotCount /\ ClaimingRecord(t)
    BY DEF Transactions, LockRequest, HasRoom, ClaimingRecord, OpenRecord
  <1>2. /\ Goes(p, t) /\ MayBegin(p) /\ lock' = p /\ lock = Nobody /\ reqStatus = "open"
        /\ Cardinality(claims) < SlotCount
        /\ UNCHANGED <<reqStatus, claims, payload, jobCount, hazards>>
    BY DEF LockRequest, ForUpdate, HasRoom, Goes
  <1>3. \A j \in NotifyJobs : Small(payload[j])'
    BY <1>2 DEF Small
  <1> HIDE DEF t
  <1> QED
    BY <1>1, <1>2, <1>3, Handler

LEMMA StepInside ==
  ASSUME AceInv, NEW p \in Procs, NEW t \in Transactions, Goes(p, t), OpenRecord(t),
         Open(p) \/ MayBegin(p), ClaimingRecord(t) <=> Claiming(p),
         t.pc \in {"insert", "notify"} => t.count <= SlotCount,
         t.pc = "commit" => Small(t.job),
         UNCHANGED <<db, payload, jobCount, hazards>>
  PROVE  AceInv'
  <1>1. \A j \in NotifyJobs : Small(payload[j])'
    BY Before DEF Small
  <1>2. UNCHANGED <<lock, reqStatus, claims>>
    BY DEF db
  <1> QED
    BY <1>1, <1>2, Before, Handler

LEMMA SeenSmall ==
  ASSUME AceInv, NEW p \in Procs, tx[p].pc \in {"count", "notify", "commit"}
  PROVE  /\ SeenClaims(p) \subseteq Users /\ Cardinality(SeenClaims(p)) \in Nat
         /\ Cardinality(SeenClaims(p)) <= SlotCount
         /\ tx[p].kind = "release" => Cardinality(SeenClaims(p)) <= Cardinality(claims)
  <1>1. tx[p].user \in Users /\ tx[p].kind \in {"claim", "release"}
    BY Before, TxFacts
  <1>2. /\ Cardinality(claims \cup {tx[p].user}) \in Nat
        /\ Cardinality(claims \cup {tx[p].user}) <= Cardinality(claims) + 1
        /\ Cardinality(claims \ {tx[p].user}) \in Nat
        /\ Cardinality(claims \ {tx[p].user}) <= Cardinality(claims)
    BY <1>1, Before, SlotSets
  <1>3. CASE tx[p].kind = "claim"
    <2>1. lock # Nobody
      BY <1>3, Before DEF Claiming, Open
    <2>2. Cardinality(claims) < SlotCount
      BY <2>1, Before
    <2> QED
      BY <1>1, <1>2, <1>3, <2>2, Before DEF SeenClaims
  <1>4. CASE tx[p].kind # "claim"
    BY <1>1, <1>2, <1>4, Before DEF SeenClaims
  <1> QED
    BY <1>3, <1>4

LEMMA StepReads ==
  ASSUME AceInv, NEW p \in Procs,
         InsertClaim(p) \/ CountLeft(p) \/ BuildNotify(p) \/ \E u \in Users : DropClaim(p, u)
  PROVE  AceInv'
  <1>1. CASE InsertClaim(p)
    <2> DEFINE t == [tx[p] EXCEPT !.pc = "notify"]
    <2>1. tx[p] \in [pc : {"insert"}, kind : {"claim"}, user : Users, via : Ways, count : Nat]
      BY <1>1, Before, TxFacts DEF InsertClaim
    <2>2. t \in Transactions /\ t.pc = "notify" /\ t.kind = "claim" /\ t.count = tx[p].count
      BY <2>1 DEF Transactions
    <2>3. Open(p) /\ Claiming(p) /\ tx[p].count <= SlotCount
      BY <2>1 DEF Open, Claiming, AceInv
    <2>4. Goes(p, t) /\ UNCHANGED <<db, payload, jobCount, hazards>>
      BY <1>1 DEF InsertClaim, Goes
    <2> HIDE DEF t
    <2> QED
      BY <2>2, <2>3, <2>4, StepInside DEF OpenRecord, ClaimingRecord
  <1>2. CASE CountLeft(p)
    <2> DEFINE n == Cardinality(SeenClaims(p))
               t == [tx[p] EXCEPT !.pc = "notify", !.count = n]
    <2>1. tx[p] \in [pc : {"count"}, kind : {"release"}, user : Users, via : Ways, count : Nat]
      BY <1>2, Before, TxFacts DEF CountLeft
    <2>2. n \in Nat /\ n <= SlotCount
      BY <2>1, SeenSmall
    <2>3. Goes(p, t) /\ UNCHANGED <<db, payload, jobCount, hazards>>
      BY <1>2 DEF CountLeft, Goes
    <2> HIDE DEF n
    <2>4. t \in Transactions /\ t.pc = "notify" /\ t.kind = "release" /\ t.count = n
      BY <2>1, <2>2 DEF Transactions
    <2>5. Open(p) /\ ~Claiming(p)
      BY <2>1 DEF Open, Claiming
    <2> HIDE DEF t
    <2> QED
      BY <2>2, <2>3, <2>4, <2>5, StepInside DEF OpenRecord, ClaimingRecord
  <1>3. CASE BuildNotify(p)
    <2> DEFINE job == IF state[PostJob] = "done" THEN Snapshot(p) ELSE NoJob
               t == [pc |-> "commit", kind |-> tx[p].kind, user |-> tx[p].user,
                     via |-> tx[p].via, job |-> job]
    <2>1. tx[p] \in [pc : {"notify"}, kind : {"claim", "release"}, user : Users, via : Ways,
                     count : Nat]
      BY <1>3, Before, TxFacts DEF BuildNotify
    <2>2. tx[p].count <= SlotCount
      BY <2>1 DEF AceInv
    <2>3. Snapshot(p) \in Snapshots /\ Small(Snapshot(p))
      BY <2>1, <2>2, SeenSmall DEF Snapshot, Snapshots, Small
    <2>4. Small(NoJob)
      BY Bounds DEF Small
    <2>5. job \in Snapshots \cup {NoJob} /\ Small(job)
      BY <2>3, <2>4
    <2>6. Goes(p, t) /\ UNCHANGED <<db, payload, jobCount, hazards>>
      BY <1>3 DEF BuildNotify, Goes
    <2> HIDE DEF job
    <2>7. t \in Transactions /\ t.pc = "commit" /\ t.kind = tx[p].kind /\ t.job = job
      BY <2>1, <2>5 DEF Transactions
    <2>8. Open(p) /\ (ClaimingRecord(t) <=> Claiming(p))
      BY <2>1, <2>7 DEF Open, Claiming, ClaimingRecord, OpenRecord
    <2> HIDE DEF t
    <2> QED
      BY <2>5, <2>6, <2>7, <2>8, StepInside DEF OpenRecord
  <1>4. ASSUME NEW u \in Users, DropClaim(p, u) PROVE AceInv'
    <2> DEFINE t == [pc |-> "count", kind |-> "release", user |-> u, via |-> "web", count |-> 0]
    <2>1. t \in Transactions /\ t.pc = "count" /\ t.kind = "release"
      BY DEF Transactions, Ways
    <2>2. Goes(p, t) /\ MayBegin(p) /\ UNCHANGED <<db, payload, jobCount, hazards>>
      BY <1>4 DEF DropClaim, Goes
    <2>3. ~Claiming(p)
      BY <2>2 DEF MayBegin, Idle, Claiming, Open
    <2> HIDE DEF t
    <2> QED
      BY <2>1, <2>2, <2>3, StepInside DEF OpenRecord, ClaimingRecord
  <1> QED
    BY <1>1, <1>2, <1>3, <1>4

LEMMA Unlocks ==
  ASSUME AceInv, NEW p \in Procs, lock' = Unlocked(p)
  PROVE  /\ lock' \in Procs \cup {Nobody} /\ lock' # p
         /\ \A q \in Procs \ {p} : lock' = q <=> lock = q
         /\ lock' # Nobody => lock' = lock
  BY Before DEF Unlocked

LEMMA StepRollback ==
  ASSUME AceInv, NEW p \in Procs, Rollback(p)
  PROVE  AceInv'
  <1>1. /\ Goes(p, IdleTx) /\ lock' = Unlocked(p)
        /\ UNCHANGED <<reqStatus, claims, payload, jobCount, hazards>>
    BY DEF Rollback, Goes
  <1>2. IdleTx \in Transactions /\ IdleTx.pc = "idle"
    BY DEF Transactions, IdleTx
  <1>3. \A j \in NotifyJobs : Small(payload[j])'
    BY <1>1, Before DEF Small
  <1> QED
    BY <1>1, <1>2, <1>3, Before, Unlocks, Handler DEF OpenRecord, ClaimingRecord

LEMMA StepCommit ==
  ASSUME AceInv, NEW p \in Procs, Commit(p)
  PROVE  AceInv'
  <1>1. tx[p] \in [pc : {"commit"}, kind : {"claim", "release"}, user : Users, via : Ways,
                   job : Snapshots \cup {NoJob}]
    BY Before, TxFacts DEF Commit
  <1>2. Open(p) /\ Small(tx[p].job)
    BY <1>1 DEF Open, AceInv
  <1>3. /\ Goes(p, AfterCommit(p)) /\ lock' = Unlocked(p) /\ claims' = SeenClaims(p)
        /\ UNCHANGED <<reqStatus, hazards>>
    BY DEF Commit, Goes
  <1>4. AfterCommit(p) \in Transactions /\ AfterCommit(p).pc \in {"idle", "publish"}
    BY DEF AfterCommit, Transactions, IdleTx
  <1>5. claims' \subseteq Users /\ Cardinality(claims') <= SlotCount /\ Cardinality(claims') \in Nat
    BY <1>1, <1>3, SeenSmall
  <1>6. lock' # Nobody => reqStatus' = "open" /\ Cardinality(claims') < SlotCount
    <2> SUFFICES ASSUME lock' # Nobody
                 PROVE  reqStatus' = "open" /\ Cardinality(claims') < SlotCount
      OBVIOUS
    <2>1. lock = lock' /\ lock # p /\ lock # Nobody
      BY <1>3, Unlocks
    <2>2. tx[p].kind = "release"
      BY <1>1, <1>2, <2>1, Before DEF Claiming
    <2>3. Cardinality(claims') <= Cardinality(claims)
      BY <1>1, <1>3, <2>2, SeenSmall
    <2> QED
      BY <1>3, <1>5, <2>1, <2>3, Before
  <1>7. \/ jobCount' = jobCount /\ payload' = payload
        \/ /\ jobCount' = jobCount + 1
           /\ payload' = [payload EXCEPT ![jobCount + 1] = tx[p].job]
    BY DEF Commit
  <1>8. /\ payload' \in [NotifyJobs -> Snapshots \cup {NoJob}]
        /\ \A j \in NotifyJobs : Small(payload[j])'
    BY <1>1, <1>2, <1>7, Before DEF Small
  <1>9. ~OpenRecord(AfterCommit(p)) /\ ~ClaimingRecord(AfterCommit(p))
    BY <1>4 DEF OpenRecord, ClaimingRecord
  <1>10. /\ reqStatus' \in {"none", "open", "completed", "cancelled", "deleted"}
         /\ jobCount' = jobCount \/ jobCount' = jobCount + 1
    BY <1>3, <1>7, Before
  <1> QED
    BY <1>2, <1>3, <1>4, <1>5, <1>6, <1>8, <1>9, <1>10, Unlocks, Handler

(* Steps of the queue and of the bot change nothing the request is made of.*)
BotStep ==
    TakeJobs \/ GiveUpJobs \/ \E j \in {PostJob} \cup NotifyJobs : Deliver(j) \/ FinishJob(j)

LEMMA BotLeaves == BotStep => UNCHANGED <<app, hazards, board>>
  BY DEF BotStep, TakeJobs, GiveUpJobs, Deliver, FinishJob

LEMMA Unchanged ==
  ASSUME AceInv, UNCHANGED <<app, hazards>>
  PROVE  AceInv'
  BY DEF AceInv, TypeInv, app, db, Claiming, Open, Small

LEMMA AceStep == AceInv /\ [Next]_vars => AceInv'
  <1>1. ASSUME AceInv, UNCHANGED vars PROVE AceInv'
    BY <1>1, Unchanged DEF vars, app, db
  <1>2. ASSUME AceInv, Next PROVE AceInv'
    <2>1. \/ \E p \in Procs, u \in Users, via \in Ways : LockRequest(p, u, via)
          \/ \E p \in Procs : \/ CreateRequest(p) \/ Publish(p) \/ DeleteRequest(p)
                              \/ \E outcome \in {"completed", "cancelled"} : Decide(p, outcome)
          \/ \E p \in Procs : InsertClaim(p) \/ CountLeft(p) \/ BuildNotify(p)
                              \/ \E u \in Users : DropClaim(p, u)
          \/ \E p \in Procs : Commit(p) \/ Rollback(p)
          \/ BotStep
      BY <1>2 DEF Next, BotStep, Ways
    <2>2. BotStep => UNCHANGED <<app, hazards>>
      BY BotLeaves
    <2> QED
      BY <1>2, <2>1, <2>2, StepLock, StepOutside, StepReads, StepCommit, StepRollback, Unchanged
  <1> QED
    BY <1>1, <1>2

LEMMA AceAlways == Spec => []AceInv
  <1> QED
    BY AceAtStart, AceStep, PTL DEF Spec

(* Types, and the row lock inside claims only.                             *)
THEOREM TypeCorrect == Spec => []TypeOK
  <1>1. AceInv => TypeOK
    <2> SUFFICES ASSUME AceInv PROVE TypeOK
      OBVIOUS
    <2>1. \A p \in Procs : tx[p] \in Transactions
      BY Before
    <2>2. \A p \in Procs : tx[p].pc \in {"idle", "insert", "count", "notify", "commit", "publish"}
      BY <2>1, TxFacts
    <2>3. lock # Nobody => tx[lock].pc \in {"insert", "notify", "commit"}
      <3> SUFFICES ASSUME NEW p \in Procs, lock = p
                   PROVE  tx[p].pc \in {"insert", "notify", "commit"}
        BY Before DEF AceInv, TypeInv
      <3>1. Open(p) /\ tx[p].kind = "claim"
        BY Before DEF Claiming
      <3> QED
        BY <2>1, <3>1, TxFacts DEF Open
    <2>4. jobCount \in 0..NotifyBound
      BY OpenSet, Bounds DEF AceInv, TypeInv
    <2> QED
      BY <2>2, <2>3, <2>4 DEF TypeOK, AceInv, TypeInv
  <1> QED
    BY <1>1, AceAlways, PTL

(* However claims and releases overlap, no slot is sold twice.             *)
THEOREM SlotsRespectedEver == Spec => []SlotsRespected
  <1>1. AceInv => SlotsRespected
    BY DEF AceInv, SlotsRespected
  <1> QED
    BY <1>1, AceAlways, PTL

(* A notify job never shows more people than the request has slots.        *)
THEOREM SnapshotsFit == Spec => []SnapshotWithinSlots
  <1>1. AceInv => SnapshotWithinSlots
    BY DEF AceInv, SnapshotWithinSlots, Small
  <1> QED
    BY <1>1, AceAlways, PTL

(* A claim that commits still finds the request open.                      *)
LEMMA ClaimsWhileOpen ==
  ASSUME AceInv, Next
  PROVE  claims' \subseteq claims \/ (reqStatus = "open" /\ reqStatus' = "open")
  <1>1. ASSUME NEW p \in Procs, Commit(p), ~(claims' \subseteq claims)
        PROVE  reqStatus = "open" /\ reqStatus' = "open"
    <2>1. tx[p].kind = "claim" /\ Open(p)
      BY <1>1 DEF Commit, SeenClaims, Open
    <2> QED
      BY <1>1, <2>1, Before DEF Claiming, Commit
  <1>2. (\E p \in Procs : Commit(p)) \/ claims' \in {claims, {}}
    BY BotLeaves DEF Next, CreateRequest, LockRequest, InsertClaim, DropClaim, CountLeft,
           BuildNotify, Rollback, Publish, Decide, DeleteRequest, BotStep, app, db
  <1> QED
    BY <1>1, <1>2

THEOREM NobodyAfterTheEnd == Spec => ClaimsOnlyWhileOpen
  <1>1. AceInv /\ [Next]_vars =>
          [claims' \subseteq claims \/ (reqStatus = "open" /\ reqStatus' = "open")]_vars
    BY ClaimsWhileOpen
  <1> QED
    BY <1>1, AceAlways, PTL DEF Spec, ClaimsOnlyWhileOpen

-----------------------------------------------------------------------------
(* The boards: what changed is shown, or its handler is about to publish.  *)

BoardInv ==
    "discord" \notin hazards =>
        /\ \A p \in Procs : Open(p) => tx[p].via = "web"
        /\ \/ board = [status |-> reqStatus, claims |-> claims]
           \/ \E p \in Procs : tx[p].pc = "publish"

LEMMA BoardAtStart == Init => BoardInv
  BY DEF Init, BoardInv, Open, IdleTx

(* The steps by what they do to the boards.                                *)
LEMMA BoardStep == AceInv /\ BoardInv /\ [Next]_vars => BoardInv'
  <1>1. ASSUME BoardInv, UNCHANGED vars PROVE BoardInv'
    BY <1>1 DEF BoardInv, vars, Open
  <1>2. ASSUME AceInv, BoardInv, Next, "discord" \notin hazards' PROVE BoardInv'
    <2>1. hazards' = hazards
      BY <1>2, BotLeaves DEF Next, CreateRequest, LockRequest, InsertClaim, DropClaim, CountLeft,
             BuildNotify, Commit, Rollback, Publish, Decide, DeleteRequest, BotStep
    <2>2. /\ \A p \in Procs : Open(p) => tx[p].via = "web"
          /\ \/ board = [status |-> reqStatus, claims |-> claims]
             \/ \E p \in Procs : tx[p].pc = "publish"
      BY <1>2, <2>1 DEF BoardInv
    <2>3. ASSUME BotStep PROVE BoardInv'
      BY <1>2, <2>3, BotLeaves DEF BoardInv, app, db, Open
    <2>4. ASSUME NEW p \in Procs, NEW t \in Transactions, Goes(p, t),
                 OpenRecord(t) => t.via = "web",
                 \/ t.pc = "publish"
                 \/ board' = [status |-> reqStatus', claims |-> claims']
                 \/ tx[p].pc # "publish" /\ UNCHANGED <<reqStatus, claims, board>>
          PROVE  BoardInv'
      <3>1. tx'[p] = t /\ \A q \in Procs \ {p} : tx'[q] = tx[q]
        BY <1>2, <2>4, GoesFacts DEF AceInv
      <3>2. \A q \in Procs : Open(q)' => tx'[q].via = "web"
        BY <2>2, <2>4, <3>1 DEF Open, OpenRecord
      <3>3. \/ board' = [status |-> reqStatus', claims |-> claims']
            \/ \E q \in Procs : tx'[q].pc = "publish"
        BY <2>2, <2>4, <3>1
      <3> QED
        BY <3>2, <3>3 DEF BoardInv
    <2>5. ASSUME NEW p \in Procs,
                 \/ CreateRequest(p) \/ Publish(p) \/ DeleteRequest(p)
                 \/ \E outcome \in {"completed", "cancelled"} : Decide(p, outcome)
          PROVE  BoardInv'
      <3>1. CASE Publish(p)
        <4>1. Goes(p, IdleTx) /\ IdleTx \in Transactions /\ ~OpenRecord(IdleTx)
              /\ board' = [status |-> reqStatus', claims |-> claims']
          BY <3>1 DEF Publish, Goes, Transactions, OpenRecord, IdleTx, db
        <4> QED
          BY <2>4, <4>1
      <3>2. CASE ~Publish(p)
        <4> DEFINE t == [pc |-> "publish"]
        <4>1. Goes(p, t) /\ t \in Transactions /\ ~OpenRecord(t) /\ t.pc = "publish"
          BY <2>5, <3>2
             DEF CreateRequest, DeleteRequest, Decide, Goes, Transactions, OpenRecord
        <4> HIDE DEF t
        <4> QED
          BY <2>4, <4>1
      <3> QED
        BY <3>1, <3>2
    <2>6. ASSUME NEW p \in Procs, NEW u \in Users, NEW via \in Ways, LockRequest(p, u, via)
          PROVE  BoardInv'
      <3> DEFINE t == [pc |-> "insert", kind |-> "claim", user |-> u, via |-> via,
                       count |-> Cardinality(claims) + 1]
      <3>1. via = "web" /\ tx[p].pc = "idle"
        BY <2>1, <1>2, <2>6 DEF LockRequest, MayBegin, Idle, Ways
      <3>2. t \in Transactions /\ t.via = "web"
        BY <1>2, <3>1, Before DEF Transactions
      <3>3. Goes(p, t) /\ UNCHANGED <<reqStatus, claims, board>>
        BY <2>6 DEF LockRequest, Goes
      <3> HIDE DEF t
      <3> QED
        BY <2>4, <3>1, <3>2, <3>3
    <2>7. ASSUME NEW p \in Procs, Commit(p) PROVE BoardInv'
      <3>1. tx[p].via = "web"
        BY <2>2, <2>7 DEF Commit, Open
      <3> DEFINE t == [pc |-> "publish"]
      <3>2. Goes(p, t) /\ t \in Transactions /\ ~OpenRecord(t) /\ t.pc = "publish"
        BY <2>7, <3>1 DEF Commit, AfterCommit, Goes, Transactions, OpenRecord
      <3> HIDE DEF t
      <3> QED
        BY <2>4, <3>2
    <2>8. ASSUME NEW p \in Procs, Rollback(p) PROVE BoardInv'
      <3>1. /\ Goes(p, IdleTx) /\ tx[p].pc # "publish" /\ UNCHANGED <<reqStatus, claims, board>>
            /\ IdleTx \in Transactions /\ ~OpenRecord(IdleTx)
        BY <2>8 DEF Rollback, Goes, Transactions, OpenRecord, IdleTx
      <3> QED
        BY <2>4, <3>1
    <2>9. ASSUME NEW p \in Procs,
                 \/ InsertClaim(p) \/ CountLeft(p) \/ BuildNotify(p)
                 \/ \E u \in Users : DropClaim(p, u)
          PROVE  BoardInv'
      <3>1. AceInv'
        BY <1>2, StepReads, <2>9
      <3>2. tx' \in [Procs -> Transactions] /\ Goes(p, tx'[p]) /\ tx'[p] \in Transactions
        BY <1>2, <2>9, <3>1
           DEF AceInv, TypeInv, InsertClaim, CountLeft, BuildNotify, DropClaim, Goes
      <3>3. tx[p].pc # "publish" /\ UNCHANGED <<reqStatus, claims, board>>
        BY <2>9 DEF InsertClaim, CountLeft, BuildNotify, DropClaim, MayBegin, Idle, db
      <3>4. tx'[p].via = "web"
        <4>1. tx[p] \in Transactions
          BY <1>2, Before
        <4>2. CASE InsertClaim(p) \/ CountLeft(p) \/ BuildNotify(p)
          <5>1. Open(p) /\ tx[p].via = "web"
            BY <2>2, <4>2 DEF Open, InsertClaim, CountLeft, BuildNotify
          <5>2. tx'[p].via = tx[p].via
            <6>1. tx \in [Procs -> Transactions]
              BY <1>2 DEF AceInv, TypeInv
            <6>2. CASE InsertClaim(p)
              <7>1. tx[p].pc = "insert" /\ tx'[p] = [tx[p] EXCEPT !.pc = "notify"]
                BY <6>1, <6>2 DEF InsertClaim
              <7> QED
                BY <4>1, <7>1, TxFacts
            <6>3. CASE CountLeft(p)
              <7>1. tx[p].pc = "count"
                    /\ tx'[p] = [tx[p] EXCEPT !.pc = "notify", !.count = Cardinality(SeenClaims(p))]
                BY <6>1, <6>3 DEF CountLeft
              <7> QED
                BY <4>1, <7>1, TxFacts
            <6>4. CASE BuildNotify(p)
              BY <6>1, <6>4 DEF BuildNotify
            <6> QED
              BY <4>2, <6>2, <6>3, <6>4
          <5> QED
            BY <5>1, <5>2
        <4>3. CASE \E u \in Users : DropClaim(p, u)
          BY <1>2, <4>3 DEF DropClaim, AceInv, TypeInv
        <4> QED
          BY <2>9, <4>2, <4>3
      <3> QED
        BY <2>4, <3>2, <3>3, <3>4
    <2> QED
      BY <1>2, <2>3, <2>5, <2>6, <2>7, <2>8, <2>9 DEF Next, BotStep, Ways
  <1> QED
    BY <1>1, <1>2 DEF BoardInv

(* When nobody claims through the bot and no handler is under way, the     *)
(* boards show the request.                                                *)
THEOREM BoardsFresh == Spec => []BoardFresh
  <1>1. BoardInv => BoardFresh
    BY DEF BoardInv, BoardFresh, BoardCurrent, Idle
  <1>2. Spec => []BoardInv
    BY BoardAtStart, BoardStep, AceAlways, PTL DEF Spec
  <1> QED
    BY <1>1, <1>2, PTL

-----------------------------------------------------------------------------
(* The embed, where the environment is kind: handlers take turns, jobs     *)
(* arrive in order, and nobody claims before the post is acknowledged.     *)

Jobs == {PostJob} \cup NotifyJobs
Now  == [claimers |-> claims, count |-> Cardinality(claims)]

Shown(j) ==
    IF j = PostJob THEN [shown |-> TRUE, claimers |-> {}, filled |-> FALSE]
    ELSE [shown |-> TRUE, claimers |-> payload[j].claimers,
          filled |-> payload[j].count >= SlotCount]

(* Jobs are done one after another, and the embed shows the last.          *)
JobsInOrder ==
    /\ state \in [Jobs -> {"absent", "waiting", "taken", "done"}]
    /\ delivered \in [Jobs -> BOOLEAN]
    /\ \A j \in Jobs : state[j] = "done" => delivered[j]
    /\ \A j \in Jobs : delivered[j] =>
          /\ state[j] \in {"taken", "done"}
          /\ \A k \in Jobs : k < j => state[k] = "done"
    /\ \A j \in NotifyJobs : state[j] = "absent" <=> j > jobCount
    /\ state[PostJob] = "absent" <=> reqStatus = "none"
    /\ \A j \in Jobs :
          delivered[j] /\ (\A k \in Jobs : k > j => ~delivered[k]) => embed = Shown(j)

(* Handlers take turns, and every change of the claims is the last job's.  *)
TurnsTaken ==
    /\ \A p, q \in Procs : ~Idle(p) /\ ~Idle(q) => p = q
    /\ reqStatus = "none" => (\A p \in Procs : Idle(p)) /\ claims = {} /\ jobCount = 0
    /\ (claims # {} \/ \E p \in Procs : Open(p)) => state[PostJob] = "done"
    /\ \A p \in Procs : tx[p].pc = "insert" => tx[p].count = Cardinality(claims) + 1
    /\ \A p \in Procs : tx[p].pc = "notify" => tx[p].count = Cardinality(SeenClaims(p))
    /\ \A p \in Procs : tx[p].pc = "commit" =>
          tx[p].job = [claimers |-> SeenClaims(p), count |-> Cardinality(SeenClaims(p))]
    /\ reqStatus \in {"open", "completed", "cancelled"} =>
          IF jobCount = 0 THEN claims = {} ELSE payload[jobCount] = Now

EmbedInv == hazards = {} => JobsInOrder /\ TurnsTaken

LEMMA JobFacts ==
  /\ PostJob = 0 /\ PostJob \in Jobs /\ PostJob \notin NotifyJobs /\ NotifyJobs \subseteq Jobs
  /\ \A j \in NotifyJobs : j \in Nat /\ j > 0 /\ j <= NotifyBound
  /\ \A j \in Jobs : j \in Nat /\ (j = PostJob \/ j \in NotifyJobs)
  BY Bounds DEF PostJob, NotifyJobs, Jobs

LEMMA EmbedAtStart == Init => EmbedInv
  <1> SUFFICES ASSUME Init PROVE JobsInOrder /\ TurnsTaken
    BY DEF EmbedInv
  <1>1. /\ state = [j \in Jobs |-> "absent"] /\ delivered = [j \in Jobs |-> FALSE]
        /\ jobCount = 0 /\ reqStatus = "none" /\ claims = {}
        /\ \A p \in Procs : tx[p].pc = "idle"
    BY DEF Init, Q!QInit, Jobs, IdleTx
  <1>2. delivered \in [Jobs -> BOOLEAN]
    BY <1>1, Zenon
  <1>3. JobsInOrder
    BY <1>1, <1>2, JobFacts DEF JobsInOrder
  <1>4. TurnsTaken
    BY <1>1 DEF TurnsTaken, Idle, Open
  <1> QED
    BY <1>3, <1>4

(* The bot.                                                                *)
LEMMA EmbedBot ==
  ASSUME AceInv, JobsInOrder, TurnsTaken, hazards = {}, BotStep
  PROVE  JobsInOrder' /\ TurnsTaken'
  <1>1. UNCHANGED <<reqStatus, claims, lock, tx, payload, jobCount>>
    BY BotLeaves DEF app, db
  <1> USE JobFacts
  <1>2. ~GiveUpJobs
    BY DEF GiveUpJobs
  <1>3. CASE TakeJobs
    <2>1. PICK S \in SUBSET Jobs :
            /\ \A j \in S : state[j] = "waiting"
            /\ state' = [j \in Jobs |-> IF j \in S THEN "taken" ELSE state[j]]
            /\ UNCHANGED <<delivered, embed>>
      BY <1>3 DEF TakeJobs, Q!Take, Jobs
    <2>2. /\ state' \in [Jobs -> {"absent", "waiting", "taken", "done"}]
          /\ \A j \in Jobs : /\ state'[j] = "done" <=> state[j] = "done"
                             /\ state'[j] = "absent" <=> state[j] = "absent"
                             /\ state[j] = "taken" => state'[j] = "taken"
      BY <2>1 DEF JobsInOrder
    <2>3. \A j \in Jobs : Shown(j)' = Shown(j)
      BY <1>1 DEF Shown
    <2>4. \A j \in Jobs :
             delivered'[j] /\ (\A k \in Jobs : k > j => ~delivered'[k]) => embed' = Shown(j)'
      BY <2>1, <2>3 DEF JobsInOrder
    <2>5. JobsInOrder'
      BY <1>1, <2>1, <2>2, <2>4 DEF JobsInOrder
    <2>6. TurnsTaken'
      BY <1>1, <2>2 DEF TurnsTaken, Idle, Open, SeenClaims, Now
    <2> QED
      BY <2>5, <2>6
  <1>4. ASSUME NEW j \in Jobs, Deliver(j) PROVE JobsInOrder' /\ TurnsTaken'
    <2>1. /\ state[j] = "taken" /\ ~delivered[j]
          /\ \A k \in Jobs : k < j => state[k] = "done"
      BY <1>4 DEF Deliver, InOrder, Jobs
    <2>2. /\ state' = state /\ delivered' = [delivered EXCEPT ![j] = TRUE]
          /\ embed' = Shown(j)
      BY <1>4 DEF Deliver, Q!Deliver, Shown
    <2>3. \A k \in Jobs : delivered[k] => k <= j
      BY <2>1 DEF JobsInOrder
    <2>4. /\ delivered' \in [Jobs -> BOOLEAN] /\ delivered'[j]
          /\ \A k \in Jobs : k # j => delivered'[k] = delivered[k]
      BY <2>2 DEF JobsInOrder
    <2>5. \A k \in Jobs : Shown(k)' = Shown(k)
      BY <1>1 DEF Shown
    <2>6. \A k \in Jobs :
             delivered'[k] /\ (\A l \in Jobs : l > k => ~delivered'[l]) => embed' = Shown(k)'
      BY <2>2, <2>3, <2>4, <2>5
    <2>7. \A k \in Jobs : state'[k] = "done" => delivered'[k]
      BY <2>2, <2>4 DEF JobsInOrder
    <2>8. \A k \in Jobs : delivered'[k] =>
            state'[k] \in {"taken", "done"} /\ \A l \in Jobs : l < k => state'[l] = "done"
      BY <2>1, <2>2, <2>4 DEF JobsInOrder
    <2>9. JobsInOrder'
      BY <1>1, <2>2, <2>4, <2>6, <2>7, <2>8 DEF JobsInOrder
    <2>10. TurnsTaken'
      BY <1>1, <2>2 DEF TurnsTaken, Idle, Open, SeenClaims, Now
    <2> QED
      BY <2>9, <2>10
  <1>5. ASSUME NEW j \in Jobs, FinishJob(j) PROVE JobsInOrder' /\ TurnsTaken'
    <2>1. /\ state[j] = "taken" /\ delivered[j] /\ state' = [state EXCEPT ![j] = "done"]
          /\ UNCHANGED <<delivered, embed>>
      BY <1>5 DEF FinishJob, Q!Finish
    <2>2. /\ state' \in [Jobs -> {"absent", "waiting", "taken", "done"}] /\ state'[j] = "done"
          /\ \A k \in Jobs : k # j => state'[k] = state[k]
      BY <2>1 DEF JobsInOrder
    <2>3. \A k \in Jobs : Shown(k)' = Shown(k)
      BY <1>1 DEF Shown
    <2>4. \A k \in Jobs :
             delivered'[k] /\ (\A l \in Jobs : l > k => ~delivered'[l]) => embed' = Shown(k)'
      BY <2>1, <2>3 DEF JobsInOrder
    <2>5. JobsInOrder'
      BY <1>1, <2>1, <2>2, <2>4 DEF JobsInOrder
    <2>6. TurnsTaken'
      BY <1>1, <2>2 DEF TurnsTaken, Idle, Open, SeenClaims, Now
    <2> QED
      BY <2>5, <2>6
  <1> QED
    BY <1>2, <1>3, <1>4, <1>5 DEF BotStep, Jobs

(* Handlers that leave the queue alone, and the status but for its end.    *)
LEMMA JobsStay ==
  ASSUME JobsInOrder, UNCHANGED <<state, delivered, embed, payload, jobCount>>,
         reqStatus' = "none" <=> reqStatus = "none"
  PROVE  JobsInOrder'
  BY DEF JobsInOrder, Shown

(* A handler's step inside its turn.                                       *)
LEMMA TurnGoesOn ==
  ASSUME AceInv, TurnsTaken, NEW p \in Procs, NEW t \in Transactions, Goes(p, t),
         \A q \in Procs \ {p} : Idle(q), reqStatus' # "none",
         (claims' # {} \/ OpenRecord(t)) => state'[PostJob] = "done",
         t.pc = "insert" => t.count = Cardinality(claims') + 1,
         t.pc = "notify" => t.count = Cardinality(SeenClaims(p)'),
         t.pc = "commit" =>
            t.job = [claimers |-> SeenClaims(p)', count |-> Cardinality(SeenClaims(p)')],
         reqStatus' \in {"open", "completed", "cancelled"} =>
            IF jobCount' = 0 THEN claims' = {} ELSE payload'[jobCount'] = Now'
  PROVE  TurnsTaken'
  <1>1. tx'[p] = t /\ \A q \in Procs \ {p} : tx'[q] = tx[q] /\ tx'[q].pc = "idle"
    BY GoesFacts DEF AceInv, Idle
  <1>2. \A q, r \in Procs : ~Idle(q)' /\ ~Idle(r)' => q = r
    BY <1>1 DEF Idle
  <1>3. (\E q \in Procs : Open(q)') => OpenRecord(t)
    BY <1>1 DEF Open, OpenRecord
  <1> QED
    BY <1>1, <1>2, <1>3 DEF TurnsTaken

(* Only one handler is under way: a handler begins when none is, or goes   *)
(* on with the turn it has.                                                *)
LEMMA MyTurn ==
  ASSUME TurnsTaken, hazards = {}, NEW p \in Procs,
         MayBegin(p) \/ ~Idle(p) \/ reqStatus = "none"
  PROVE  \A q \in Procs \ {p} : Idle(q)
  BY DEF TurnsTaken, MayBegin

LEMMA EmbedOutside ==
  ASSUME AceInv, JobsInOrder, TurnsTaken, hazards = {}, NEW p \in Procs,
         \/ Publish(p) \/ DeleteRequest(p)
         \/ \E outcome \in {"completed", "cancelled"} : Decide(p, outcome)
  PROVE  JobsInOrder' /\ TurnsTaken'
  <1>1. PICK t \in {IdleTx, [pc |-> "publish"]} : Goes(p, t)
    BY DEF Publish, DeleteRequest, Decide, Goes
  <1>2. t \in Transactions /\ t.pc \in {"idle", "publish"}
    BY DEF Transactions, IdleTx
  <1>3. UNCHANGED <<state, delivered, embed, payload, jobCount>>
    BY DEF Publish, DeleteRequest, Decide, queue
  <1>4. MayBegin(p) \/ ~Idle(p)
    BY DEF Publish, DeleteRequest, Decide, Idle
  <1>5. \A q \in Procs \ {p} : Idle(q)
    BY <1>4, MyTurn
  <1>6. /\ reqStatus # "none" /\ reqStatus' # "none"
        /\ \/ claims' = claims /\ (reqStatus' \in {"open", "completed", "cancelled"} =>
                                      reqStatus \in {"open", "completed", "cancelled"})
           \/ claims' = {} /\ reqStatus' = "deleted"
    <2>1. CASE Publish(p)
      <3>1. reqStatus # "none"
        BY <2>1 DEF Publish, TurnsTaken, Idle
      <3> QED
        BY <2>1, <3>1 DEF Publish, db
    <2>2. CASE ~Publish(p)
      BY <2>2 DEF DeleteRequest, Decide
    <2> QED
      BY <2>1, <2>2
  <1>7. JobsInOrder'
    BY <1>3, <1>6, JobsStay
  <1>8. /\ claims' # {} => state'[PostJob] = "done"
        /\ reqStatus' \in {"open", "completed", "cancelled"} =>
              IF jobCount' = 0 THEN claims' = {} ELSE payload'[jobCount'] = Now'
    BY <1>3, <1>6 DEF TurnsTaken, Now
  <1>9. ~OpenRecord(t) /\ t.pc \notin {"insert", "notify", "commit"}
    BY <1>2 DEF OpenRecord
  <1> QED
    BY <1>1, <1>2, <1>5, <1>6, <1>7, <1>8, <1>9, TurnGoesOn

LEMMA EmbedCreate ==
  ASSUME AceInv, JobsInOrder, TurnsTaken, hazards = {}, NEW p \in Procs, CreateRequest(p)
  PROVE  JobsInOrder' /\ TurnsTaken'
  <1> USE JobFacts
  <1> DEFINE t == [pc |-> "publish"]
  <1>1. Goes(p, t) /\ t \in Transactions /\ t.pc = "publish"
    BY DEF CreateRequest, Goes, Transactions
  <1>2. /\ reqStatus = "none" /\ reqStatus' = "open"
        /\ state' = [state EXCEPT ![PostJob] = "waiting"]
        /\ UNCHANGED <<claims, delivered, embed, payload, jobCount>>
    BY DEF CreateRequest, Q!Submit
  <1>3. claims = {} /\ jobCount = 0 /\ \A q \in Procs \ {p} : Idle(q)
    BY <1>2 DEF TurnsTaken
  <1>4. \A j \in Jobs : ~delivered[j]
    BY <1>2, <1>3 DEF JobsInOrder
  <1>5. /\ state' \in [Jobs -> {"absent", "waiting", "taken", "done"}]
        /\ state'[PostJob] = "waiting" /\ \A j \in NotifyJobs : state'[j] = state[j]
    BY <1>2 DEF JobsInOrder
  <1>6. JobsInOrder'
    BY <1>2, <1>4, <1>5 DEF JobsInOrder
  <1>7. ~OpenRecord(t) /\ t.pc \notin {"insert", "notify", "commit"}
    BY <1>1 DEF OpenRecord
  <1> HIDE DEF t
  <1> QED
    BY <1>1, <1>2, <1>3, <1>6, <1>7, TurnGoesOn

LEMMA EmbedLock ==
  ASSUME AceInv, JobsInOrder, TurnsTaken, hazards = {},
         NEW p \in Procs, NEW u \in Users, NEW via \in Ways, LockRequest(p, u, via)
  PROVE  JobsInOrder' /\ TurnsTaken'
  <1> DEFINE n == Cardinality(claims) + 1
             t == [pc |-> "insert", kind |-> "claim", user |-> u, via |-> via, count |-> n]
  <1>1. n \in Nat
    BY Before
  <1>2. /\ Goes(p, t) /\ MayBegin(p) /\ reqStatus = "open" /\ state[PostJob] = "done"
        /\ UNCHANGED <<reqStatus, claims, payload, jobCount, embed, state, delivered>>
    BY DEF LockRequest, Goes, queue
  <1>3. n = Cardinality(claims') + 1
    BY <1>2
  <1> HIDE DEF n
  <1>4. t \in Transactions /\ t.pc = "insert" /\ t.count = n
    BY <1>1 DEF Transactions
  <1> HIDE DEF t
  <1>5. \A q \in Procs \ {p} : Idle(q)
    BY <1>2, MyTurn
  <1>6. JobsInOrder'
    BY <1>2, JobsStay
  <1>7. IF jobCount' = 0 THEN claims' = {} ELSE payload'[jobCount'] = Now'
    BY <1>2 DEF TurnsTaken, Now
  <1> QED
    BY <1>2, <1>3, <1>4, <1>5, <1>6, <1>7, TurnGoesOn

LEMMA EmbedReads ==
  ASSUME AceInv, JobsInOrder, TurnsTaken, hazards = {}, NEW p \in Procs,
         InsertClaim(p) \/ CountLeft(p) \/ BuildNotify(p) \/ Rollback(p)
         \/ \E u \in Users : DropClaim(p, u)
  PROVE  JobsInOrder' /\ TurnsTaken'
  <1>1. UNCHANGED <<reqStatus, claims, payload, jobCount, embed, state, delivered>>
    BY DEF InsertClaim, CountLeft, BuildNotify, Rollback, DropClaim, db, queue
  <1>2. MayBegin(p) \/ ~Idle(p)
    BY DEF InsertClaim, CountLeft, BuildNotify, Rollback, DropClaim, Idle
  <1>3. \A q \in Procs \ {p} : Idle(q)
    BY <1>2, MyTurn
  <1>4. /\ reqStatus # "none" /\ state[PostJob] = "done"
        /\ reqStatus \in {"open", "completed", "cancelled"} =>
              IF jobCount = 0 THEN claims = {} ELSE payload[jobCount] = Now
    BY DEF InsertClaim, CountLeft, BuildNotify, Rollback, DropClaim, TurnsTaken, Idle, Open
  <1>5. JobsInOrder'
    BY <1>1, JobsStay
  <1>6. tx \in [Procs -> Transactions] /\ tx[p] \in Transactions
    BY DEF AceInv, TypeInv
  <1>7. AceInv'
    BY StepReads, StepRollback
  <1>8. tx' \in [Procs -> Transactions] /\ tx'[p] \in Transactions
    BY <1>7 DEF AceInv, TypeInv
  <1>9. Goes(p, tx'[p])
    BY <1>6 DEF InsertClaim, CountLeft, BuildNotify, Rollback, DropClaim, Goes
  <1>10. /\ tx'[p].pc = "insert" => tx'[p].count = Cardinality(claims') + 1
         /\ tx'[p].pc = "notify" => tx'[p].count = Cardinality(SeenClaims(p)')
         /\ tx'[p].pc = "commit" =>
              tx'[p].job = [claimers |-> SeenClaims(p)', count |-> Cardinality(SeenClaims(p)')]
    <2>1. CASE InsertClaim(p)
      <3>1. tx[p] \in [pc : {"insert"}, kind : {"claim"}, user : Users, via : Ways, count : Nat]
        BY <1>6, <2>1, TxFacts DEF InsertClaim
      <3>2. tx'[p] = [tx[p] EXCEPT !.pc = "notify"]
        BY <1>6, <2>1 DEF InsertClaim
      <3>3. tx'[p].pc = "notify" /\ tx'[p].count = tx[p].count /\ tx'[p].kind = "claim"
            /\ tx'[p].user = tx[p].user
        BY <3>1, <3>2
      <3>4. tx[p].user \notin claims /\ tx[p].count = Cardinality(claims) + 1
        BY <2>1, <3>1 DEF InsertClaim, TurnsTaken
      <3>5. SeenClaims(p)' = claims \cup {tx[p].user}
        BY <1>1, <3>3 DEF SeenClaims
      <3>6. IsFiniteSet(claims)
        BY Before, SlotSets
      <3>7. Cardinality(claims \cup {tx[p].user}) = Cardinality(claims) + 1
        BY <3>4, <3>6, FS_AddElement
      <3> QED
        BY <3>3, <3>4, <3>5, <3>7
    <2>2. CASE CountLeft(p)
      <3>1. tx[p] \in [pc : {"count"}, kind : {"release"}, user : Users, via : Ways, count : Nat]
        BY <1>6, <2>2, TxFacts DEF CountLeft
      <3>2. tx'[p] = [tx[p] EXCEPT !.pc = "notify", !.count = Cardinality(SeenClaims(p))]
        BY <1>6, <2>2 DEF CountLeft
      <3>3. tx'[p].pc = "notify" /\ tx'[p].count = Cardinality(SeenClaims(p))
            /\ tx'[p].kind = tx[p].kind /\ tx'[p].user = tx[p].user
        BY <3>1, <3>2
      <3>4. SeenClaims(p)' = SeenClaims(p)
        BY <1>1, <3>3 DEF SeenClaims
      <3> QED
        BY <3>3, <3>4
    <2>3. CASE BuildNotify(p)
      <3>1. tx[p].pc = "notify" /\ tx[p].count = Cardinality(SeenClaims(p))
        BY <2>3 DEF BuildNotify, TurnsTaken
      <3>2. tx'[p] = [pc |-> "commit", kind |-> tx[p].kind, user |-> tx[p].user,
                      via |-> tx[p].via, job |-> Snapshot(p)]
        BY <1>4, <1>6, <2>3 DEF BuildNotify
      <3>3. SeenClaims(p)' = SeenClaims(p)
        BY <1>1, <3>2 DEF SeenClaims
      <3> QED
        BY <3>1, <3>2, <3>3 DEF Snapshot
    <2>4. CASE Rollback(p)
      BY <1>6, <2>4 DEF Rollback, IdleTx
    <2>5. CASE \E u \in Users : DropClaim(p, u)
      BY <1>6, <2>5 DEF DropClaim
    <2> QED
      BY <2>1, <2>2, <2>3, <2>4, <2>5
  <1> DEFINE t == tx'[p]
  <1>11. /\ IF jobCount' = 0 THEN claims' = {} ELSE payload'[jobCount'] = Now'
         \/ reqStatus' \notin {"open", "completed", "cancelled"}
    BY <1>1, <1>4 DEF Now
  <1>12. reqStatus' # "none" /\ state'[PostJob] = "done"
    BY <1>1, <1>4
  <1> QED
    BY <1>3, <1>5, <1>8, <1>9, <1>10, <1>11, <1>12, TurnGoesOn

LEMMA EmbedCommit ==
  ASSUME AceInv, JobsInOrder, TurnsTaken, hazards = {}, NEW p \in Procs, Commit(p)
  PROVE  JobsInOrder' /\ TurnsTaken'
  <1> USE JobFacts
  <1> DEFINE n == jobCount + 1
             snap == [claimers |-> SeenClaims(p), count |-> Cardinality(SeenClaims(p))]
  <1>1. tx[p].pc = "commit" /\ Open(p) /\ ~Idle(p)
    BY DEF Commit, Open, Idle
  <1>2. tx[p].job = snap /\ state[PostJob] = "done" /\ reqStatus # "none"
    BY <1>1 DEF TurnsTaken
  <1>3. Cardinality(SeenClaims(p)) \in Nat
    BY <1>1, SeenSmall
  <1>4. snap # NoJob
    BY <1>3 DEF NoJob
  <1>5. /\ jobCount' = n /\ payload' = [payload EXCEPT ![n] = snap]
        /\ state[n] = "absent" /\ state' = [state EXCEPT ![n] = "waiting"]
        /\ claims' = SeenClaims(p) /\ Goes(p, AfterCommit(p))
        /\ UNCHANGED <<reqStatus, delivered, embed>>
    BY <1>2, <1>4 DEF Commit, Q!Submit, Goes
  <1>6. n \in NotifyJobs
    <2>1. AceInv'
      BY StepCommit
    <2>2. jobCount \in Nat
      BY DEF AceInv, TypeInv
    <2>3. Cardinality({q \in Procs : Open(q)'}) \in Nat
      <3>1. IsFiniteSet({q \in Procs : Open(q)'})
        BY AceAssumption, FS_Subset
      <3> QED
        BY <3>1, FS_CardinalityType
    <2>4. jobCount' \in Nat /\ jobCount' + Cardinality({q \in Procs : Open(q)'}) <= NotifyBound
      BY <2>1 DEF AceInv, TypeInv
    <2>5. n \in 1..NotifyBound
      BY <1>5, <2>2, <2>3, <2>4, Bounds
    <2> QED
      BY <2>5 DEF NotifyJobs
  <1>7. /\ state' \in [Jobs -> {"absent", "waiting", "taken", "done"}] /\ state'[n] = "waiting"
        /\ \A j \in Jobs : j # n => state'[j] = state[j]
        /\ ~delivered[n]
    BY <1>5, <1>6 DEF JobsInOrder
  <1>8. payload'[n] = snap /\ \A j \in NotifyJobs : j # n => payload'[j] = payload[j]
    BY <1>5, <1>6 DEF AceInv, TypeInv
  <1>9. \A j \in Jobs : delivered[j] => Shown(j)' = Shown(j)
    BY <1>7, <1>8 DEF Shown
  <1>10. jobCount \in Nat
    BY DEF AceInv, TypeInv
  <1>11. \A j \in NotifyJobs : state'[j] = "absent" <=> j > jobCount'
    BY <1>5, <1>6, <1>7, <1>10 DEF JobsInOrder
  <1>12. \A j \in Jobs : delivered'[j] =>
            state'[j] \in {"taken", "done"} /\ \A k \in Jobs : k < j => state'[k] = "done"
    BY <1>5, <1>6, <1>7 DEF JobsInOrder
  <1>13. \A j \in Jobs : state'[j] = "done" => delivered'[j]
    BY <1>5, <1>6, <1>7 DEF JobsInOrder
  <1>14. state'[PostJob] = "done" /\ reqStatus' # "none"
    BY <1>2, <1>5, <1>6, <1>7
  <1>15. JobsInOrder'
    BY <1>5, <1>7, <1>9, <1>11, <1>12, <1>13, <1>14 DEF JobsInOrder
  <1>16. payload'[jobCount'] = Now' /\ jobCount' # 0
    BY <1>5, <1>8, <1>10 DEF Now
  <1>17. /\ AfterCommit(p) \in Transactions /\ ~OpenRecord(AfterCommit(p))
         /\ AfterCommit(p).pc \notin {"insert", "notify", "commit"}
    BY DEF AfterCommit, Transactions, OpenRecord, IdleTx
  <1>18. \A q \in Procs \ {p} : Idle(q)
    BY <1>1, MyTurn
  <1>19. Goes(p, AfterCommit(p))
    BY <1>5
  <1> HIDE DEF n, snap
  <1> QED
    BY <1>14, <1>15, <1>16, <1>17, <1>18, <1>19, TurnGoesOn

LEMMA EmbedStep == AceInv /\ EmbedInv /\ [Next]_vars => EmbedInv'
  <1>1. ASSUME EmbedInv, UNCHANGED vars PROVE EmbedInv'
    BY <1>1 DEF EmbedInv, vars, JobsInOrder, TurnsTaken, Shown, Now, Idle, Open, SeenClaims
  <1>2. ASSUME AceInv, EmbedInv, Next, hazards' = {} PROVE JobsInOrder' /\ TurnsTaken'
    <2>1. hazards' = hazards
      BY <1>2, BotLeaves DEF Next, CreateRequest, LockRequest, InsertClaim, DropClaim, CountLeft,
             BuildNotify, Commit, Rollback, Publish, Decide, DeleteRequest, BotStep
    <2>2. JobsInOrder /\ TurnsTaken /\ hazards = {}
      BY <1>2, <2>1 DEF EmbedInv
    <2> QED
      BY <1>2, <2>2, EmbedBot, EmbedOutside, EmbedCreate, EmbedLock, EmbedReads, EmbedCommit
         DEF Next, BotStep, Ways
  <1> QED
    BY <1>1, <1>2 DEF EmbedInv

(* At rest the embed shows who has claimed, where nothing is reordered,    *)
(* overlaps or comes too early.                                            *)
THEOREM EmbedTrue == Spec => []EmbedShowsClaims
  <1>1. AceInv /\ EmbedInv => EmbedShowsClaims
    <2> SUFFICES ASSUME AceInv, JobsInOrder, TurnsTaken, AtRest,
                        reqStatus \in {"open", "completed", "cancelled"}
                 PROVE  /\ embed.shown /\ embed.claimers = claims
                        /\ embed.filled = (Cardinality(claims) >= SlotCount)
      BY DEF EmbedInv, EmbedShowsClaims, EmbedCurrent
    <2> USE JobFacts
    <2>1. \A j \in Jobs : state[j] \in {"absent", "done"}
      BY DEF AtRest, Jobs
    <2>2. delivered[PostJob]
      BY <2>1 DEF JobsInOrder
    <2>3. \A j \in NotifyJobs : delivered[j] => j <= jobCount
      BY DEF JobsInOrder, AceInv, TypeInv
    <2>4. CASE jobCount = 0
      <3>1. embed = Shown(PostJob)
        BY <2>2, <2>3, <2>4 DEF JobsInOrder
      <3>2. claims = {} /\ ~(Cardinality(claims) >= SlotCount)
        BY <2>4, Bounds DEF TurnsTaken
      <3>3. embed.shown = TRUE /\ embed.claimers = {} /\ embed.filled = FALSE
        BY <3>1 DEF Shown
      <3>4. (Cardinality(claims) >= SlotCount) = FALSE
        BY <3>2
      <3>5. embed.filled = (Cardinality(claims) >= SlotCount)
        BY <3>3, <3>4, Zenon
      <3> QED
        BY <3>2, <3>3, <3>5
    <2>5. CASE jobCount # 0
      <3>1. jobCount \in NotifyJobs
        <4>1. jobCount \in Nat /\ jobCount <= NotifyBound
          BY OpenSet, Bounds DEF AceInv, TypeInv
        <4> QED
          BY <2>5, <4>1, Bounds DEF NotifyJobs
      <3>2. delivered[jobCount]
        BY <2>1, <3>1 DEF JobsInOrder
      <3>3. embed = Shown(jobCount)
        BY <2>3, <3>1, <3>2 DEF JobsInOrder
      <3>4. payload[jobCount] = Now
        BY <2>5 DEF TurnsTaken
      <3>5. jobCount # PostJob
        BY <3>1
      <3>6. embed = [shown |-> TRUE, claimers |-> payload[jobCount].claimers,
                     filled |-> payload[jobCount].count >= SlotCount]
        BY <3>3, <3>5, Zenon DEF Shown
      <3>7. payload[jobCount].claimers = claims /\ payload[jobCount].count = Cardinality(claims)
        BY <3>4 DEF Now
      <3>8. /\ embed.shown = TRUE /\ embed.claimers = payload[jobCount].claimers
            /\ embed.filled = (payload[jobCount].count >= SlotCount)
        BY <3>6, Zenon
      <3> QED
        BY <3>7, <3>8
    <2> QED
      BY <2>4, <2>5
  <1>2. Spec => []EmbedInv
    BY EmbedAtStart, EmbedStep, AceAlways, PTL DEF Spec
  <1> QED
    BY <1>1, <1>2, AceAlways, PTL
=============================================================================
