------------------------- MODULE GdpProgramProofs --------------------------
(***************************************************************************)
(* What a program's handlers guarantee however many of them overlap, fail  *)
(* or are overtaken by the cleanup pass: advisories belong to published    *)
(* programs, a published program keeps a standing advisory, and a program  *)
(* that has ended stays so.                                                *)
(*                                                                         *)
(* The invariant follows a call through its transaction.  Its run is its   *)
(* own and has no advisory before the commit, so the advisory it generates *)
(* is not one it cancels; a revise or compress has seen the program        *)
(* published, which it remains in the sense of published_at; a publish     *)
(* past its update holds the row, a draft until the commit, alone.         *)
(***************************************************************************)
EXTENDS GdpProgram, FiniteSetTheorems, TLAPS

(* The call has run the engine.                                            *)
Working(p) == calls[p].pc \in {"ready", "slots", "drop", "live", "retire", "commit"}
InTransaction(p) == calls[p].pc \in {"slots", "drop", "live", "retire", "commit"}
HoldsRow(p) == calls[p].kind = "publish" /\ InTransaction(p)

CallsFollow ==
    \A p \in Procs :
        /\ Idle(p) => calls[p] = NoCall
        /\ calls[p].pc = "reread" => calls[p].retired = {} /\ calls[p].kind = "revise"
        /\ Working(p) => /\ calls[p].run \in Runs /\ ran[calls[p].run] # 0
                         /\ advisories[calls[p].run].status = "none"
        /\ calls[p].retired # {} => calls[p].pc = "commit" /\ calls[p].kind = "revise"
        /\ calls[p].pc = "ready" => calls[p].kind = "publish"
        /\ calls[p].pc \in {"live", "retire"} => calls[p].kind = "revise"
        /\ Working(p) /\ calls[p].kind # "publish" => gdp.published
        /\ HoldsRow(p) => gdp.status = "draft"

RunsOwn ==
    \A p, q \in Procs : Working(p) /\ Working(q) /\ calls[p].run = calls[q].run => p = q

RowHeldOnce == \A p, q \in Procs : HoldsRow(p) /\ HoldsRow(q) => p = q

RetiredExist ==
    \A p \in Procs : \A r \in calls[p].retired : advisories[r].status # "none"

RunsRecorded == \A r \in Runs : advisories[r].status # "none" => ran[r] # 0

VersionGiven == gdp.status # "none" => gdp.version # 0

ProgramInv ==
    /\ TypeOK
    /\ VersionGiven
    /\ CallsFollow /\ RunsOwn /\ RowHeldOnce /\ RetiredExist /\ RunsRecorded
    /\ OnlyForPublished
    /\ AdvisoryStands

-----------------------------------------------------------------------------
LEMMA ProgramInit == Init => ProgramInv
  <1> SUFFICES ASSUME Init PROVE ProgramInv
    OBVIOUS
  <1>1. TypeOK
    BY GdpAssumption
       DEF Init, TypeOK, NoCall, NoAdvisory, GdpRecords, CallRecords, AdvisoryRecords, Runs
  <1> QED
    BY <1>1 DEF Init, ProgramInv, VersionGiven, CallsFollow, RunsOwn, RowHeldOnce, RetiredExist, RunsRecorded,
                OnlyForPublished, AdvisoryStands, Idle, Working, InTransaction, HoldsRow,
                NoCall, NoAdvisory

-----------------------------------------------------------------------------
(* Steps that change the program's row: it keeps its publish time and is   *)
(* not published by them, and its status changes only when nobody holds    *)
(* the row.                                                                *)
LEMMA RowChanges ==
  ASSUME ProgramInv, gdp' \in GdpRecords, slots' \in SUBSET Runs,
         sweep' \in {"idle", "purge", "retire"},
         UNCHANGED <<ran, advisories, calls, env>>,
         gdp'.published = gdp.published,
         gdp'.status = "published" => gdp.status = "published",
         gdp'.status = gdp.status \/ \A p \in Procs : ~HoldsRow(p),
         gdp'.status # "none" => gdp'.version # 0
  PROVE  ProgramInv'
  <1>1. TypeOK'
    BY DEF ProgramInv, TypeOK
  <1>2. CallsFollow'
    BY DEF ProgramInv, CallsFollow, Idle, Working, InTransaction, HoldsRow
  <1>3. RunsOwn' /\ RowHeldOnce' /\ RetiredExist' /\ RunsRecorded'
    BY DEF ProgramInv, RunsOwn, RowHeldOnce, RetiredExist, RunsRecorded, Working,
           InTransaction, HoldsRow
  <1> QED
    BY <1>1, <1>2, <1>3 DEF ProgramInv, VersionGiven, OnlyForPublished, AdvisoryStands, Standing

LEMMA NoHolder ==
  ASSUME ProgramInv, ~RowLocked \/ gdp.status # "draft"
  PROVE  \A p \in Procs : ~HoldsRow(p)
  BY DEF RowLocked, HoldsRow, InTransaction, ProgramInv, CallsFollow

LEMMA GdpTypes ==
  ASSUME ProgramInv
  PROVE  /\ gdp \in GdpRecords /\ slots \in SUBSET Runs /\ {} \in SUBSET Runs
         /\ sweep \in {"idle", "purge", "retire"}
         /\ gdp.published \in BOOLEAN /\ gdp.version \in 0..VersionBound
         /\ gdp = [status |-> gdp.status, version |-> gdp.version, published |-> gdp.published]
  BY DEF ProgramInv, TypeOK, GdpRecords

(* Creating, cancelling, deleting, expiring, purging.                      *)
LEMMA RowStep ==
  ASSUME ProgramInv, CreateGdp \/ CancelGdp \/ DeleteGdp \/ SweepExpire \/ SweepPurge
  PROVE  ProgramInv'
  <1> USE GdpTypes
  <1>1. CASE CreateGdp
    <2>1. gdp' = [gdp EXCEPT !.status = "draft", !.version = 1] /\ 1 \in 0..VersionBound
      BY <1>1, GdpAssumption DEF CreateGdp
    <2>2. /\ gdp' \in GdpRecords /\ gdp'.status = "draft" /\ gdp'.version = 1
          /\ gdp'.published = gdp.published
      BY <2>1 DEF GdpRecords
    <2>3. \A p \in Procs : ~HoldsRow(p)
      BY <1>1, NoHolder DEF CreateGdp
    <2> QED
      BY <1>1, <2>2, <2>3, RowChanges DEF CreateGdp
  <1>2. ASSUME NEW st \in {"cancelled", "expired", "deleted"},
               (gdp' = [gdp EXCEPT !.status = st] /\ gdp.status # "none") \/ gdp' = gdp
        PROVE  /\ gdp'.status # "none" => gdp'.version # 0
               /\ gdp' \in GdpRecords /\ gdp'.published = gdp.published
               /\ gdp'.status = "published" => gdp.status = "published"
    BY <1>2 DEF GdpRecords, ProgramInv, VersionGiven
  <1>3. CASE CancelGdp
    <2>1. gdp' = [gdp EXCEPT !.status = "cancelled"] /\ gdp.status # "none" /\ ~RowLocked
      BY <1>3 DEF CancelGdp
    <2> QED
      BY <1>2, <1>3, <2>1, NoHolder, RowChanges DEF CancelGdp
  <1>4. CASE DeleteGdp
    <2>1. /\ \/ gdp' = [gdp EXCEPT !.status = "deleted"]
             \/ gdp' = [gdp EXCEPT !.status = "cancelled"]
             \/ gdp' = gdp
          /\ gdp.status # "none" /\ ~RowLocked
      BY <1>4 DEF DeleteGdp
    <2>2. slots' \in SUBSET Runs
      BY <1>4 DEF DeleteGdp
    <2> QED
      BY <1>2, <1>4, <2>1, <2>2, NoHolder, RowChanges DEF DeleteGdp
  <1>5. CASE SweepExpire
    <2>1. /\ (gdp' = [gdp EXCEPT !.status = "expired"] /\ gdp.status # "none") \/ gdp' = gdp
          /\ ~RowLocked
      BY <1>5 DEF SweepExpire
    <2> QED
      BY <1>2, <1>5, <2>1, NoHolder, RowChanges DEF SweepExpire
  <1>6. CASE SweepPurge
    <2>1. /\ (gdp' = [gdp EXCEPT !.status = "deleted"] /\ gdp.status # "none") \/ gdp' = gdp
          /\ ~RowLocked
      BY <1>6 DEF SweepPurge, Ended
    <2>2. slots' \in SUBSET Runs
      BY <1>6 DEF SweepPurge
    <2> QED
      BY <1>2, <1>6, <2>1, <2>2, NoHolder, RowChanges DEF SweepPurge
  <1> QED
    BY <1>1, <1>3, <1>4, <1>5, <1>6

(* Retiring touches advisories of ended programs only.                     *)
LEMMA RetireStep == ProgramInv /\ SweepRetire => ProgramInv'
  <1> SUFFICES ASSUME ProgramInv, SweepRetire PROVE ProgramInv'
    OBVIOUS
  <1>1. \A r \in Runs :
          \/ advisories'[r] = advisories[r]
          \/ /\ Ended /\ Retirable(r)
             /\ advisories'[r] \in AdvisoryRecords /\ advisories'[r].status = "cancelled"
    BY DEF SweepRetire, Cancelled, AdvisoryRecords, ProgramInv, TypeOK
  <1>2. TypeOK'
    BY <1>1 DEF ProgramInv, TypeOK, SweepRetire
  <1>3. \A r \in Runs : advisories'[r].status = "none" <=> advisories[r].status = "none"
    BY <1>1 DEF Retirable
  <1>4. CallsFollow' /\ RunsOwn' /\ RowHeldOnce'
    BY <1>3 DEF SweepRetire, ProgramInv, CallsFollow, RunsOwn, RowHeldOnce, Idle, Working,
                InTransaction, HoldsRow
  <1>5. RetiredExist' /\ RunsRecorded' /\ OnlyForPublished'
    BY <1>3 DEF SweepRetire, ProgramInv, TypeOK, CallRecords, RetiredExist, RunsRecorded,
                OnlyForPublished
  <1>6. AdvisoryStands'
    BY <1>1 DEF SweepRetire, ProgramInv, AdvisoryStands, Standing, Ended
  <1> QED
    BY <1>2, <1>4, <1>5, <1>6 DEF SweepRetire, ProgramInv, VersionGiven

(* Revising starts without a run.                                          *)
LEMMA ReviseStep ==
  ASSUME ProgramInv, NEW p \in Procs, Revise(p)
  PROVE  ProgramInv'
  <1>1. /\ gdp' \in GdpRecords /\ gdp'.status = gdp.status /\ gdp'.published = gdp.published
        /\ gdp'.version # 0
    BY GdpAssumption DEF ProgramInv, TypeOK, Revise, GdpRecords
  <1>2. calls[p] = NoCall
    BY DEF ProgramInv, CallsFollow, Revise
  <1>3. /\ calls'[p] = [NoCall EXCEPT !.pc = "reread", !.kind = "revise"]
        /\ \A q \in Procs \ {p} : calls'[q] = calls[q]
        /\ UNCHANGED <<slots, ran, advisories, sweep, env>>
    BY <1>2 DEF Revise, ProgramInv, TypeOK
  <1>4. /\ calls'[p] \in CallRecords /\ calls'[p].pc = "reread" /\ calls'[p].kind = "revise"
        /\ calls'[p].retired = {}
    <2>1. 0 \in 0..RunBound
      BY GdpAssumption
    <2> QED
      BY <1>3, <2>1 DEF NoCall, CallRecords
  <1>5. TypeOK'
    BY <1>1, <1>3, <1>4 DEF Revise, ProgramInv, TypeOK
  <1>6. CallsFollow'
    <2> SUFFICES ASSUME NEW q \in Procs PROVE CallsFollow!(q)'
      BY DEF CallsFollow
    <2>1. CASE q = p
      BY <1>4, <2>1 DEF Idle, Working, InTransaction, HoldsRow
    <2>2. CASE q # p
      BY <1>1, <1>3, <2>2 DEF ProgramInv, CallsFollow, Idle, Working, InTransaction, HoldsRow
    <2> QED
      BY <2>1, <2>2
  <1>7. RunsOwn' /\ RowHeldOnce'
    <2>1. /\ ~Working(p)' /\ ~HoldsRow(p)'
          /\ \A q \in Procs \ {p} : /\ Working(q)' <=> Working(q)
                                    /\ HoldsRow(q)' <=> HoldsRow(q)
                                    /\ calls'[q].run = calls[q].run
      BY <1>3, <1>4 DEF Working, InTransaction, HoldsRow
    <2> QED
      BY <2>1 DEF ProgramInv, RunsOwn, RowHeldOnce
  <1>8. RetiredExist'
    BY <1>3, <1>4 DEF ProgramInv, RetiredExist
  <1> QED
    BY <1>1, <1>3, <1>5, <1>6, <1>7, <1>8 DEF ProgramInv, VersionGiven, RunsRecorded,
                                              OnlyForPublished, AdvisoryStands, Standing

-----------------------------------------------------------------------------
(* Steps that change one call only. *)

LEMMA NoCallType == NoCall \in CallRecords
  BY GdpAssumption DEF NoCall, CallRecords

(* The call ends.                                                          *)
LEMMA CallEnds ==
  ASSUME ProgramInv, NEW p \in Procs, calls' = [calls EXCEPT ![p] = NoCall],
         UNCHANGED <<gdp, slots, ran, advisories, sweep, env>>
  PROVE  ProgramInv'
  <1>1. TypeOK'
    BY NoCallType DEF ProgramInv, TypeOK
  <1>2. calls'[p] = NoCall /\ \A q \in Procs \ {p} : calls'[q] = calls[q]
    BY DEF ProgramInv, TypeOK
  <1>3. /\ calls'[p].pc = "idle" /\ calls'[p].kind = "none" /\ calls'[p].retired = {}
    BY <1>2 DEF NoCall
  <1> HIDE DEF NoCall
  <1> QED
    BY <1>1, <1>2, <1>3 DEF ProgramInv, VersionGiven, CallsFollow, RunsOwn, RowHeldOnce,
        RetiredExist, RunsRecorded, OnlyForPublished, AdvisoryStands, Idle, Working, InTransaction, HoldsRow,
        Standing

(* The call goes on with the same run.                                     *)
LEMMA CallGoesOn ==
  ASSUME ProgramInv, NEW p \in Procs, NEW c \in CallRecords,
         calls' = [calls EXCEPT ![p] = c],
         UNCHANGED <<gdp, slots, ran, advisories, sweep, env>>,
         Working(p), c.pc \in {"slots", "drop", "live", "retire", "commit"},
         c.kind = calls[p].kind, c.run = calls[p].run,
         c.pc \in {"live", "retire"} => c.kind = "revise",
         c.retired # {} => c.pc = "commit" /\ c.kind = "revise",
         \A r \in c.retired : advisories[r].status # "none",
         c.kind = "publish" => gdp.status = "draft" /\ \A q \in Procs : HoldsRow(q) => q = p
  PROVE  ProgramInv'
  <1>1. TypeOK'
    BY DEF ProgramInv, TypeOK
  <1>2. calls'[p] = c /\ \A q \in Procs \ {p} : calls'[q] = calls[q]
    BY DEF ProgramInv, TypeOK
  <1>3. CallsFollow'
    BY <1>2 DEF ProgramInv, CallsFollow, Idle, Working, InTransaction, HoldsRow
  <1>4. RunsOwn' /\ RowHeldOnce' /\ RetiredExist'
    BY <1>2 DEF ProgramInv, RunsOwn, RowHeldOnce, RetiredExist, Working, InTransaction, HoldsRow
  <1> QED
    BY <1>1, <1>3, <1>4
       DEF ProgramInv, VersionGiven, RunsRecorded, OnlyForPublished, AdvisoryStands, Standing

(* The statements of a transaction, from the publish's update on.          *)
LEMMA StatementStep ==
  ASSUME ProgramInv, NEW p \in Procs,
         PublishRow(p) \/ SeeSlots(p) \/ ReplaceSlots(p) \/ SeeLive(p) \/ CancelLive(p)
  PROVE  ProgramInv'
  <1>1. calls[p] \in CallRecords
    BY DEF ProgramInv, TypeOK
  <1>2. /\ calls[p].retired # {} => calls[p].pc = "commit" /\ calls[p].kind = "revise"
        /\ calls[p].pc = "ready" => calls[p].kind = "publish"
        /\ calls[p].pc \in {"live", "retire"} => calls[p].kind = "revise"
        /\ HoldsRow(p) => gdp.status = "draft" /\ \A q \in Procs : HoldsRow(q) => q = p
    BY DEF ProgramInv, CallsFollow, RowHeldOnce
  <1>3. CASE PublishRow(p) /\ ~CanPublish
    BY <1>3, CallEnds DEF PublishRow
  <1>4. CASE PublishRow(p) /\ CanPublish
    <2> DEFINE c == [calls[p] EXCEPT !.pc = "slots"]
    <2>1. /\ c \in CallRecords /\ c.pc = "slots" /\ c.kind = calls[p].kind
          /\ c.run = calls[p].run /\ c.retired = calls[p].retired
      BY <1>1 DEF CallRecords
    <2>2. calls' = [calls EXCEPT ![p] = c]
      BY <1>4 DEF PublishRow
    <2>3. \A q \in Procs : ~HoldsRow(q)
      BY <1>4 DEF PublishRow, RowLocked, HoldsRow, InTransaction
    <2>4. /\ UNCHANGED <<gdp, slots, ran, advisories, sweep, env>>
          /\ calls[p].pc = "ready" /\ gdp.status = "draft"
      BY <1>4 DEF PublishRow, CanPublish
    <2>5. Working(p) /\ c.retired = {}
      BY <1>2, <2>1, <2>4 DEF Working
    <2> HIDE DEF c
    <2> QED
      BY <2>1, <2>2, <2>3, <2>4, <2>5, CallGoesOn
  <1>5. CASE SeeSlots(p)
    <2> DEFINE c == [calls[p] EXCEPT !.pc = "drop", !.seen = slots]
    <2>1. /\ c \in CallRecords /\ c.pc = "drop" /\ c.kind = calls[p].kind
          /\ c.run = calls[p].run /\ c.retired = calls[p].retired
      BY <1>1 DEF CallRecords, ProgramInv, TypeOK
    <2>2. calls' = [calls EXCEPT ![p] = c]
      BY <1>5 DEF SeeSlots
    <2>3. UNCHANGED <<gdp, slots, ran, advisories, sweep, env>> /\ calls[p].pc = "slots"
      BY <1>5 DEF SeeSlots
    <2>4. Working(p) /\ c.retired = {} /\ (c.kind = "publish" => HoldsRow(p))
      BY <1>2, <2>1, <2>3 DEF Working, HoldsRow, InTransaction
    <2> HIDE DEF c
    <2> QED
      BY <1>2, <2>1, <2>2, <2>3, <2>4, CallGoesOn
  <1>6. CASE ReplaceSlots(p)
    <2> DEFINE next == IF calls[p].kind = "revise" THEN "live" ELSE "commit"
               c == [calls[p] EXCEPT !.pc = next,
                        !.dropped = calls[p].seen \cap slots, !.seen = {}]
    <2>1. /\ c \in CallRecords /\ c.pc = next /\ c.kind = calls[p].kind
          /\ c.run = calls[p].run /\ c.retired = calls[p].retired
      BY <1>1 DEF CallRecords
    <2>2. calls' = [calls EXCEPT ![p] = c]
      BY <1>6 DEF ReplaceSlots
    <2>3. next \in {"live", "commit"} /\ (next = "live" => calls[p].kind = "revise")
      OBVIOUS
    <2>4. Working(p) /\ (calls[p].kind = "publish" => HoldsRow(p)) /\ calls[p].retired = {}
      BY <1>2, <1>6 DEF ReplaceSlots, Working, HoldsRow, InTransaction
    <2>5. UNCHANGED <<gdp, slots, ran, advisories, sweep, env>>
      BY <1>6 DEF ReplaceSlots
    <2> HIDE DEF c, next
    <2> QED
      BY <1>2, <2>1, <2>2, <2>3, <2>4, <2>5, CallGoesOn
  <1>7. CASE SeeLive(p)
    <2> DEFINE c == [calls[p] EXCEPT !.pc = "retire", !.seen = Live]
    <2>1. Live \in SUBSET Runs
      BY DEF Live
    <2>2. /\ c \in CallRecords /\ c.pc = "retire" /\ c.kind = calls[p].kind
          /\ c.run = calls[p].run /\ c.retired = calls[p].retired
      BY <1>1, <2>1 DEF CallRecords
    <2>3. calls' = [calls EXCEPT ![p] = c]
      BY <1>7 DEF SeeLive
    <2>4. UNCHANGED <<gdp, slots, ran, advisories, sweep, env>> /\ calls[p].pc = "live"
      BY <1>7 DEF SeeLive
    <2>5. Working(p) /\ c.kind = "revise" /\ c.retired = {}
      BY <1>2, <2>2, <2>4 DEF Working
    <2> HIDE DEF c
    <2> QED
      BY <2>2, <2>3, <2>4, <2>5, CallGoesOn
  <1>8. CASE CancelLive(p)
    <2> DEFINE c == [calls[p] EXCEPT !.pc = "commit", !.retired = calls[p].seen \cap Live,
                                     !.seen = {}]
    <2>1. calls[p].seen \cap Live \in SUBSET Runs
      BY DEF Live
    <2>2. /\ c \in CallRecords /\ c.pc = "commit" /\ c.kind = calls[p].kind
          /\ c.run = calls[p].run /\ c.retired = calls[p].seen \cap Live
      BY <1>1, <2>1 DEF CallRecords
    <2>3. calls' = [calls EXCEPT ![p] = c]
      BY <1>8 DEF CancelLive
    <2>4. \A r \in Live : advisories[r].status # "none"
      BY DEF Live, Retirable
    <2>5. UNCHANGED <<gdp, slots, ran, advisories, sweep, env>> /\ calls[p].pc = "retire"
      BY <1>8 DEF CancelLive
    <2>6. Working(p) /\ c.kind = "revise"
      BY <1>2, <2>2, <2>5 DEF Working
    <2>7. \A r \in c.retired : advisories[r].status # "none"
      BY <2>2, <2>4
    <2> HIDE DEF c
    <2> QED
      BY <2>2, <2>3, <2>5, <2>6, <2>7, CallGoesOn
  <1> QED
    BY <1>3, <1>4, <1>5, <1>6, <1>7, <1>8

-----------------------------------------------------------------------------
(* A run of the engine: the first that has not been used.                  *)
LEMMA EngineStep ==
  ASSUME ProgramInv, NEW p \in Procs, NEW kind \in {"revise", "publish", "compress"},
         NEW rows \in BOOLEAN, RunEngine(p, kind, rows),
         UNCHANGED <<gdp, slots, advisories, sweep, env>>,
         gdp.status \in {"draft", "published"},
         kind # "publish" => gdp.published
  PROVE  ProgramInv'
  <1>1. PICK r \in Runs :
          /\ ran[r] = 0
          /\ ran' = [ran EXCEPT ![r] = gdp.version]
          /\ calls' = [calls EXCEPT ![p] =
                [NoCall EXCEPT !.pc = IF kind = "publish" THEN "ready" ELSE "slots",
                               !.kind = kind, !.run = r, !.rows = rows]]
    BY DEF RunEngine
  <1>2. /\ calls'[p] \in CallRecords /\ calls'[p].run = r /\ calls'[p].kind = kind
        /\ calls'[p].retired = {}
        /\ calls'[p].pc = IF kind = "publish" THEN "ready" ELSE "slots"
    <2> DEFINE pc == IF kind = "publish" THEN "ready" ELSE "slots"
    <2>1. calls'[p] = [NoCall EXCEPT !.pc = pc, !.kind = kind, !.run = r, !.rows = rows]
      BY <1>1 DEF ProgramInv, TypeOK
    <2>2. r \in 0..RunBound /\ pc \in {"ready", "slots"}
      BY GdpAssumption DEF Runs
    <2> HIDE DEF pc
    <2>3. calls'[p] = [pc |-> pc, kind |-> kind, run |-> r, rows |-> rows,
                       seen |-> {}, dropped |-> {}, retired |-> {}]
      BY <2>1 DEF NoCall
    <2>4. /\ calls'[p].run = r /\ calls'[p].kind = kind /\ calls'[p].retired = {}
          /\ calls'[p].pc = pc
      BY <2>3
    <2>5. calls'[p] \in CallRecords
      BY <2>2, <2>3 DEF CallRecords
    <2> QED
      BY <2>4, <2>5 DEF pc
  <1>3. \A q \in Procs \ {p} : calls'[q] = calls[q]
    BY <1>1 DEF ProgramInv, TypeOK
  <1>4. /\ ran'[r] # 0 /\ ran'[r] \in 0..VersionBound
        /\ \A k \in Runs \ {r} : ran'[k] = ran[k]
    BY <1>1 DEF ProgramInv, TypeOK, GdpRecords, VersionGiven
  <1>5. TypeOK'
    BY <1>1, <1>2, <1>3, <1>4 DEF ProgramInv, TypeOK
  <1>6. advisories[r].status = "none"
    BY <1>1 DEF ProgramInv, RunsRecorded
  <1>7. \A q \in Procs : Working(q) => calls[q].run # r
    BY <1>1 DEF ProgramInv, CallsFollow
  <1>8. CallsFollow'
    <2> SUFFICES ASSUME NEW q \in Procs PROVE CallsFollow!(q)'
      BY DEF CallsFollow
    <2>1. CASE q = p
      BY <1>2, <1>4, <1>6, <2>1 DEF Idle, Working, InTransaction, HoldsRow
    <2>2. CASE q # p
      BY <1>3, <1>4, <2>2 DEF ProgramInv, CallsFollow, Idle, Working, InTransaction, HoldsRow
    <2> QED
      BY <2>1, <2>2
  <1>9. RunsOwn'
    BY <1>2, <1>3, <1>7 DEF ProgramInv, RunsOwn, Working
  <1>10. RowHeldOnce' /\ RetiredExist' /\ RunsRecorded'
    BY <1>2, <1>3, <1>4
       DEF ProgramInv, RowHeldOnce, RetiredExist, RunsRecorded, InTransaction, HoldsRow
  <1> QED
    BY <1>5, <1>8, <1>9, <1>10
       DEF ProgramInv, VersionGiven, OnlyForPublished, AdvisoryStands, Standing

LEMMA ReadStep ==
  ASSUME ProgramInv, NEW p \in Procs, Reread(p) \/ ReadDraft(p) \/ ReadFrozen(p)
  PROVE  ProgramInv'
  <1>1. gdp.status = "published" => gdp.published
    BY DEF ProgramInv, TypeOK
  <1>2. CASE Reread(p) /\ Freezes
    BY <1>1, <1>2, EngineStep DEF Reread, Freezes
  <1>3. CASE Reread(p) /\ ~Freezes
    BY <1>3, CallEnds DEF Reread
  <1>4. CASE ReadDraft(p)
    BY <1>4, EngineStep DEF ReadDraft
  <1>5. CASE ReadFrozen(p)
    <2>1. PICK rows \in BOOLEAN : RunEngine(p, "compress", rows)
      BY <1>5 DEF ReadFrozen
    <2> QED
      BY <1>1, <1>5, <2>1, EngineStep DEF ReadFrozen
  <1> QED
    BY <1>2, <1>3, <1>4, <1>5

-----------------------------------------------------------------------------
(* The commit: the new advisory is not among those it cancels.             *)
LEMMA CommitStep ==
  ASSUME ProgramInv, NEW p \in Procs, Commit(p)
  PROVE  ProgramInv'
  <1> DEFINE run == calls[p].run
             kind == calls[p].kind
             retired == calls[p].retired
  <1>1. /\ run \in Runs /\ ran[run] # 0 /\ advisories[run].status = "none"
        /\ retired # {} => kind = "revise"
        /\ kind # "publish" => gdp.published
        /\ kind = "publish" => HoldsRow(p) /\ gdp.status = "draft"
        /\ retired \in SUBSET Runs /\ calls[p].dropped \in SUBSET Runs
        /\ \A r \in retired : advisories[r].status # "none"
    BY DEF Commit, ProgramInv, TypeOK, CallRecords, CallsFollow, RetiredExist, Working,
           InTransaction, HoldsRow
  <1>2. /\ \A r \in retired : /\ advisories'[r] \in AdvisoryRecords
                              /\ advisories'[r].status = "cancelled"
        /\ \A r \in Runs \ (retired \cup {run}) : advisories'[r] = advisories[r]
        /\ advisories' \in [Runs -> {advisories'[r] : r \in Runs}]
    BY <1>1 DEF Commit, Cancelled, ProgramInv, TypeOK, AdvisoryRecords
  <1>3. run \notin retired
    BY <1>1
  <1>4. /\ advisories'[run] \in AdvisoryRecords
        /\ kind # "compress" => advisories'[run].status = "draft"
        /\ kind = "compress" => advisories'[run] = advisories[run]
    <2>1. Generated(p) \in AdvisoryRecords /\ Generated(p).status = "draft"
      BY <1>1 DEF Generated, NoAdvisory, AdvisoryRecords, ProgramInv, TypeOK, GdpRecords
    <2>2. advisories'[run] = IF kind # "compress" THEN Generated(p) ELSE advisories[run]
      BY <1>1, <1>3 DEF Commit
    <2> HIDE DEF run, kind
    <2> QED
      BY <1>1, <2>1, <2>2 DEF ProgramInv, TypeOK
  <1>5. calls'[p] = NoCall /\ \A q \in Procs \ {p} : calls'[q] = calls[q]
    BY DEF Commit, ProgramInv, TypeOK
  <1>6. /\ gdp' \in GdpRecords /\ gdp'.published /\ gdp'.version = gdp.version
        /\ kind = "publish" => gdp'.status = "published"
        /\ kind # "publish" => gdp' = gdp
    BY <1>1 DEF Commit, Published, ProgramInv, TypeOK, GdpRecords
  <1>7. ran' = ran /\ env' = env /\ sweep' = sweep
    BY DEF Commit
  <1>8. TypeOK'
    <2>1. slots' \in SUBSET Runs
      BY <1>1 DEF Commit, ProgramInv, TypeOK
    <2>2. advisories' \in [Runs -> AdvisoryRecords]
      BY <1>2, <1>4 DEF ProgramInv, TypeOK
    <2>3. calls' \in [Procs -> CallRecords]
      BY NoCallType DEF Commit, ProgramInv, TypeOK
    <2> QED
      BY <1>6, <1>7, <2>1, <2>2, <2>3 DEF ProgramInv, TypeOK
  <1> HIDE DEF run, kind, retired
  <1>9. \A q \in Procs \ {p} : Working(q) => calls[q].run \notin retired \cup {run}
    <2>1. Working(p)
      BY DEF Commit, Working
    <2> QED
      BY <1>1, <2>1 DEF ProgramInv, CallsFollow, RunsOwn, run
  <1>10. CallsFollow'
    <2> SUFFICES ASSUME NEW q \in Procs PROVE CallsFollow!(q)'
      BY DEF CallsFollow
    <2>1. CASE q = p
      BY <1>5, <2>1 DEF NoCall, Idle, Working, InTransaction, HoldsRow
    <2>2. CASE q # p
      <3>1. calls'[q] = calls[q]
        BY <1>5, <2>2
      <3>2. Working(q) => advisories'[calls[q].run] = advisories[calls[q].run]
        BY <1>2, <1>9, <2>2 DEF ProgramInv, CallsFollow
      <3>3. HoldsRow(q) => gdp'.status = "draft"
        BY <1>1, <1>6, <2>2 DEF ProgramInv, CallsFollow, RowHeldOnce
      <3> QED
        BY <1>6, <1>7, <3>1, <3>2, <3>3
           DEF ProgramInv, CallsFollow, Idle, Working, InTransaction, HoldsRow
    <2> QED
      BY <2>1, <2>2
  <1>11. RunsOwn' /\ RowHeldOnce'
    <2>1. /\ ~Working(p)' /\ ~HoldsRow(p)'
          /\ \A q \in Procs \ {p} : /\ Working(q)' <=> Working(q)
                                    /\ HoldsRow(q)' <=> HoldsRow(q)
                                    /\ calls'[q].run = calls[q].run
      BY <1>5 DEF Working, InTransaction, HoldsRow, NoCall
    <2> QED
      BY <2>1 DEF ProgramInv, RunsOwn, RowHeldOnce
  <1>12. \A r \in Runs : advisories[r].status # "none" => advisories'[r].status # "none"
    BY <1>1, <1>2, <1>4
  <1>13. RetiredExist'
    BY <1>5, <1>12 DEF ProgramInv, RetiredExist, NoCall, TypeOK, CallRecords
  <1>14. RunsRecorded'
    BY <1>1, <1>2, <1>7 DEF ProgramInv, RunsRecorded
  <1>15. AdvisoryStands'
    <2> SUFFICES ASSUME "staff" \notin env, gdp'.status = "published" PROVE Standing' # {}
      BY <1>7 DEF AdvisoryStands
    <2>1. CASE kind # "compress"
      BY <1>1, <1>4, <2>1 DEF Standing
    <2>2. CASE kind = "compress"
      <3>1. \A r \in Runs : advisories'[r] = advisories[r]
        BY <1>1, <1>2, <1>4, <2>2
      <3>2. gdp' = gdp
        BY <1>6, <2>2
      <3> QED
        BY <3>1, <3>2 DEF ProgramInv, AdvisoryStands, Standing
    <2> QED
      BY <2>1, <2>2
  <1>16. OnlyForPublished'
    BY <1>6 DEF OnlyForPublished
  <1>17. VersionGiven'
    <2>1. CASE kind = "publish"
      BY <1>1, <1>6, <2>1 DEF ProgramInv, VersionGiven
    <2>2. CASE kind # "publish"
      BY <1>6, <2>2 DEF ProgramInv, VersionGiven
    <2> QED
      BY <2>1, <2>2
  <1> QED
    BY <1>8, <1>10, <1>11, <1>13, <1>14, <1>15, <1>16, <1>17 DEF ProgramInv

-----------------------------------------------------------------------------
(* Staff and advisories: one advisory of the table changes.  A deleted one *)
(* is not one that an open transaction cancels.                            *)
LEMMA AdvisoryChanges ==
  ASSUME ProgramInv, NEW r \in Runs, NEW a \in AdvisoryRecords,
         advisories' = [advisories EXCEPT ![r] = a],
         UNCHANGED <<gdp, slots, ran, calls, sweep, env>>,
         advisories[r].status # "none",
         a.status = "none" => \A p \in Procs : r \notin calls[p].retired,
         a.status \in {"draft", "published"} \/ "staff" \in env
  PROVE  ProgramInv'
  <1>1. advisories'[r] = a /\ \A k \in Runs \ {r} : advisories'[k] = advisories[k]
    BY DEF ProgramInv, TypeOK
  <1>2. TypeOK'
    BY DEF ProgramInv, TypeOK
  <1>3. CallsFollow'
    <2> SUFFICES ASSUME NEW q \in Procs PROVE CallsFollow!(q)'
      BY DEF CallsFollow
    <2>1. Working(q) => calls[q].run \in Runs \ {r}
      BY DEF ProgramInv, CallsFollow
    <2> QED
      BY <1>1, <2>1 DEF ProgramInv, CallsFollow, Idle, Working, InTransaction, HoldsRow
  <1>4. RunsOwn' /\ RowHeldOnce'
    BY DEF ProgramInv, RunsOwn, RowHeldOnce, Working, InTransaction, HoldsRow
  <1>5. \A k \in Runs : advisories'[k].status # "none" => advisories[k].status # "none"
    BY <1>1
  <1>6. RunsRecorded' /\ OnlyForPublished' /\ VersionGiven'
    BY <1>5 DEF ProgramInv, RunsRecorded, OnlyForPublished, VersionGiven
  <1>7. RetiredExist'
    <2> SUFFICES ASSUME NEW p \in Procs, NEW k \in calls[p].retired
                 PROVE  advisories'[k].status # "none"
      BY DEF RetiredExist
    <2>1. advisories[k].status # "none" /\ k \in Runs
      BY DEF ProgramInv, RetiredExist, TypeOK, CallRecords
    <2> QED
      BY <1>1, <2>1
  <1>8. AdvisoryStands'
    <2> SUFFICES ASSUME "staff" \notin env, gdp.status = "published" PROVE Standing' # {}
      BY DEF AdvisoryStands
    <2>1. r \in Standing'
      BY <1>1 DEF Standing
    <2> QED
      BY <2>1
  <1> QED
    BY <1>2, <1>3, <1>4, <1>6, <1>7, <1>8 DEF ProgramInv

LEMMA AdvisoryStep ==
  ASSUME ProgramInv, NEW r \in Runs, PublishAdvisory(r) \/ CancelAdvisory(r) \/ DeleteAdvisory(r)
  PROVE  ProgramInv'
  <1>1. advisories[r] \in AdvisoryRecords
    BY DEF ProgramInv, TypeOK
  <1>2. CASE PublishAdvisory(r)
    <2> DEFINE posted == "channel" \in env
               a == [advisories[r] EXCEPT !.status = "published", !.posted = posted]
    <2>1. posted \in BOOLEAN
      OBVIOUS
    <2>2. advisories' = [advisories EXCEPT ![r] = a]
      BY <1>2 DEF PublishAdvisory
    <2> HIDE DEF posted
    <2>3. a \in AdvisoryRecords /\ a.status = "published"
      BY <1>1, <2>1 DEF AdvisoryRecords
    <2> HIDE DEF a
    <2> QED
      BY <1>2, <2>2, <2>3, AdvisoryChanges DEF PublishAdvisory
  <1>3. CASE CancelAdvisory(r)
    <2> DEFINE corrected == advisories[r].posted \/ "channel" \in env
               a == [Cancelled(advisories[r], "staff") EXCEPT !.corrected = corrected]
    <2>1. advisories' = [advisories EXCEPT ![r] = a]
      BY <1>3 DEF CancelAdvisory
    <2>2. /\ Cancelled(advisories[r], "staff") \in AdvisoryRecords
          /\ Cancelled(advisories[r], "staff").status = "cancelled"
          /\ corrected \in BOOLEAN
      BY <1>1 DEF Cancelled, AdvisoryRecords
    <2> HIDE DEF corrected
    <2>3. a \in AdvisoryRecords /\ a.status = "cancelled"
      BY <1>1, <2>2 DEF AdvisoryRecords
    <2> HIDE DEF a
    <2> QED
      BY <1>3, <2>1, <2>3, AdvisoryChanges DEF CancelAdvisory, Retirable
  <1>4. CASE DeleteAdvisory(r)
    <2>1. NoAdvisory \in AdvisoryRecords /\ NoAdvisory.status = "none"
      BY GdpAssumption DEF NoAdvisory, AdvisoryRecords
    <2> HIDE DEF NoAdvisory
    <2> QED
      BY <1>4, <2>1, AdvisoryChanges DEF DeleteAdvisory, AdvisoryLocked
  <1> QED
    BY <1>2, <1>3, <1>4

-----------------------------------------------------------------------------
LEMMA ProgramStutter == ProgramInv /\ UNCHANGED vars => ProgramInv'
  BY DEF vars, ProgramInv, TypeOK, VersionGiven, CallsFollow, RunsOwn, RowHeldOnce, RetiredExist,
         RunsRecorded, OnlyForPublished, AdvisoryStands, Standing, Idle, Working,
         InTransaction, HoldsRow

LEMMA ProgramStep == ProgramInv /\ [Next]_vars => ProgramInv'
  <1> SUFFICES ASSUME ProgramInv, [Next]_vars PROVE ProgramInv'
    OBVIOUS
  <1>1. CASE UNCHANGED vars
    BY <1>1, ProgramStutter
  <1>2. CASE CreateGdp \/ CancelGdp \/ DeleteGdp \/ SweepExpire \/ SweepPurge
    BY <1>2, RowStep
  <1>3. CASE SweepRetire
    BY <1>3, RetireStep
  <1>4. ASSUME NEW r \in Runs, PublishAdvisory(r) \/ CancelAdvisory(r) \/ DeleteAdvisory(r)
        PROVE  ProgramInv'
    BY <1>4, AdvisoryStep
  <1>5. ASSUME NEW p \in Procs,
               Revise(p) \/ ReadDraft(p) \/ ReadFrozen(p) \/ Step(p) \/ Fail(p)
        PROVE  ProgramInv'
    <2>1. CASE Revise(p)
      BY <2>1, ReviseStep
    <2>2. CASE Reread(p) \/ ReadDraft(p) \/ ReadFrozen(p)
      BY <2>2, ReadStep
    <2>3. CASE PublishRow(p) \/ SeeSlots(p) \/ ReplaceSlots(p) \/ SeeLive(p) \/ CancelLive(p)
      BY <2>3, StatementStep
    <2>4. CASE Commit(p)
      BY <2>4, CommitStep
    <2>5. CASE Fail(p)
      BY <2>5, CallEnds DEF Fail
    <2> QED
      BY <1>5, <2>1, <2>2, <2>3, <2>4, <2>5 DEF Step
  <1> QED
    BY <1>1, <1>2, <1>3, <1>4, <1>5 DEF Next, Sweep

LEMMA ProgramAlways == Spec => []ProgramInv
  BY ProgramInit, ProgramStep, PTL DEF Spec

(* The rows of the tables have their types and a published program carries *)
(* the time it was published.                                              *)
THEOREM TypeCorrect == Spec => []TypeOK
  <1>1. ProgramInv => TypeOK
    BY DEF ProgramInv
  <1> QED
    BY <1>1, ProgramAlways, PTL

(* generate_gdp_advisory writes for published programs only, so the purge  *)
(* of programs that never were leaves no advisory behind.                  *)
THEOREM AdvisoriesOfPublished == Spec => []OnlyForPublished
  <1>1. ProgramInv => OnlyForPublished
    BY DEF ProgramInv
  <1> QED
    BY <1>1, ProgramAlways, PTL

(* A live program has an advisory that stands, however many revises,       *)
(* compressions and publishes overlap and wherever they fail.              *)
THEOREM NeverWithoutAdvisory == Spec => []AdvisoryStands
  <1>1. ProgramInv => AdvisoryStands
    BY DEF ProgramInv
  <1> QED
    BY <1>1, ProgramAlways, PTL

(* No handler or cleanup step publishes or revises an ended program back   *)
(* to life: a publish commits a row it holds since it saw the draft.       *)
THEOREM EndIsFinal == Spec => NeverRevived
  <1>1. ASSUME ProgramInv, [Next]_vars, Ended, UNCHANGED vars \/ Next
        PROVE  gdp'.status \in {gdp.status, "deleted"}
    <2>1. gdp \in GdpRecords
      BY <1>1 DEF ProgramInv, TypeOK
    <2>2. ASSUME NEW p \in Procs, Commit(p)
          PROVE  gdp' = gdp
      <3>1. calls[p].kind = "publish" => gdp.status = "draft"
        BY <1>1, <2>2 DEF ProgramInv, CallsFollow, HoldsRow, InTransaction, Commit
      <3> QED
        BY <1>1, <2>2, <3>1 DEF Commit, Ended
    <2>3. ASSUME NEW p \in Procs,
                 Reread(p) \/ PublishRow(p) \/ SeeSlots(p) \/ ReplaceSlots(p)
                 \/ SeeLive(p) \/ CancelLive(p) \/ ReadDraft(p) \/ ReadFrozen(p) \/ Fail(p)
          PROVE  gdp' = gdp
      BY <2>3 DEF Reread, PublishRow, SeeSlots, ReplaceSlots, SeeLive, CancelLive,
                  ReadDraft, ReadFrozen, Fail
    <2>4. ASSUME NEW p \in Procs, Revise(p)
          PROVE  FALSE
      BY <1>1, <2>4 DEF Revise, Ended
    <2>5. CASE CreateGdp \/ CancelGdp
      BY <1>1, <2>5 DEF CreateGdp, CancelGdp, Ended
    <2>6. CASE DeleteGdp \/ SweepPurge \/ SweepExpire
      BY <1>1, <2>1, <2>6 DEF DeleteGdp, SweepPurge, SweepExpire, Ended, GdpRecords
    <2>7. CASE SweepRetire \/ UNCHANGED vars
      BY <2>7 DEF SweepRetire, vars
    <2>8. ASSUME NEW r \in Runs, PublishAdvisory(r) \/ CancelAdvisory(r) \/ DeleteAdvisory(r)
          PROVE  gdp' = gdp
      BY <2>8 DEF PublishAdvisory, CancelAdvisory, DeleteAdvisory
    <2> QED
      BY <1>1, <2>2, <2>3, <2>4, <2>5, <2>6, <2>7, <2>8 DEF Next, Step, Sweep
  <1>2. ProgramInv /\ [Next]_vars => [Ended => gdp'.status \in {gdp.status, "deleted"}]_vars
    BY <1>1
  <1> QED
    BY <1>2, ProgramAlways, PTL DEF Spec, NeverRevived

-----------------------------------------------------------------------------
(* Handlers that take turns.  While one is under way nothing else writes   *)
(* the parameters or the slots, and the advisories that are up can only    *)
(* become fewer: what its statements saw covers what there is at the       *)
(* commit, which therefore replaces all of it.                             *)

NewRow ==
    /\ gdp.status \in {"none", "draft"} => ~gdp.published
    /\ gdp.status = "none" => AllIdle

Alone == \A p, q \in Procs : ~Idle(p) /\ ~Idle(q) => p = q

OneStanding == \A r, s \in Standing : r = s

CallKeeps(p) ==
    /\ Working(p) => ran[calls[p].run] = gdp.version /\ calls[p].kind # "none"
    /\ calls[p].pc = "ready" => gdp.status # "published"
    /\ calls[p].pc = "drop" => slots \subseteq calls[p].seen
    /\ calls[p].pc \in {"live", "retire", "commit"} => slots \subseteq calls[p].dropped
    /\ calls[p].pc = "retire" => Standing \subseteq calls[p].seen
    /\ calls[p].pc = "commit" /\ calls[p].kind = "revise" => Standing \subseteq calls[p].retired

InOrder ==
    /\ \A r \in slots : ran[r] = gdp.version
    /\ \A r \in Standing : advisories[r].version = gdp.version

(* No handler is about to replace what is frozen and announced.            *)
Unreplaced == \A p \in Procs : calls[p].kind \notin {"revise", "publish"}

Turns ==
    /\ Alone
    /\ OneStanding
    /\ \A p \in Procs : CallKeeps(p)
    /\ "fail" \notin env /\ gdp.status = "published" /\ Unreplaced => InOrder

TurnsInv == NewRow /\ ("overlap" \notin env => Turns)

LEMMA TurnsInit == Init => TurnsInv
  BY DEF Init, TurnsInv, NewRow, Turns, Alone, OneStanding, CallKeeps, AllIdle, Idle, Standing,
         Working, NoCall, NoAdvisory

(* A row that has none of its history behind it.                           *)
LEMMA NewRowStep == ProgramInv /\ NewRow /\ [Next]_vars => NewRow'
  <1> SUFFICES ASSUME ProgramInv, NewRow, [Next]_vars PROVE NewRow'
    OBVIOUS
  <1>1. gdp \in GdpRecords
    BY DEF ProgramInv, TypeOK
  <1>2. CASE CreateGdp \/ CancelGdp \/ DeleteGdp \/ SweepExpire \/ SweepPurge
    BY <1>1, <1>2 DEF CreateGdp, CancelGdp, DeleteGdp, SweepExpire, SweepPurge, NewRow, GdpRecords,
                      Ended, AllIdle, Idle
  <1>3. CASE SweepRetire \/ UNCHANGED vars
    BY <1>3 DEF SweepRetire, vars, NewRow, AllIdle, Idle
  <1>4. ASSUME NEW r \in Runs, PublishAdvisory(r) \/ CancelAdvisory(r) \/ DeleteAdvisory(r)
        PROVE  NewRow'
    BY <1>4 DEF PublishAdvisory, CancelAdvisory, DeleteAdvisory, NewRow, AllIdle, Idle
  <1>5. ASSUME NEW p \in Procs, Revise(p) \/ ReadDraft(p) \/ ReadFrozen(p)
        PROVE  NewRow'
    BY <1>1, <1>5 DEF Revise, ReadDraft, ReadFrozen, NewRow, GdpRecords
  <1>6. ASSUME NEW p \in Procs, Reread(p) \/ PublishRow(p) \/ SeeSlots(p) \/ ReplaceSlots(p)
                                \/ SeeLive(p) \/ CancelLive(p) \/ Fail(p)
        PROVE  NewRow'
    <2>1. gdp' = gdp /\ ~Idle(p)
      BY <1>6 DEF Reread, PublishRow, SeeSlots, ReplaceSlots, SeeLive, CancelLive, Fail, Idle
    <2> QED
      BY <2>1 DEF NewRow, AllIdle
  <1>7. ASSUME NEW p \in Procs, Commit(p)
        PROVE  NewRow'
    <2>1. ~Idle(p)
      BY <1>7 DEF Commit, Idle
    <2>2. gdp' = gdp \/ gdp'.status = "published"
      BY <1>1, <1>7 DEF Commit, Published, GdpRecords
    <2> QED
      BY <2>1, <2>2 DEF NewRow, AllIdle
  <1> QED
    BY <1>2, <1>3, <1>4, <1>5, <1>6, <1>7 DEF Next, Step, Sweep

(* Staff and the cleanup pass take advisories down.                        *)
LEMMA TurnsRetire ==
  ASSUME ProgramInv, Turns, SweepRetire \/ \E r \in Runs : PublishAdvisory(r) \/ CancelAdvisory(r)
                                                             \/ DeleteAdvisory(r)
  PROVE  Turns'
  <1>1. UNCHANGED <<gdp, slots, ran, calls, env>>
    BY DEF SweepRetire, PublishAdvisory, CancelAdvisory, DeleteAdvisory
  <1>2. \A r \in Standing' : r \in Standing /\ advisories'[r].version = advisories[r].version
    <2> SUFFICES ASSUME NEW r \in Runs, advisories'[r].status \in {"draft", "published"}
                 PROVE  /\ advisories[r].status \in {"draft", "published"}
                        /\ advisories'[r].version = advisories[r].version
      BY DEF Standing
    <2>1. advisories \in [Runs -> AdvisoryRecords]
      BY DEF ProgramInv, TypeOK
    <2>2. CASE SweepRetire
      BY <2>1, <2>2 DEF SweepRetire, Cancelled, AdvisoryRecords
    <2>3. ASSUME NEW s \in Runs, PublishAdvisory(s) \/ CancelAdvisory(s) \/ DeleteAdvisory(s)
          PROVE  /\ advisories[r].status \in {"draft", "published"}
                 /\ advisories'[r].version = advisories[r].version
      <3>1. CASE PublishAdvisory(s)
        BY <2>1, <3>1 DEF PublishAdvisory, AdvisoryRecords
      <3>2. CASE CancelAdvisory(s)
        BY <2>1, <3>2 DEF CancelAdvisory, Cancelled, AdvisoryRecords
      <3>3. CASE DeleteAdvisory(s)
        BY <2>1, <3>3 DEF DeleteAdvisory, NoAdvisory
      <3> QED
        BY <2>3, <3>1, <3>2, <3>3
    <2> QED
      BY <2>2, <2>3
  <1>3. Standing' \subseteq Standing
    BY <1>2
  <1>4. \A p \in Procs : CallKeeps(p)'
    BY <1>1, <1>3 DEF Turns, CallKeeps, Working
  <1> QED
    BY <1>1, <1>2, <1>4 DEF Turns, Alone, OneStanding, InOrder, Unreplaced, Idle

(* The program's row changes its status, or begins.                        *)
LEMMA TurnsRow ==
  ASSUME ProgramInv, NewRow, Turns,
         CreateGdp \/ CancelGdp \/ DeleteGdp \/ SweepExpire \/ SweepPurge
  PROVE  Turns'
  <1>1. gdp \in GdpRecords
    BY DEF ProgramInv, TypeOK
  <1>2. /\ UNCHANGED <<ran, advisories, calls, env>>
        /\ slots' \subseteq slots
    BY DEF CreateGdp, CancelGdp, DeleteGdp, SweepExpire, SweepPurge
  <1>3. gdp'.version = gdp.version \/ AllIdle
    BY <1>1 DEF CreateGdp, CancelGdp, DeleteGdp, SweepExpire, SweepPurge, GdpRecords, NewRow
  <1>4. gdp'.status = "published" => gdp' = gdp
    BY <1>1 DEF CreateGdp, CancelGdp, DeleteGdp, SweepExpire, SweepPurge, GdpRecords
  <1>5. Standing' = Standing
    BY <1>2 DEF Standing
  <1>6. AllIdle => \A p \in Procs : calls[p] = NoCall
    BY DEF AllIdle, ProgramInv, CallsFollow
  <1>7. ASSUME NEW p \in Procs PROVE CallKeeps(p)'
    <2>1. CASE AllIdle
      BY <1>2, <1>6, <2>1 DEF CallKeeps, Working, NoCall
    <2>2. CASE gdp'.version = gdp.version
      BY <1>2, <1>4, <1>5, <2>2 DEF Turns, CallKeeps, Working
    <2> QED
      BY <1>3, <2>1, <2>2
  <1> QED
    BY <1>2, <1>4, <1>5, <1>7 DEF Turns, Alone, OneStanding, InOrder, Unreplaced, Idle

(* A handler begins: it is the only one.                                   *)
LEMMA TurnsBegin ==
  ASSUME ProgramInv, Turns, "overlap" \notin env, NEW p \in Procs,
         Revise(p) \/ ReadDraft(p) \/ ReadFrozen(p) \/ (Reread(p) /\ Freezes)
  PROVE  Turns'
  <1>1. \A q \in Procs \ {p} : calls[q] = NoCall
    BY DEF Revise, ReadDraft, ReadFrozen, Reread, MayBegin, AllIdle, Idle, Turns, Alone, ProgramInv,
           CallsFollow
  <1>2. \A q \in Procs \ {p} : calls'[q] = NoCall
    BY <1>1 DEF Revise, ReadDraft, ReadFrozen, Reread, RunEngine, ProgramInv, TypeOK
  <1>3. UNCHANGED <<slots, advisories, sweep, env>>
    BY DEF Revise, ReadDraft, ReadFrozen, Reread
  <1>4. Alone'
    BY <1>2 DEF Alone, Idle, NoCall
  <1>5. OneStanding'
    BY <1>3 DEF Turns, OneStanding, Standing
  <1>6. \A q \in Procs \ {p} : CallKeeps(q)'
    BY <1>2 DEF CallKeeps, Working, NoCall
  <1>7. CASE Revise(p)
    <2>1. calls'[p].pc = "reread" /\ calls'[p].kind = "revise"
      BY <1>7 DEF Revise, ProgramInv, TypeOK, CallRecords
    <2>2. CallKeeps(p)'
      BY <2>1 DEF CallKeeps, Working
    <2> QED
      BY <1>4, <1>5, <1>6, <2>1, <2>2 DEF Turns, Unreplaced
  <1>8. ASSUME NEW kind \in {"publish", "revise", "compress"}, NEW rows \in BOOLEAN,
               RunEngine(p, kind, rows), gdp' = gdp,
               kind = "publish" => gdp.status # "published",
               kind = "compress" => gdp.status = "published" /\ Unreplaced
        PROVE  Turns'
    <2>1. PICK r \in Runs :
            /\ ran[r] = 0
            /\ ran' = [ran EXCEPT ![r] = gdp.version]
            /\ calls' = [calls EXCEPT ![p] =
                  [NoCall EXCEPT !.pc = IF kind = "publish" THEN "ready" ELSE "slots",
                                 !.kind = kind, !.run = r, !.rows = rows]]
      BY <1>8 DEF RunEngine
    <2>2. /\ calls'[p].pc = IF kind = "publish" THEN "ready" ELSE "slots"
          /\ calls'[p].kind = kind /\ calls'[p].run = r
      BY <2>1 DEF ProgramInv, TypeOK, NoCall
    <2>3. ran'[r] = gdp.version /\ \A s \in Runs \ {r} : ran'[s] = ran[s]
      BY <2>1 DEF ProgramInv, TypeOK
    <2>4. CallKeeps(p)'
      BY <1>8, <2>2, <2>3 DEF CallKeeps
    <2>5. Unreplaced' => kind = "compress"
      BY <1>8, <2>2 DEF Unreplaced
    <2>6. InOrder => InOrder'
      BY <1>3, <1>8, <2>3 DEF InOrder, Standing, ProgramInv, TypeOK
    <2> QED
      BY <1>3, <1>4, <1>5, <1>6, <1>8, <2>4, <2>5, <2>6 DEF Turns
  <1>9. CASE ReadDraft(p)
    BY <1>8, <1>9 DEF ReadDraft
  <1>10. CASE ReadFrozen(p)
    <2>1. PICK rows \in BOOLEAN : RunEngine(p, "compress", rows)
      BY <1>10 DEF ReadFrozen
    <2>2. Unreplaced
      BY <1>1, <1>10 DEF ReadFrozen, ProgramInv, CallsFollow, Unreplaced, NoCall
    <2> QED
      BY <1>8, <1>10, <2>1, <2>2 DEF ReadFrozen
  <1>11. CASE Reread(p) /\ Freezes
    BY <1>8, <1>11 DEF Reread
  <1> QED
    BY <1>7, <1>9, <1>10, <1>11

(* A handler gives up, or has nothing more to do.                          *)
LEMMA TurnsEnd ==
  ASSUME ProgramInv, Turns, NEW p \in Procs, calls' = [calls EXCEPT ![p] = NoCall],
         UNCHANGED <<gdp, slots, ran, advisories, sweep, env>>,
         "fail" \in env \/ gdp.status # "published"
  PROVE  Turns'
  <1>1. calls'[p] = NoCall /\ \A q \in Procs \ {p} : calls'[q] = calls[q]
    BY DEF ProgramInv, TypeOK
  <1>2. \A q \in Procs : CallKeeps(q)'
    BY <1>1 DEF Turns, CallKeeps, Working, Standing, NoCall
  <1> QED
    BY <1>1, <1>2 DEF Turns, Alone, OneStanding, Idle, Standing, NoCall

(* A handler goes on.                                                      *)
LEMMA TurnsGoOn ==
  ASSUME ProgramInv, Turns, NEW p \in Procs, NEW c,
         calls' = [calls EXCEPT ![p] = c],
         UNCHANGED <<gdp, slots, ran, advisories, sweep, env>>,
         Working(p), c.pc \notin {"idle", "ready"},
         c.kind = calls[p].kind, c.run = calls[p].run,
         c.pc = "drop" => slots \subseteq c.seen,
         c.pc \in {"live", "retire", "commit"} => slots \subseteq c.dropped,
         c.pc = "retire" => Standing \subseteq c.seen,
         c.pc = "commit" /\ c.kind = "revise" => Standing \subseteq c.retired
  PROVE  Turns'
  <1>1. calls'[p] = c /\ \A q \in Procs \ {p} : calls'[q] = calls[q]
    BY DEF ProgramInv, TypeOK
  <1>2. Standing' = Standing
    BY DEF Standing
  <1>3. CallKeeps(p)'
    BY <1>1, <1>2 DEF Turns, CallKeeps
  <1>4. \A q \in Procs \ {p} : CallKeeps(q)'
    BY <1>1, <1>2 DEF Turns, CallKeeps, Working
  <1>5. ~Idle(p) /\ \A q \in Procs : Idle(q)' => Idle(q)
    BY <1>1 DEF Working, Idle
  <1>6. Alone' /\ (Unreplaced' <=> Unreplaced)
    BY <1>1, <1>5 DEF Turns, Alone, Idle, Unreplaced
  <1> QED
    BY <1>2, <1>3, <1>4, <1>6 DEF Turns, OneStanding, InOrder

LEMMA TurnsStatement ==
  ASSUME ProgramInv, Turns, NEW p \in Procs,
         SeeSlots(p) \/ ReplaceSlots(p) \/ SeeLive(p) \/ CancelLive(p)
         \/ (PublishRow(p) /\ CanPublish)
  PROVE  Turns'
  <1>1. calls[p] \in CallRecords /\ CallKeeps(p)
    BY DEF ProgramInv, TypeOK, Turns
  <1>2. Standing = Live /\ Standing \subseteq Runs
    BY DEF Standing, Live, Retirable
  <1>3. /\ UNCHANGED <<gdp, slots, ran, advisories, sweep, env>>
        /\ Working(p)
    BY DEF PublishRow, SeeSlots, ReplaceSlots, SeeLive, CancelLive, Working
  <1>4. CASE PublishRow(p) /\ CanPublish
    <2> DEFINE c == [calls[p] EXCEPT !.pc = "slots"]
    <2>1. c.pc = "slots" /\ c.kind = calls[p].kind /\ c.run = calls[p].run
      BY <1>1 DEF CallRecords
    <2>2. calls' = [calls EXCEPT ![p] = c]
      BY <1>4 DEF PublishRow
    <2> HIDE DEF c
    <2> QED
      BY <1>3, <2>1, <2>2, TurnsGoOn
  <1>5. CASE SeeSlots(p)
    <2> DEFINE c == [calls[p] EXCEPT !.pc = "drop", !.seen = slots]
    <2>1. c.pc = "drop" /\ c.kind = calls[p].kind /\ c.run = calls[p].run /\ c.seen = slots
      BY <1>1 DEF CallRecords
    <2>2. calls' = [calls EXCEPT ![p] = c]
      BY <1>5 DEF SeeSlots
    <2> HIDE DEF c
    <2> QED
      BY <1>3, <2>1, <2>2, TurnsGoOn
  <1>6. CASE ReplaceSlots(p)
    <2> DEFINE next == IF calls[p].kind = "revise" THEN "live" ELSE "commit"
               c == [calls[p] EXCEPT !.pc = next,
                        !.dropped = calls[p].seen \cap slots, !.seen = {}]
    <2>1. /\ c.pc = next /\ c.kind = calls[p].kind /\ c.run = calls[p].run
          /\ c.dropped = calls[p].seen \cap slots
      BY <1>1 DEF CallRecords
    <2>2. calls' = [calls EXCEPT ![p] = c]
      BY <1>6 DEF ReplaceSlots
    <2>3. next \in {"live", "commit"} /\ (next = "commit" => c.kind # "revise")
      BY <2>1
    <2>4. slots \subseteq c.dropped
      BY <1>1, <1>6, <2>1 DEF ReplaceSlots, CallKeeps
    <2> HIDE DEF c, next
    <2> QED
      BY <1>3, <2>1, <2>2, <2>3, <2>4, TurnsGoOn
  <1>7. CASE SeeLive(p)
    <2> DEFINE c == [calls[p] EXCEPT !.pc = "retire", !.seen = Live]
    <2>1. /\ c.pc = "retire" /\ c.kind = calls[p].kind /\ c.run = calls[p].run
          /\ c.seen = Live /\ c.dropped = calls[p].dropped
      BY <1>1 DEF CallRecords
    <2>2. calls' = [calls EXCEPT ![p] = c]
      BY <1>7 DEF SeeLive
    <2>3. slots \subseteq c.dropped /\ Standing \subseteq c.seen
      BY <1>1, <1>2, <1>7, <2>1 DEF SeeLive, CallKeeps
    <2> HIDE DEF c
    <2> QED
      BY <1>3, <2>1, <2>2, <2>3, TurnsGoOn
  <1>8. CASE CancelLive(p)
    <2> DEFINE c == [calls[p] EXCEPT !.pc = "commit", !.retired = calls[p].seen \cap Live,
                                     !.seen = {}]
    <2>1. /\ c.pc = "commit" /\ c.kind = calls[p].kind /\ c.run = calls[p].run
          /\ c.retired = calls[p].seen \cap Live /\ c.dropped = calls[p].dropped
      BY <1>1 DEF CallRecords
    <2>2. calls' = [calls EXCEPT ![p] = c]
      BY <1>8 DEF CancelLive
    <2>3. slots \subseteq c.dropped /\ Standing \subseteq c.retired
      BY <1>1, <1>2, <1>8, <2>1 DEF CancelLive, CallKeeps
    <2> HIDE DEF c
    <2> QED
      BY <1>3, <2>1, <2>2, <2>3, TurnsGoOn
  <1> QED
    BY <1>4, <1>5, <1>6, <1>7, <1>8

(* The commit replaces every slot, and unless it compresses the advisory.  *)
LEMMA TurnsCommit ==
  ASSUME ProgramInv, NewRow, Turns, NEW p \in Procs, Commit(p)
  PROVE  Turns'
  <1> DEFINE run == calls[p].run
             kind == calls[p].kind
             retired == calls[p].retired
  <1>1. /\ run \in Runs /\ advisories[run].status = "none" /\ ran[run] = gdp.version
        /\ kind = "publish" => gdp.status = "draft"
        /\ slots \subseteq calls[p].dropped
        /\ kind = "revise" => Standing \subseteq retired
        /\ retired # {} => kind = "revise"
        /\ kind \in {"revise", "publish", "compress"}
        /\ run \notin retired
        /\ ~Idle(p)
    BY DEF Commit, ProgramInv, TypeOK, CallRecords, CallsFollow, RetiredExist, Turns, CallKeeps,
           Working, HoldsRow, InTransaction, Idle
  <1>2. kind = "publish" => Standing = {}
    BY <1>1 DEF NewRow, ProgramInv, OnlyForPublished, Standing
  <1>3. /\ calls'[p] = NoCall /\ \A q \in Procs \ {p} : calls'[q] = calls[q] /\ Idle(q)
        /\ ran' = ran /\ env' = env
    BY <1>1 DEF Commit, ProgramInv, TypeOK, Turns, Alone
  <1>4. \A q \in Procs : calls'[q] = NoCall
    BY <1>3 DEF ProgramInv, CallsFollow
  <1>5. \A r \in Runs :
          advisories'[r] = CASE r \in retired -> Cancelled(advisories[r], "revise")
                             [] r = run /\ kind # "compress" -> Generated(p)
                             [] OTHER -> advisories[r]
    BY DEF Commit
  <1>6. /\ Generated(p).status = "draft" /\ Generated(p).version = gdp.version
        /\ \A r \in retired : Cancelled(advisories[r], "revise").status = "cancelled"
    BY <1>1 DEF Generated, NoAdvisory, Cancelled, ProgramInv, TypeOK, AdvisoryRecords, CallRecords
  <1>7. gdp'.version = gdp.version
    BY DEF Commit, Published, ProgramInv, TypeOK, GdpRecords
  <1>8. \A r \in slots' : ran'[r] = gdp'.version
    BY <1>1, <1>3, <1>7 DEF Commit
  <1> HIDE DEF run, kind, retired
  <1>9. CASE kind # "compress"
    <2>1. \A r \in Standing' : r = run /\ advisories'[r].version = gdp'.version
      <3> SUFFICES ASSUME NEW r \in Runs, advisories'[r].status \in {"draft", "published"}
                   PROVE  r = run /\ advisories'[r].version = gdp'.version
        BY DEF Standing
      <3>1. r \notin retired
        <4>1. r \in retired => advisories'[r] = Cancelled(advisories[r], "revise")
          BY <1>1, <1>5
        <4> QED
          BY <1>6, <4>1
      <3>2. r \notin Standing
        BY <1>1, <1>2, <1>9, <3>1
      <3>3. CASE r # run
        <4>1. advisories'[r] = advisories[r]
          BY <1>5, <3>1, <3>3
        <4> QED
          BY <3>2, <4>1 DEF Standing
      <3>4. CASE r = run
        BY <1>5, <1>6, <1>7, <1>9, <3>1, <3>4
      <3> QED
        BY <3>3, <3>4
    <2>2. OneStanding' /\ InOrder'
      BY <1>8, <2>1 DEF OneStanding, InOrder
    <2> QED
      BY <1>4, <2>2 DEF Turns, Alone, Idle, CallKeeps, Working, NoCall
  <1>10. CASE kind = "compress"
    <2>1. advisories' = advisories
      <3>1. \A r \in Runs : advisories'[r] = advisories[r]
        BY <1>1, <1>5, <1>10
      <3> QED
        BY <3>1 DEF Commit, ProgramInv, TypeOK
    <2>2. gdp' = gdp
      BY <1>10 DEF Commit, kind
    <2>3. Unreplaced
      BY <1>3, <1>10 DEF Unreplaced, kind, ProgramInv, CallsFollow, NoCall
    <2>4. Standing' = Standing
      BY <2>1 DEF Standing
    <2>5. OneStanding'
      BY <2>4 DEF Turns, OneStanding
    <2>6. ("fail" \notin env /\ gdp.status = "published") => InOrder'
      BY <1>8, <2>1, <2>2, <2>3, <2>4 DEF Turns, InOrder
    <2> QED
      BY <1>3, <1>4, <2>2, <2>5, <2>6 DEF Turns, Alone, Idle, CallKeeps, Working, NoCall
  <1> QED
    BY <1>9, <1>10

LEMMA TurnsStep == ProgramInv /\ TurnsInv /\ [Next]_vars => TurnsInv'
  <1> SUFFICES ASSUME ProgramInv, TurnsInv, [Next]_vars PROVE TurnsInv'
    OBVIOUS
  <1>1. NewRow /\ NewRow'
    BY NewRowStep DEF TurnsInv
  <1>2. env' = env
    BY DEF vars, Next, Step, Sweep, CreateGdp, CancelGdp, DeleteGdp, SweepExpire, SweepPurge,
           SweepRetire, PublishAdvisory, CancelAdvisory, DeleteAdvisory, Revise, ReadDraft,
           ReadFrozen, Reread, PublishRow, SeeSlots, ReplaceSlots, SeeLive, CancelLive, Commit, Fail
  <1> SUFFICES ASSUME "overlap" \notin env PROVE Turns'
    BY <1>1, <1>2 DEF TurnsInv
  <1>3. Turns
    BY DEF TurnsInv
  <1>4. CASE UNCHANGED vars
    BY <1>3, <1>4 DEF vars, Turns, Alone, Idle, OneStanding, Standing, CallKeeps, Working, InOrder,
                      Unreplaced
  <1>5. CASE CreateGdp \/ CancelGdp \/ DeleteGdp \/ SweepExpire \/ SweepPurge
    BY <1>1, <1>3, <1>5, TurnsRow
  <1>6. CASE SweepRetire \/ \E r \in Runs : PublishAdvisory(r) \/ CancelAdvisory(r)
                                              \/ DeleteAdvisory(r)
    BY <1>3, <1>6, TurnsRetire
  <1>7. ASSUME NEW p \in Procs, Revise(p) \/ ReadDraft(p) \/ ReadFrozen(p) \/ Step(p) \/ Fail(p)
        PROVE  Turns'
    <2>1. CASE Revise(p) \/ ReadDraft(p) \/ ReadFrozen(p) \/ (Reread(p) /\ Freezes)
      BY <1>3, <2>1, TurnsBegin
    <2>2. CASE SeeSlots(p) \/ ReplaceSlots(p) \/ SeeLive(p) \/ CancelLive(p)
               \/ (PublishRow(p) /\ CanPublish)
      BY <1>3, <2>2, TurnsStatement
    <2>3. CASE Commit(p)
      BY <1>1, <1>3, <2>3, TurnsCommit
    <2>4. CASE Reread(p) /\ ~Freezes
      BY <1>3, <2>4, TurnsEnd DEF Reread, Freezes
    <2>5. CASE PublishRow(p) /\ ~CanPublish
      BY <1>3, <2>5, TurnsEnd DEF PublishRow, Turns, CallKeeps
    <2>6. CASE Fail(p)
      BY <1>3, <2>6, TurnsEnd DEF Fail
    <2> QED
      BY <1>7, <2>1, <2>2, <2>3, <2>4, <2>5, <2>6 DEF Step
  <1> QED
    BY <1>4, <1>5, <1>6, <1>7 DEF Next, Sweep

LEMMA TurnsAlways == Spec => [](ProgramInv /\ TurnsInv)
  BY ProgramInit, ProgramStep, TurnsInit, TurnsStep, PTL DEF Spec

(* When the handlers of a program take turns, at most one of its           *)
(* advisories is up, whatever fails and whatever staff do to advisories.   *)
THEOREM AtMostOneAdvisory == Spec => []OneLiveAdvisory
  <1>1. TurnsInv => OneLiveAdvisory
    <2> SUFFICES ASSUME OneStanding PROVE Cardinality(Standing) <= 1
      BY DEF TurnsInv, Turns, OneLiveAdvisory
    <2>1. CASE Standing = {}
      BY <2>1, FS_EmptySet
    <2>2. ASSUME NEW r \in Standing PROVE Cardinality(Standing) <= 1
      <3>1. Standing = {r}
        BY DEF OneStanding
      <3>2. Cardinality({r}) = 1
        BY FS_Singleton
      <3> QED
        BY <3>1, <3>2
    <2> QED
      BY <2>1, <2>2
  <1> QED
    BY <1>1, TurnsAlways, PTL

(* ... and once they are done and none has failed, the slots and the       *)
(* advisory of a live program come from the parameters it has.             *)
THEOREM TurnsCurrent == Spec => []TurnsKeepParameters
  <1>1. ProgramInv /\ TurnsInv => TurnsKeepParameters
    <2> SUFFICES ASSUME ProgramInv, TurnsInv, "overlap" \notin env, AllIdle,
                        gdp.status = "published", "fail" \notin env
                 PROVE  InOrder
      BY DEF TurnsKeepParameters, ParametersCurrent, InOrder
    <2>1. Unreplaced
      BY DEF AllIdle, ProgramInv, CallsFollow, Unreplaced, NoCall
    <2> QED
      BY <2>1 DEF TurnsInv, Turns
  <1> QED
    BY <1>1, TurnsAlways, PTL
=============================================================================
