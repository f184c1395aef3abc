------------------------- MODULE EventPackagesProofs -------------------------
(***************************************************************************)
(* What holds of the TMI packages of an event, for any number of packages, *)
(* items, airports and calls that overlap, fail and are retried.           *)
(***************************************************************************)
EXTENDS EventPackages, TLAPS

CallSteps == {"idle", "adding", "list", "list_refs", "items", "commit", "cancel"}

(* An item whose reference a transaction has stored stays in the database  *)
(* until that transaction ends.                                            *)
TypeInv ==
    /\ TypeOK
    /\ \A p \in Procs : InTransaction(p) => call[p].refd \subseteq planned

-----------------------------------------------------------------------------
(* Calls. *)

LEMMA CallFacts ==
  ASSUME NEW c \in Calls
  PROVE  /\ c.pc \in CallSteps
         /\ c.pc = "idle" <=> c = Idle
         /\ c.pc # "idle" => c.pkg \in Packages
         /\ c.pc \in {"items", "commit"} =>
               c \in [pc : {"items", "commit"}, pkg : Packages, todo : SUBSET Items,
                      made : SUBSET Items, refd : SUBSET Items]
         /\ c.pc = "cancel" => c \in [pc : {"cancel"}, pkg : Packages, todo : SUBSET Items]
  <1>1. CASE c = Idle
    BY <1>1 DEF Idle, CallSteps
  <1>2. CASE c \in [pc : {"adding", "list", "list_refs"}, pkg : Packages]
    BY <1>2 DEF Idle, CallSteps
  <1>3. CASE c \in [pc : {"items", "commit"}, pkg : Packages, todo : SUBSET Items,
                    made : SUBSET Items, refd : SUBSET Items]
    BY <1>3 DEF Idle, CallSteps
  <1>4. CASE c \in [pc : {"cancel"}, pkg : Packages, todo : SUBSET Items]
    BY <1>4 DEF Idle, CallSteps
  <1> QED
    BY <1>1, <1>2, <1>3, <1>4 DEF Calls

LEMMA SmallCalls ==
  ASSUME NEW k \in Packages, NEW pc \in {"adding", "list", "list_refs"}
  PROVE  [pc |-> pc, pkg |-> k] \in Calls
  BY DEF Calls

LEMMA Goes ==
  ASSUME NEW p \in Procs, NEW c, Goto(p, c), call \in [Procs -> Calls]
  PROVE  call'[p] = c /\ \A q \in Procs \ {p} : call'[q] = call[q]
  BY DEF Goto

(* What a step may do to its call when the transactions' own items stay.   *)
LEMMA TypesOfGoto ==
  ASSUME TypeInv, NEW p \in Procs, NEW c \in Calls, Goto(p, c),
         planned \subseteq planned',
         c.pc \in {"items", "commit"} => c.refd \subseteq planned'
  PROVE  /\ call' \in [Procs -> Calls]
         /\ \A q \in Procs : InTransaction(q)' => call'[q].refd \subseteq planned'
  <1>1. call \in [Procs -> Calls]
    BY DEF TypeInv, TypeOK
  <1>2. call' \in [Procs -> Calls]
    BY <1>1 DEF Goto
  <1>3. call'[p] = c /\ \A q \in Procs \ {p} : call'[q] = call[q]
    BY <1>1, Goes
  <1>4. ASSUME NEW q \in Procs, InTransaction(q)' PROVE call'[q].refd \subseteq planned'
    <2>1. CASE q = p
      BY <1>3, <1>4, <2>1 DEF InTransaction
    <2>2. CASE q # p
      BY <1>3, <1>4, <2>2 DEF InTransaction, TypeInv
    <2> QED
      BY <2>1, <2>2
  <1> QED
    BY <1>2, <1>4

-----------------------------------------------------------------------------
(* Types. *)

LEMMA TypesAtStart == Init => TypeInv
  <1> SUFFICES ASSUME Init PROVE TypeInv
    OBVIOUS
  <1>1. call \in [Procs -> Calls] /\ \A p \in Procs : call[p] = Idle
    BY DEF Init, Calls
  <1>2. armed \in [Packages -> BOOLEAN]
    BY Zenon DEF Init
  <1>3. /\ phase \in {"planning", "near", "over"}
        /\ status \in [Packages -> {"draft", "activated", "archived", "deleted"}]
        /\ planned \subseteq Items /\ deleted \subseteq Items \ planned /\ ref \subseteq planned
        /\ row \in [Rows -> {"none", "live", "ended"}]
        /\ issued \in [Items -> Nat] /\ corrected \in [Announced -> Nat]
        /\ program \in [Airports -> Items \cup {NoItem, Staff}]
        /\ env \subseteq HazardKinds
    BY PackageAssumption DEF Init
  <1> QED
    BY <1>1, <1>2, <1>3 DEF TypeInv, TypeOK, InTransaction, Idle

(* Calls that begin, go on or end without touching the database.           *)
LEMMA CallTypes ==
  ASSUME TypeInv, NEW p \in Procs, NEW c \in Calls, Goto(p, c),
         c.pc \in {"items", "commit"} => c.refd \subseteq planned,
         UNCHANGED <<phase, status, armed, planned, deleted, ref, row, issued, corrected, program, env>>
  PROVE  TypeInv'
  <1>1. /\ call' \in [Procs -> Calls]
        /\ \A q \in Procs : InTransaction(q)' => call'[q].refd \subseteq planned'
    BY TypesOfGoto
  <1> QED
    BY <1>1 DEF TypeInv, TypeOK

LEMMA IdleIsCall == Idle \in Calls /\ Idle.pc = "idle"
  BY DEF Calls, Idle

LEMMA TypesInsert ==
  ASSUME TypeInv, NEW p \in Procs, InsertItem(p)
  PROVE  TypeInv'
  <1>1. planned \subseteq planned' /\ planned' \subseteq Items /\ deleted \subseteq Items \ planned'
    BY DEF InsertItem, First, NewItems, ItemsOf, TypeInv, TypeOK
  <1>2. Goto(p, Idle)
    BY DEF InsertItem
  <1>3. /\ call' \in [Procs -> Calls]
        /\ \A q \in Procs : InTransaction(q)' => call'[q].refd \subseteq planned'
    BY <1>1, <1>2, IdleIsCall, TypesOfGoto
  <1> QED
    BY <1>1, <1>3 DEF InsertItem, TypeInv, TypeOK

LEMMA TypesDelete ==
  ASSUME TypeInv, NEW i \in Items, DeleteItem(i)
  PROVE  TypeInv'
  <1>1. /\ planned' \subseteq Items /\ deleted' \subseteq Items \ planned'
        /\ ref' \subseteq planned'
    BY DEF DeleteItem, TypeInv, TypeOK
  <1>2. \A q \in Procs : InTransaction(q)' => call'[q].refd \subseteq planned'
    BY DEF DeleteItem, ItemFree, TypeInv, InTransaction
  <1> QED
    BY <1>1, <1>2 DEF DeleteItem, TypeInv, TypeOK

LEMMA TypesDeletePackage ==
  ASSUME TypeInv, NEW k \in Packages, DeletePackage(k)
  PROVE  TypeInv'
  <1>1. /\ planned' \subseteq Items /\ deleted' \subseteq Items \ planned'
        /\ ref' \subseteq planned'
    BY DEF DeletePackage, TypeInv, TypeOK
  <1>2. \A q \in Procs : InTransaction(q)' => call'[q].refd \subseteq planned'
    <2> SUFFICES ASSUME NEW q \in Procs, InTransaction(q) PROVE call[q].refd \subseteq planned'
      BY DEF DeletePackage, InTransaction
    <2>1. call[q].refd \subseteq planned
      BY DEF TypeInv
    <2>2. \A i \in ItemsOf(k) : i \notin call[q].refd
      BY DEF DeletePackage, ItemFree
    <2> QED
      BY <2>1, <2>2 DEF DeletePackage
  <1>3. status' \in [Packages -> {"draft", "activated", "archived", "deleted"}]
    BY DEF DeletePackage, TypeInv, TypeOK
  <1> QED
    BY <1>1, <1>2, <1>3 DEF DeletePackage, TypeInv, TypeOK

LEMMA TypesMaterialize ==
  ASSUME TypeInv, NEW p \in Procs, Materialize(p)
  PROVE  TypeInv'
  <1>1. call[p] \in Calls /\ call[p].pc = "items" /\ call[p].refd \subseteq planned
    BY DEF TypeInv, TypeOK, Materialize, InTransaction
  <1>2. call[p] \in [pc : {"items", "commit"}, pkg : Packages, todo : SUBSET Items,
                     made : SUBSET Items, refd : SUBSET Items]
    BY <1>1, CallFacts
  <1>3. PICK i \in First(call[p].todo) :
          Goto(p, [call[p] EXCEPT !.todo = @ \ {i}, !.made = @ \cup {i},
                                  !.refd = @ \cup Referenced(i)])
    BY DEF Materialize
  <1> DEFINE c == [call[p] EXCEPT !.todo = @ \ {i}, !.made = @ \cup {i},
                                  !.refd = @ \cup Referenced(i)]
  <1>4. i \in Items /\ Referenced(i) \subseteq planned /\ planned \subseteq Items
    BY <1>2 DEF First, Referenced, TypeInv, TypeOK
  <1>5. c \in Calls
    BY <1>2, <1>4 DEF Calls
  <1>6. c.refd \subseteq planned
    BY <1>1, <1>2, <1>4
  <1>7. Goto(p, c)
    BY <1>3
  <1>8. UNCHANGED <<phase, status, armed, planned, deleted, ref, row, issued, corrected, program, env>>
    BY DEF Materialize
  <1> HIDE DEF c
  <1> QED
    BY <1>5, <1>6, <1>7, <1>8, CallTypes

LEMMA TypesMark ==
  ASSUME TypeInv, NEW p \in Procs, Mark(p)
  PROVE  TypeInv'
  <1>1. call[p] \in Calls /\ call[p].pc = "items" /\ call[p].refd \subseteq planned
    BY DEF TypeInv, TypeOK, Mark, InTransaction
  <1>2. call[p] \in [pc : {"items", "commit"}, pkg : Packages, todo : SUBSET Items,
                     made : SUBSET Items, refd : SUBSET Items]
    BY <1>1, CallFacts
  <1> DEFINE c == IF CanMark(call[p].pkg) THEN [call[p] EXCEPT !.pc = "commit"] ELSE Idle
  <1>3. c \in Calls /\ (c.pc \in {"items", "commit"} => c.refd \subseteq planned)
    BY <1>1, <1>2 DEF Calls, Idle
  <1>4. Goto(p, c)
    BY DEF Mark
  <1>5. UNCHANGED <<phase, status, armed, planned, deleted, ref, row, issued, corrected, program, env>>
    BY DEF Mark
  <1> HIDE DEF c
  <1> QED
    BY <1>3, <1>4, <1>5, CallTypes

(* Calls that begin or read: the record they go on with is of one of the   *)
(* smaller kinds, or holds what was read.                                  *)
LEMMA TypesRead ==
  ASSUME TypeInv, NEW p \in Procs,
         \/ \E k \in Packages : AddItem(p, k) \/ BeginActivate(p, k) \/ BeginDeactivate(p, k)
         \/ ListItems(p) \/ ListRefs(p) \/ Fail(p)
  PROVE  TypeInv'
  <1>1. call[p] \in Calls /\ planned \subseteq Items /\ ref \subseteq Items
    BY DEF TypeInv, TypeOK
  <1>2. PICK c \in Calls : Goto(p, c) /\ (c.pc \in {"items", "commit"} => c.refd \subseteq planned)
    <2>1. ASSUME NEW k \in Packages, AddItem(p, k) \/ BeginActivate(p, k) \/ BeginDeactivate(p, k)
          PROVE  \E pc \in {"adding", "list", "list_refs"} : Goto(p, [pc |-> pc, pkg |-> k])
      BY <2>1 DEF AddItem, BeginActivate, BeginDeactivate
    <2>2. CASE \E k \in Packages : AddItem(p, k) \/ BeginActivate(p, k) \/ BeginDeactivate(p, k)
      <3>1. PICK k \in Packages, pc \in {"adding", "list", "list_refs"} :
                    Goto(p, [pc |-> pc, pkg |-> k])
        BY <2>1, <2>2
      <3>2. [pc |-> pc, pkg |-> k] \in Calls /\ [pc |-> pc, pkg |-> k].pc \notin {"items", "commit"}
        BY SmallCalls
      <3> QED
        BY <3>1, <3>2
    <2>3. CASE ListItems(p)
      <3> DEFINE c == [pc |-> "items", pkg |-> call[p].pkg, made |-> {}, refd |-> {},
                       todo |-> planned \cap ItemsOf(call[p].pkg)]
      <3>1. call[p].pkg \in Packages
        BY <1>1, <2>3, CallFacts DEF ListItems
      <3>2. c \in Calls /\ c.refd \subseteq planned
        BY <1>1, <3>1 DEF Calls
      <3> QED
        BY <2>3, <3>2 DEF ListItems
    <2>4. CASE ListRefs(p)
      <3> DEFINE c == [pc |-> "cancel", pkg |-> call[p].pkg, todo |-> ref \cap ItemsOf(call[p].pkg)]
      <3>1. call[p].pkg \in Packages
        BY <1>1, <2>4, CallFacts DEF ListRefs
      <3>2. c \in Calls /\ c.pc = "cancel"
        BY <1>1, <3>1 DEF Calls
      <3> QED
        BY <2>4, <3>2 DEF ListRefs
    <2>5. CASE Fail(p)
      BY <2>5, IdleIsCall DEF Fail
    <2> QED
      BY <2>2, <2>3, <2>4, <2>5
  <1>3. UNCHANGED <<phase, status, armed, planned, deleted, ref, row, issued, corrected, program, env>>
    BY DEF AddItem, BeginActivate, BeginDeactivate, ListItems, ListRefs, Fail
  <1> QED
    BY <1>2, <1>3, CallTypes

LEMMA TypesCommit ==
  ASSUME TypeInv, NEW p \in Procs, Commit(p)
  PROVE  TypeInv'
  <1>1. call[p] \in Calls /\ call[p].pc = "commit" /\ call[p].refd \subseteq planned
    BY DEF TypeInv, TypeOK, Commit, InTransaction
  <1>2. Goto(p, Idle) /\ planned' = planned
    BY DEF Commit
  <1>3. /\ call' \in [Procs -> Calls]
        /\ \A q \in Procs : InTransaction(q)' => call'[q].refd \subseteq planned'
    BY <1>2, IdleIsCall, TypesOfGoto
  <1>4. ref' \subseteq planned'
    BY <1>1 DEF Commit, TypeInv, TypeOK
  <1>5. row' \in [Rows -> {"none", "live", "ended"}] /\ issued' \in [Items -> Nat]
    BY DEF Commit, TypeInv, TypeOK
  <1>6. program' \in [Airports -> Items \cup {NoItem, Staff}]
    BY DEF Commit
  <1>7. status' \in [Packages -> {"draft", "activated", "archived", "deleted"}]
    BY DEF Commit, TypeInv, TypeOK
  <1> QED
    BY <1>3, <1>4, <1>5, <1>6, <1>7 DEF Commit, TypeInv, TypeOK

LEMMA EndTypes ==
  ASSUME TypeOK, NEW i, EndRow(i)
  PROVE  row' \in [Rows -> {"none", "live", "ended"}]
  BY DEF TypeOK, EndRow

LEMMA CorrectTypes ==
  ASSUME TypeOK, NEW i, Correct(i)
  PROVE  corrected' \in [Announced -> Nat]
  BY DEF TypeOK, Correct

LEMMA TypesCancelItem ==
  ASSUME TypeInv, NEW p \in Procs, CancelItem(p)
  PROVE  TypeInv'
  <1>1. call[p] \in Calls /\ call[p].pc = "cancel"
    BY DEF TypeInv, TypeOK, CancelItem
  <1>2. call[p] \in [pc : {"cancel"}, pkg : Packages, todo : SUBSET Items]
    BY <1>1, CallFacts
  <1>3. PICK i \in First(call[p].todo) :
        /\ Goto(p, [call[p] EXCEPT !.todo = @ \ {i}])
        /\ IF i \in Programs
           THEN /\ program' = [program EXCEPT ![AirportOf[i]] = NoItem]
                /\ UNCHANGED <<row, corrected>>
           ELSE EndRow(i) /\ Correct(i) /\ UNCHANGED program
    BY DEF CancelItem
  <1> DEFINE c == [call[p] EXCEPT !.todo = @ \ {i}]
  <1>4. c \in Calls /\ c.pc = "cancel"
    BY <1>2 DEF Calls
  <1>5. Goto(p, c) /\ planned' = planned
    BY <1>3 DEF CancelItem
  <1> HIDE DEF c
  <1>6. /\ call' \in [Procs -> Calls]
        /\ \A q \in Procs : InTransaction(q)' => call'[q].refd \subseteq planned'
    BY <1>4, <1>5, TypesOfGoto
  <1>7. /\ row' \in [Rows -> {"none", "live", "ended"}] /\ corrected' \in [Announced -> Nat]
        /\ program' \in [Airports -> Items \cup {NoItem, Staff}]
    BY <1>3, EndTypes, CorrectTypes DEF TypeInv, TypeOK
  <1> QED
    BY <1>6, <1>7 DEF CancelItem, TypeInv, TypeOK

LEMMA TypesArchive ==
  ASSUME TypeInv, NEW p \in Procs, Archive(p)
  PROVE  TypeInv'
  <1>1. Goto(p, Idle) /\ planned' = planned
    BY DEF Archive
  <1>2. /\ call' \in [Procs -> Calls]
        /\ \A q \in Procs : InTransaction(q)' => call'[q].refd \subseteq planned'
    BY <1>1, IdleIsCall, TypesOfGoto
  <1>3. /\ status' \in [Packages -> {"draft", "activated", "archived", "deleted"}]
        /\ ref' \subseteq planned
    BY DEF Archive, TypeInv, TypeOK
  <1> QED
    BY <1>2, <1>3 DEF Archive, TypeInv, TypeOK

(* Steps that belong to no call.                                           *)
Elsewhere ==
    \/ \E k \in Packages, on \in BOOLEAN : SetAuto(k, on)
    \/ \E a \in Airports : StaffProgram(a) \/ DropProgram(a)
    \/ \E i \in Rows : StaffCancel(i) \/ Expire(i)
    \/ Recover \/ Tick

LEMMA TypesElsewhere ==
  ASSUME TypeInv, Elsewhere
  PROVE  TypeInv'
  <1>1. UNCHANGED <<status, planned, deleted, ref, issued, call>>
    BY DEF Elsewhere, SetAuto, StaffProgram, DropProgram, StaffCancel, Expire, Recover, Tick
  <1>2. \A q \in Procs : InTransaction(q)' => call'[q].refd \subseteq planned'
    BY <1>1 DEF TypeInv, InTransaction
  <1>3. phase' \in {"planning", "near", "over"} /\ env' \subseteq HazardKinds
    BY DEF Elsewhere, SetAuto, StaffProgram, DropProgram, StaffCancel, Expire, Recover, Tick,
           TypeInv, TypeOK
  <1>4. armed' \in [Packages -> BOOLEAN]
    BY DEF Elsewhere, SetAuto, StaffProgram, DropProgram, StaffCancel, Expire, Recover, Tick,
           TypeInv, TypeOK
  <1>5. program' \in [Airports -> Items \cup {NoItem, Staff}]
    BY DEF Elsewhere, SetAuto, StaffProgram, DropProgram, StaffCancel, Expire, Recover, Tick,
           TypeInv, TypeOK
  <1>6. row' \in [Rows -> {"none", "live", "ended"}]
    BY EndTypes DEF Elsewhere, SetAuto, StaffProgram, DropProgram, StaffCancel, Expire, Recover,
           Tick, TypeInv, TypeOK
  <1>7. corrected' \in [Announced -> Nat]
    BY CorrectTypes DEF Elsewhere, SetAuto, StaffProgram, DropProgram, StaffCancel, Expire,
           Recover, Tick, TypeInv, TypeOK
  <1> QED
    BY <1>1, <1>2, <1>3, <1>4, <1>5, <1>6, <1>7 DEF TypeInv, TypeOK

(* The steps by kind: those that only move a call, and the others.         *)
LEMMA StepKinds ==
  ASSUME Next
  PROVE  \/ \E p \in Procs : \/ InsertItem(p) \/ ListItems(p) \/ Materialize(p) \/ Mark(p)
                             \/ Commit(p) \/ ListRefs(p) \/ CancelItem(p) \/ Archive(p)
                             \/ Fail(p)
                             \/ \E k \in Packages : AddItem(p, k) \/ BeginActivate(p, k)
                                                    \/ BeginDeactivate(p, k)
         \/ \E i \in Items : DeleteItem(i)
         \/ \E k \in Packages : DeletePackage(k)
         \/ Elsewhere
  BY DEF Next, Steps, AutoActivate, AutoArchive, Elsewhere

LEMMA TypesStep == TypeInv /\ [Next]_vars => TypeInv'
  <1>1. ASSUME TypeInv, UNCHANGED vars PROVE TypeInv'
    BY <1>1 DEF TypeInv, TypeOK, vars, InTransaction
  <1>2. ASSUME TypeInv, Next PROVE TypeInv'
    BY <1>2, StepKinds, TypesInsert, TypesDelete, TypesDeletePackage, TypesMaterialize,
       TypesMark, TypesRead, TypesCommit, TypesCancelItem, TypesArchive, TypesElsewhere
  <1> QED
    BY <1>1, <1>2

LEMMA TypesAlways == Spec => []TypeInv
  <1> QED
    BY TypesAtStart, TypesStep, PTL DEF Spec

(* States and calls keep their types, whatever overlaps, fails or lapses.  *)
THEOREM TypeCorrect == Spec => []TypeOK
  <1>1. TypeInv => TypeOK
    BY DEF TypeInv
  <1> QED
    BY <1>1, TypesAlways, PTL

-----------------------------------------------------------------------------
(* One package, one activation.  A transaction that has marked its package *)
(* holds the package's row, so its package is a draft and it is alone; an  *)
(* item of a draft has never been issued.                                  *)

Sound(c) ==
    /\ c.pc \in {"items", "commit"} => c.made \cup c.todo \subseteq ItemsOf(c.pkg)
    /\ c.pc = "commit" => status[c.pkg] = "draft"

Apart(c, d) == ~(c.pc = "commit" /\ d.pc = "commit" /\ c.pkg = d.pkg)

Counted(i) ==
    /\ issued[i] \in {0, 1}
    /\ status[PackageOf[i]] = "draft" => issued[i] = 0

(* What a row says of how its item was issued and its post corrected.      *)
RowTrue(i) == issued[i] = 0 => row[i] = "none"

PostTrue(i) ==
    /\ row[i] \in {"none", "live"} => corrected[i] = 0
    /\ corrected[i] \in {0, 1}
    /\ row[i] = "ended" /\ (phase # "over" \/ KindOf[i] = "advisory" \/ i \in OpenEnded) =>
          corrected[i] = 1

FromItem(a) ==
    program[a] \in Items =>
        program[a] \in Programs /\ AirportOf[program[a]] = a /\ issued[program[a]] = 1

PackageInv ==
    /\ TypeInv
    /\ \A p \in Procs : Sound(call[p])
    /\ \A p, q \in Procs : p # q => Apart(call[p], call[q])
    /\ \A i \in Items : Counted(i)
    /\ \A i \in Rows : RowTrue(i)
    /\ \A i \in Announced : PostTrue(i)
    /\ \A a \in Airports : FromItem(a)

LEMMA AnnouncedRows == Announced \subseteq Rows /\ Rows \subseteq Items
  BY PackageAssumption DEF Rows, Programs

LEMMA PackageAtStart == Init => PackageInv
  <1> SUFFICES ASSUME Init PROVE PackageInv
    OBVIOUS
  <1>1. TypeInv
    BY TypesAtStart
  <1>2. \A p \in Procs : call[p] = Idle
    BY DEF Init
  <1>3. \A i \in Items : Counted(i)
    BY DEF Init, Counted
  <1>4. \A i \in Rows : RowTrue(i)
    BY DEF Init, RowTrue
  <1>5. \A i \in Announced : PostTrue(i)
    BY AnnouncedRows DEF Init, PostTrue
  <1>6. \A a \in Airports : FromItem(a)
    BY PackageAssumption DEF Init, FromItem
  <1> QED
    BY <1>1, <1>2, <1>3, <1>4, <1>5, <1>6 DEF PackageInv, Sound, Apart, Idle

(* A call that moves on keeps the calls' part, where nothing of a package  *)
(* with a marked transaction changes status.                               *)
LEMMA CallsStaySound ==
  ASSUME PackageInv, NEW p \in Procs, NEW c, Goto(p, c),
         c.pc \in {"items", "commit"} => c.made \cup c.todo \subseteq ItemsOf(c.pkg),
         c.pc = "commit" => status'[c.pkg] = "draft",
         \A q \in Procs \ {p} : Apart(c, call[q]),
         \A q \in Procs \ {p} : call[q].pc = "commit" => status'[call[q].pkg] = "draft"
  PROVE  /\ \A q \in Procs : Sound(call[q])'
         /\ \A q, r \in Procs : q # r => Apart(call[q], call[r])'
  <1>1. call'[p] = c /\ \A q \in Procs \ {p} : call'[q] = call[q]
    BY Goes DEF PackageInv, TypeInv, TypeOK
  <1>2. ASSUME NEW q \in Procs PROVE Sound(call[q])'
    <2>1. CASE q = p
      BY <1>1, <2>1 DEF Sound
    <2>2. CASE q # p
      BY <1>1, <2>2 DEF Sound, PackageInv
    <2> QED
      BY <2>1, <2>2
  <1>3. ASSUME NEW q \in Procs, NEW r \in Procs, q # r PROVE Apart(call[q], call[r])'
    <2>1. CASE q = p
      BY <1>1, <1>3, <2>1 DEF Apart
    <2>2. CASE r = p
      BY <1>1, <1>3, <2>2 DEF Apart
    <2>3. CASE q # p /\ r # p
      BY <1>1, <1>3, <2>3 DEF Apart, PackageInv
    <2> QED
      BY <2>1, <2>2, <2>3
  <1> QED
    BY <1>2, <1>3

LEMMA CallsMove ==
  ASSUME PackageInv, TypeInv', NEW p \in Procs, NEW c, Goto(p, c),
         Sound(c), \A q \in Procs \ {p} : Apart(c, call[q]),
         UNCHANGED <<phase, status, row, issued, corrected, program>>
  PROVE  PackageInv'
  <1>1. \A q \in Procs : call[q].pc = "commit" => status'[call[q].pkg] = "draft"
    BY DEF PackageInv, Sound
  <1>2. /\ c.pc \in {"items", "commit"} => c.made \cup c.todo \subseteq ItemsOf(c.pkg)
        /\ c.pc = "commit" => status'[c.pkg] = "draft"
    BY DEF Sound
  <1>3. /\ \A q \in Procs : Sound(call[q])'
        /\ \A q, r \in Procs : q # r => Apart(call[q], call[r])'
    BY <1>1, <1>2, CallsStaySound
  <1> QED
    BY <1>3 DEF PackageInv, Counted, RowTrue, PostTrue, FromItem

LEMMA PackageReads ==
  ASSUME PackageInv, TypeInv', NEW p \in Procs,
         \/ \E k \in Packages : AddItem(p, k) \/ BeginActivate(p, k) \/ BeginDeactivate(p, k)
         \/ ListItems(p) \/ ListRefs(p) \/ Fail(p) \/ InsertItem(p)
  PROVE  PackageInv'
  <1>1. PICK c : /\ Goto(p, c) /\ c.pc \in CallSteps \ {"commit"}
                 /\ c.pc = "items" => c.made = {} /\ c.todo \subseteq ItemsOf(c.pkg)
    <2>1. CASE \E k \in Packages : AddItem(p, k) \/ BeginActivate(p, k) \/ BeginDeactivate(p, k)
      BY <2>1 DEF AddItem, BeginActivate, BeginDeactivate, CallSteps
    <2>2. CASE ListItems(p)
      BY <2>2 DEF ListItems, CallSteps
    <2>3. CASE ListRefs(p)
      BY <2>3 DEF ListRefs, CallSteps
    <2>4. CASE Fail(p)
      BY <2>4 DEF Fail, Idle, CallSteps
    <2>5. CASE InsertItem(p)
      BY <2>5 DEF InsertItem, Idle, CallSteps
    <2> QED
      BY <2>1, <2>2, <2>3, <2>4, <2>5
  <1>2. Sound(c) /\ \A q \in Procs \ {p} : Apart(c, call[q])
    BY <1>1 DEF Sound, Apart, CallSteps
  <1>3. UNCHANGED <<phase, status, row, issued, corrected, program>>
    BY DEF AddItem, BeginActivate, BeginDeactivate, ListItems, ListRefs, Fail, InsertItem
  <1> QED
    BY <1>1, <1>2, <1>3, CallsMove

LEMMA PackageMaterialize ==
  ASSUME PackageInv, TypeInv', NEW p \in Procs, Materialize(p)
  PROVE  PackageInv'
  <1>1. call[p] \in Calls /\ call[p].pc = "items" /\ Sound(call[p])
    BY DEF PackageInv, TypeInv, TypeOK, Materialize
  <1>2. call[p] \in [pc : {"items", "commit"}, pkg : Packages, todo : SUBSET Items,
                     made : SUBSET Items, refd : SUBSET Items]
    BY <1>1, CallFacts
  <1>3. PICK i \in First(call[p].todo) :
          Goto(p, [call[p] EXCEPT !.todo = @ \ {i}, !.made = @ \cup {i},
                                  !.refd = @ \cup Referenced(i)])
    BY DEF Materialize
  <1> DEFINE c == [call[p] EXCEPT !.todo = @ \ {i}, !.made = @ \cup {i},
                                  !.refd = @ \cup Referenced(i)]
  <1>4. c.pc = "items" /\ Sound(c)
    BY <1>1, <1>2 DEF Sound, First
  <1>5. Goto(p, c)
    BY <1>3
  <1>6. UNCHANGED <<phase, status, row, issued, corrected, program>>
    BY DEF Materialize
  <1>7. \A q \in Procs \ {p} : Apart(c, call[q])
    BY <1>4 DEF Apart
  <1> HIDE DEF c
  <1> QED
    BY <1>4, <1>5, <1>6, <1>7, CallsMove

LEMMA PackageMark ==
  ASSUME PackageInv, TypeInv', NEW p \in Procs, Mark(p)
  PROVE  PackageInv'
  <1>1. call[p] \in Calls /\ call[p].pc = "items" /\ Sound(call[p])
    BY DEF PackageInv, TypeInv, TypeOK, Mark
  <1>2. call[p] \in [pc : {"items", "commit"}, pkg : Packages, todo : SUBSET Items,
                     made : SUBSET Items, refd : SUBSET Items]
    BY <1>1, CallFacts
  <1> DEFINE c == IF CanMark(call[p].pkg) THEN [call[p] EXCEPT !.pc = "commit"] ELSE Idle
  <1>3. Sound(c)
    BY <1>1, <1>2 DEF Sound, CanMark, Idle
  <1>4. \A q \in Procs \ {p} : Apart(c, call[q])
    BY <1>1, <1>2 DEF Mark, PackageFree, Others, Apart, Idle
  <1>5. Goto(p, c)
    BY DEF Mark
  <1>6. UNCHANGED <<phase, status, row, issued, corrected, program>>
    BY DEF Mark
  <1> HIDE DEF c
  <1> QED
    BY <1>3, <1>4, <1>5, <1>6, CallsMove

LEMMA PackageCommit ==
  ASSUME PackageInv, TypeInv', NEW p \in Procs, Commit(p)
  PROVE  PackageInv'
  <1> DEFINE k == call[p].pkg
             made == call[p].made
  <1>1. /\ call[p] \in Calls /\ call[p].pc = "commit" /\ Sound(call[p]) /\ k \in Packages
        /\ status \in [Packages -> {"draft", "activated", "archived", "deleted"}]
        /\ issued \in [Items -> Nat] /\ row \in [Rows -> {"none", "live", "ended"}]
    BY CallFacts DEF PackageInv, TypeInv, TypeOK, Commit
  <1>2. made \subseteq ItemsOf(k) /\ status[k] = "draft"
    BY <1>1 DEF Sound
  <1>3. /\ status' = [status EXCEPT ![k] = "activated"]
        /\ row' = [i \in Rows |-> IF i \in made THEN "live" ELSE row[i]]
        /\ issued' = [i \in Items |-> IF i \in made THEN issued[i] + 1 ELSE issued[i]]
        /\ \A a \in Airports :
              IF MadeFor(p, a) = {} THEN program'[a] = program[a] ELSE program'[a] \in MadeFor(p, a)
        /\ Goto(p, Idle)
        /\ UNCHANGED <<phase, corrected>>
    BY DEF Commit
  <1>4. \A i \in made : i \in Items /\ PackageOf[i] = k /\ issued[i] = 0 /\ (i \in Rows => row[i] = "none")
    BY <1>2 DEF ItemsOf, PackageInv, Counted, RowTrue
  <1>5. \A q \in Procs \ {p} : call[q].pc = "commit" => status'[call[q].pkg] = "draft"
    <2> SUFFICES ASSUME NEW q \in Procs \ {p}, call[q].pc = "commit"
                 PROVE  status'[call[q].pkg] = "draft"
      OBVIOUS
    <2>1. Apart(call[p], call[q]) /\ Sound(call[q])
      BY DEF PackageInv
    <2>2. call[q].pkg # k /\ status[call[q].pkg] = "draft"
      BY <1>1, <2>1 DEF Apart, Sound
    <2>3. call[q].pkg \in Packages
      BY CallFacts DEF PackageInv, TypeInv, TypeOK
    <2> QED
      BY <1>1, <1>3, <2>2, <2>3
  <1>6. /\ \A q \in Procs : Sound(call[q])'
        /\ \A q, r \in Procs : q # r => Apart(call[q], call[r])'
    BY <1>3, <1>5, CallsStaySound DEF Idle, Apart
  <1>7. ASSUME NEW i \in Items PROVE Counted(i)'
    <2>1. PackageOf[i] \in Packages /\ Counted(i)
      BY PackageAssumption DEF PackageInv
    <2>2. CASE i \in made
      BY <1>1, <1>3, <1>4, <2>1, <2>2 DEF Counted
    <2>3. CASE i \notin made
      BY <1>1, <1>3, <2>1, <2>3 DEF Counted
    <2> QED
      BY <2>2, <2>3
  <1>8. ASSUME NEW i \in Rows PROVE RowTrue(i)'
    <2>1. RowTrue(i) /\ i \in Items
      BY AnnouncedRows DEF PackageInv
    <2> QED
      BY <1>1, <1>3, <1>4, <2>1 DEF RowTrue
  <1>9. ASSUME NEW i \in Announced PROVE PostTrue(i)'
    <2>1. PostTrue(i) /\ i \in Rows
      BY AnnouncedRows DEF PackageInv
    <2>2. CASE i \in made
      BY <1>1, <1>3, <1>4, <2>1, <2>2 DEF PostTrue
    <2>3. CASE i \notin made
      BY <1>1, <1>3, <2>1, <2>3 DEF PostTrue
    <2> QED
      BY <2>2, <2>3
  <1>10. ASSUME NEW a \in Airports PROVE FromItem(a)'
    <2>1. FromItem(a)
      BY DEF PackageInv
    <2>2. CASE MadeFor(p, a) = {}
      <3>1. program'[a] = program[a]
        BY <1>3, <2>2
      <3>2. program[a] \in Items => program[a] \notin made
        BY <1>4, <2>1 DEF FromItem
      <3> QED
        BY <1>3, <2>1, <3>1, <3>2 DEF FromItem
    <2>3. CASE MadeFor(p, a) # {}
      <3>1. program'[a] \in MadeFor(p, a)
        BY <1>3, <2>3
      <3>2. program'[a] \in made /\ program'[a] \in Programs /\ AirportOf[program'[a]] = a
        BY <3>1 DEF MadeFor
      <3> QED
        BY <1>3, <1>4, <3>2 DEF FromItem
    <2> QED
      BY <2>2, <2>3
  <1> QED
    BY <1>6, <1>7, <1>8, <1>9, <1>10 DEF PackageInv

(* A row ends with the correction its post is owed, or was ended before.   *)
LEMMA RowEnds ==
  ASSUME PackageInv, NEW i \in Rows, EndRow(i), Correct(i), UNCHANGED <<phase, issued>>
  PROVE  (\A j \in Rows : RowTrue(j)') /\ (\A j \in Announced : PostTrue(j)')
  <1>1. /\ row \in [Rows -> {"none", "live", "ended"}] /\ corrected \in [Announced -> Nat]
        /\ KindOf \in [Items -> Kinds] /\ i \in Items
    BY PackageAssumption, AnnouncedRows DEF PackageInv, TypeInv, TypeOK
  <1>2. ASSUME NEW j \in Rows PROVE RowTrue(j)'
    BY <1>1 DEF EndRow, RowTrue, PackageInv
  <1>3. ASSUME NEW j \in Announced PROVE PostTrue(j)'
    <2>1. PostTrue(j) /\ j \in Rows
      BY AnnouncedRows DEF PackageInv
    <2>2. CASE j # i
      BY <1>1, <2>1, <2>2 DEF EndRow, Correct, PostTrue
    <2>3. CASE j = i /\ row[i] # "live"
      BY <1>1, <2>1, <2>3 DEF EndRow, Correct, PostTrue
    <2>4. CASE j = i /\ row[i] = "live"
      <3>1. row'[j] = "ended" /\ corrected[j] = 0
        BY <1>1, <2>1, <2>4 DEF EndRow, PostTrue
      <3>2. corrected'[j] = IF Early(i) THEN 1 ELSE 0
        BY <2>4, <3>1 DEF Correct
      <3>3. (phase # "over" \/ KindOf[i] = "advisory" \/ i \in OpenEnded) => Early(i)
        BY DEF Early
      <3> QED
        BY <2>4, <3>1, <3>2, <3>3 DEF PostTrue
    <2> QED
      BY <2>2, <2>3, <2>4
  <1> QED
    BY <1>2, <1>3

LEMMA PackageCancelItem ==
  ASSUME PackageInv, TypeInv', NEW p \in Procs, CancelItem(p)
  PROVE  PackageInv'
  <1>1. call[p] \in Calls /\ call[p].pc = "cancel"
    BY DEF PackageInv, TypeInv, TypeOK, CancelItem
  <1>2. call[p] \in [pc : {"cancel"}, pkg : Packages, todo : SUBSET Items]
    BY <1>1, CallFacts
  <1>3. PICK i \in First(call[p].todo) :
        /\ Goto(p, [call[p] EXCEPT !.todo = @ \ {i}])
        /\ IF i \in Programs
           THEN /\ program' = [program EXCEPT ![AirportOf[i]] = NoItem]
                /\ UNCHANGED <<row, corrected>>
           ELSE EndRow(i) /\ Correct(i) /\ UNCHANGED program
    BY DEF CancelItem
  <1> DEFINE c == [call[p] EXCEPT !.todo = @ \ {i}]
  <1>4. c.pc = "cancel" /\ Goto(p, c)
    BY <1>2, <1>3
  <1>5. UNCHANGED <<phase, status, issued>>
    BY DEF CancelItem
  <1> HIDE DEF c
  <1>6. \A q \in Procs : call[q].pc = "commit" => status'[call[q].pkg] = "draft"
    BY <1>5 DEF PackageInv, Sound
  <1>7. /\ \A q \in Procs : Sound(call[q])'
        /\ \A q, r \in Procs : q # r => Apart(call[q], call[r])'
    BY <1>4, <1>6, CallsStaySound DEF Apart
  <1>8. (\A j \in Rows : RowTrue(j)') /\ (\A j \in Announced : PostTrue(j)')
    <2>1. CASE i \in Programs
      BY <1>3, <1>5, <2>1 DEF PackageInv, RowTrue, PostTrue
    <2>2. CASE i \notin Programs
      <3>1. i \in Rows
        BY <1>2, <2>2 DEF First, Rows
      <3> QED
        BY <1>3, <1>5, <2>2, <3>1, RowEnds
    <2> QED
      BY <2>1, <2>2
  <1>9. \A a \in Airports : FromItem(a)'
    BY <1>3, <1>5, PackageAssumption DEF PackageInv, FromItem, TypeInv, TypeOK
  <1>10. \A j \in Items : Counted(j)'
    BY <1>5 DEF PackageInv, Counted
  <1> QED
    BY <1>7, <1>8, <1>9, <1>10 DEF PackageInv

LEMMA PackageArchive ==
  ASSUME PackageInv, TypeInv', NEW p \in Procs, Archive(p)
  PROVE  PackageInv'
  <1> DEFINE k == call[p].pkg
  <1>1. status \in [Packages -> {"draft", "activated", "archived", "deleted"}]
    BY DEF PackageInv, TypeInv, TypeOK
  <1>2. /\ Goto(p, Idle) /\ PackageFree(k, Others(p))
        /\ status' = [status EXCEPT ![k] = IF @ = "deleted" THEN @ ELSE "archived"]
        /\ UNCHANGED <<phase, row, issued, corrected, program>>
    BY DEF Archive
  <1>3. \A q \in Procs \ {p} : call[q].pc = "commit" => status'[call[q].pkg] = "draft"
    BY <1>1, <1>2 DEF PackageFree, Others, PackageInv, Sound
  <1>4. /\ \A q \in Procs : Sound(call[q])'
        /\ \A q, r \in Procs : q # r => Apart(call[q], call[r])'
    BY <1>2, <1>3, CallsStaySound DEF Idle, Apart
  <1>5. \A i \in Items : Counted(i)'
    BY <1>1, <1>2, PackageAssumption DEF PackageInv, Counted
  <1> QED
    BY <1>2, <1>4, <1>5 DEF PackageInv, RowTrue, PostTrue, FromItem

LEMMA PackageDelete ==
  ASSUME PackageInv, TypeInv',
         \/ \E i \in Items : DeleteItem(i)
         \/ \E k \in Packages : DeletePackage(k)
  PROVE  PackageInv'
  <1>1. status \in [Packages -> {"draft", "activated", "archived", "deleted"}]
    BY DEF PackageInv, TypeInv, TypeOK
  <1>2. UNCHANGED <<phase, row, issued, corrected, program, call>>
    BY DEF DeleteItem, DeletePackage
  <1>3. \A k \in Packages :
            /\ status'[k] = "draft" => status[k] = "draft"
            /\ (\E q \in Procs : call[q].pc = "commit" /\ call[q].pkg = k) => status'[k] = status[k]
    BY <1>1 DEF DeleteItem, DeletePackage, PackageFree
  <1>4. \A q \in Procs : Sound(call[q])'
    <2> SUFFICES ASSUME NEW q \in Procs PROVE Sound(call[q])'
      OBVIOUS
    <2>1. call[q] \in Calls /\ Sound(call[q])
      BY DEF PackageInv, TypeInv, TypeOK
    <2>2. call[q].pc = "commit" => call[q].pkg \in Packages
      BY <2>1, CallFacts
    <2> QED
      BY <1>2, <1>3, <2>1, <2>2 DEF Sound
  <1>5. \A i \in Items : Counted(i)'
    BY <1>2, <1>3, PackageAssumption DEF PackageInv, Counted
  <1> QED
    BY <1>2, <1>4, <1>5 DEF PackageInv, Apart, RowTrue, PostTrue, FromItem

LEMMA PackageElsewhere ==
  ASSUME PackageInv, TypeInv', Elsewhere
  PROVE  PackageInv'
  <1>1. UNCHANGED <<status, issued, call>>
    BY DEF Elsewhere, SetAuto, StaffProgram, DropProgram, StaffCancel, Expire, Recover, Tick
  <1>2. /\ \A p \in Procs : Sound(call[p])'
        /\ \A p, q \in Procs : p # q => Apart(call[p], call[q])'
        /\ \A i \in Items : Counted(i)'
    BY <1>1 DEF PackageInv, Sound, Apart, Counted
  <1>3. /\ row \in [Rows -> {"none", "live", "ended"}] /\ corrected \in [Announced -> Nat]
        /\ program \in [Airports -> Items \cup {NoItem, Staff}]
    BY DEF PackageInv, TypeInv, TypeOK
  <1>4. (\A j \in Rows : RowTrue(j)') /\ (\A j \in Announced : PostTrue(j)')
    <2>1. ASSUME NEW i \in Rows, Expire(i) PROVE <1>4!1 /\ <1>4!2
      BY <1>1, <2>1, RowEnds DEF Expire
    <2>2. ASSUME NEW i \in Rows, StaffCancel(i) PROVE <1>4!1 /\ <1>4!2
      BY <1>1, <1>3, <2>2, AnnouncedRows
      DEF StaffCancel, EndRow, PackageInv, RowTrue, PostTrue
    <2>3. CASE Tick
      BY <1>1, <2>3 DEF Tick, PackageInv, RowTrue, PostTrue
    <2>4. CASE UNCHANGED <<phase, row, corrected>>
      BY <1>1, <2>4 DEF PackageInv, RowTrue, PostTrue
    <2>5. \/ \E i \in Rows : StaffCancel(i) \/ Expire(i)
          \/ Tick
          \/ UNCHANGED <<phase, row, corrected>>
      BY DEF Elsewhere, SetAuto, StaffProgram, DropProgram, Recover
    <2> QED
      BY <2>1, <2>2, <2>3, <2>4, <2>5
  <1>5. \A a \in Airports : FromItem(a)'
    <2>1. \A a \in Airports : program'[a] = program[a] \/ program'[a] \in {NoItem, Staff}
      BY <1>3 DEF Elsewhere, SetAuto, StaffProgram, DropProgram, StaffCancel, Expire, Recover, Tick
    <2> QED
      BY <1>1, <2>1, PackageAssumption DEF PackageInv, FromItem
  <1> QED
    BY <1>2, <1>4, <1>5 DEF PackageInv

LEMMA PackageStep == PackageInv /\ [Next]_vars => PackageInv'
  <1>1. ASSUME PackageInv, UNCHANGED vars PROVE PackageInv'
    BY <1>1, TypesStep DEF PackageInv, vars, Sound, Apart, Counted, RowTrue, PostTrue, FromItem
  <1>2. ASSUME PackageInv, Next PROVE PackageInv'
    <2>1. TypeInv'
      BY <1>2, TypesStep DEF PackageInv
    <2> QED
      BY <1>2, <2>1, StepKinds, PackageReads, PackageMaterialize, PackageMark, PackageCommit,
         PackageCancelItem, PackageArchive, PackageDelete, PackageElsewhere
  <1> QED
    BY <1>1, <1>2

LEMMA PackageAlways == Spec => []PackageInv
  <1> QED
    BY PackageAtStart, PackageStep, PTL DEF Spec

(* No item goes live twice, however activations overlap, fail and retry.   *)
THEOREM IssuedOnceEver == Spec => []IssuedOnce
  <1>1. PackageInv => IssuedOnce
    BY DEF PackageInv, Counted, IssuedOnce
  <1> QED
    BY <1>1, PackageAlways, PTL

(* A post is corrected once, and when it must be, whoever ended its row.   *)
THEOREM CorrectedOnceEver == Spec => []CorrectedOnce
  <1>1. PackageInv => CorrectedOnce
    BY AnnouncedRows DEF PackageInv, PostTrue, CorrectedOnce, TypeInv, TypeOK
  <1> QED
    BY <1>1, PackageAlways, PTL

-----------------------------------------------------------------------------
(* Whole packages.  Where nobody edits a package during or after its       *)
(* activation, what a transaction has listed is the plan until it ends;    *)
(* what an activated package has in force is named by a reference, and     *)
(* what a deactivation has no longer to cancel is not in force.            *)

InForce(i) == IF i \in Programs THEN program[AirportOf[i]] = i ELSE row[i] = "live"

QuietCall(c) ==
    /\ c.pc = "adding" => status[c.pkg] = "draft"
    /\ c.pc \in {"items", "commit"} =>
          c.made \cup c.todo = planned \cap ItemsOf(c.pkg) /\ c.refd = c.made
    /\ c.pc = "commit" => c.todo = {}
    /\ c.pc \in {"list_refs", "cancel"} => status[c.pkg] \in {"activated", "archived"}
    /\ c.pc = "cancel" => \A i \in ItemsOf(c.pkg) \ c.todo : ~InForce(i)

Together(c, d) == c.pc # "idle" /\ d.pc # "idle" /\ c.pkg = d.pkg

QuietApart(c, d) == Together(c, d) => c.pc # "adding" /\ d.pc # "adding"

QuietPackage(k) ==
    /\ status[k] \in {"activated", "archived"} => \A i \in ItemsOf(k) \cap planned : issued[i] = 1
    /\ status[k] = "activated" => \A i \in ItemsOf(k) : InForce(i) => i \in ref
    /\ status[k] = "archived" => \A i \in ItemsOf(k) : ~InForce(i)

Quiet ==
    /\ \A p \in Procs : QuietCall(call[p])
    /\ \A p, q \in Procs : p # q => QuietApart(call[p], call[q])
    /\ \A k \in Packages : QuietPackage(k)

QuietInv == ~LateEdits => Quiet

LEMMA QuietAtStart == Init => QuietInv
  <1> SUFFICES ASSUME Init PROVE Quiet
    BY DEF QuietInv
  <1>1. \A p \in Procs : call[p].pc = "idle"
    BY DEF Init, Idle
  <1>2. \A k \in Packages : status[k] = "draft"
    BY DEF Init
  <1> QED
    BY <1>1, <1>2 DEF Quiet, QuietCall, QuietApart, Together, QuietPackage

(* Only what was issued can be in force.                                   *)
LEMMA ForceIssued ==
  ASSUME PackageInv, NEW i \in Items, InForce(i)
  PROVE  issued[i] = 1
  <1>1. CASE i \in Programs
    <2>1. AirportOf[i] \in Airports /\ program[AirportOf[i]] = i
      BY <1>1, PackageAssumption DEF InForce
    <2> QED
      BY <2>1 DEF PackageInv, FromItem
  <1>2. CASE i \notin Programs
    <2>1. i \in Rows /\ row[i] = "live"
      BY <1>2 DEF InForce, Rows
    <2> QED
      BY <2>1 DEF PackageInv, RowTrue, Counted
  <1> QED
    BY <1>1, <1>2

LEMMA WorkOn ==
  ASSUME PackageInv, NEW p \in Procs
  PROVE  /\ call[p] \in Calls /\ (call[p].pc # "idle" => call[p].pkg \in Packages)
         /\ \A k \in Packages : call[p].pc # "idle" /\ call[p].pkg = k => p \in Working(k)
  <1>1. call[p] \in Calls
    BY DEF PackageInv, TypeInv, TypeOK
  <1> QED
    BY <1>1, CallFacts DEF Working

(* What holds when p's call goes on as c: the pairs.                       *)
LEMMA QuietPairs ==
  ASSUME PackageInv, Quiet, NEW p \in Procs, NEW c, Goto(p, c),
         \A q \in Procs \ {p} : QuietApart(c, call[q])
  PROVE  \A q, r \in Procs : q # r => QuietApart(call[q], call[r])'
  <1>1. call'[p] = c /\ \A q \in Procs \ {p} : call'[q] = call[q]
    BY Goes DEF PackageInv, TypeInv, TypeOK
  <1> SUFFICES ASSUME NEW q \in Procs, NEW r \in Procs, q # r
               PROVE  QuietApart(call[q], call[r])'
    OBVIOUS
  <1>2. CASE q = p
    BY <1>1, <1>2 DEF QuietApart, Together
  <1>3. CASE r = p
    BY <1>1, <1>3 DEF QuietApart, Together
  <1>4. CASE q # p /\ r # p
    BY <1>1, <1>4 DEF Quiet, QuietApart, Together
  <1> QED
    BY <1>2, <1>3, <1>4

LEMMA QuietMove ==
  ASSUME PackageInv, Quiet, NEW p \in Procs, NEW c, Goto(p, c),
         QuietCall(c), \A q \in Procs \ {p} : QuietApart(c, call[q]),
         UNCHANGED <<status, planned, ref, row, issued, program>>
  PROVE  Quiet'
  <1>1. call'[p] = c /\ \A q \in Procs \ {p} : call'[q] = call[q]
    BY Goes DEF PackageInv, TypeInv, TypeOK
  <1>2. ASSUME NEW q \in Procs PROVE QuietCall(call[q])'
    <2>1. QuietCall(call'[q])
      BY <1>1 DEF Quiet
    <2> QED
      BY <2>1 DEF QuietCall, InForce
  <1>3. ASSUME NEW k \in Packages PROVE QuietPackage(k)'
    BY DEF Quiet, QuietPackage, InForce
  <1>4. \A q, r \in Procs : q # r => QuietApart(call[q], call[r])'
    BY QuietPairs
  <1> QED
    BY <1>2, <1>3, <1>4 DEF Quiet

LEMMA QuietBegins ==
  ASSUME PackageInv, Quiet, ~LateEdits, NEW p \in Procs, NEW k \in Packages,
         AddItem(p, k) \/ BeginActivate(p, k) \/ BeginDeactivate(p, k)
  PROVE  Quiet'
  <1>1. PICK pc \in {"adding", "list", "list_refs"} :
           /\ Goto(p, [pc |-> pc, pkg |-> k])
           /\ pc = "adding" => status[k] = "draft" /\ Working(k) = {}
           /\ pc = "list" => \A q \in Working(k) : call[q].pc # "adding"
           /\ pc = "list_refs" => status[k] = "activated"
    BY DEF AddItem, BeginActivate, BeginDeactivate, MayEdit, MayStart, LateEdits
  <1> DEFINE c == [pc |-> pc, pkg |-> k]
  <1>2. c.pc = pc /\ c.pkg = k
    OBVIOUS
  <1>3. QuietCall(c)
    BY <1>1, <1>2 DEF QuietCall
  <1>4. ASSUME NEW q \in Procs \ {p} PROVE QuietApart(c, call[q])
    <2>1. QuietCall(call[q])
      BY DEF Quiet
    <2>2. call[q].pc # "idle" /\ call[q].pkg = k => q \in Working(k)
      BY WorkOn
    <2> QED
      BY <1>1, <1>2, <2>1, <2>2 DEF QuietApart, Together, QuietCall
  <1>5. Goto(p, c)
    BY <1>1
  <1>6. UNCHANGED <<status, planned, ref, row, issued, program>>
    BY DEF AddItem, BeginActivate, BeginDeactivate
  <1> HIDE DEF c
  <1> QED
    BY <1>3, <1>4, <1>5, <1>6, QuietMove

(* A call that goes on with its package meets no addition to it.           *)
LEMMA StillApart ==
  ASSUME Quiet, NEW p \in Procs, call[p].pc \notin {"idle", "adding"},
         NEW c, c.pc # "adding", c.pc # "idle" => c.pkg = call[p].pkg
  PROVE  \A q \in Procs \ {p} : QuietApart(c, call[q])
  BY DEF Quiet, QuietApart, Together

LEMMA QuietGoesOn ==
  ASSUME PackageInv, Quiet, NEW p \in Procs,
         ListItems(p) \/ ListRefs(p) \/ Materialize(p) \/ Mark(p) \/ Fail(p)
  PROVE  Quiet'
  <1>1. call[p] \in Calls /\ QuietCall(call[p])
    BY WorkOn DEF Quiet
  <1>2. PICK c : /\ Goto(p, c) /\ QuietCall(c) /\ c.pc # "adding"
                 /\ \A q \in Procs \ {p} : QuietApart(c, call[q])
    <2>1. CASE ListItems(p)
      <3> DEFINE c == [pc |-> "items", pkg |-> call[p].pkg, made |-> {}, refd |-> {},
                       todo |-> planned \cap ItemsOf(call[p].pkg)]
      <3>1. QuietCall(c) /\ c.pc = "items" /\ c.pkg = call[p].pkg
        BY DEF QuietCall
      <3>2. Goto(p, c) /\ call[p].pc = "list"
        BY <2>1 DEF ListItems
      <3> HIDE DEF c
      <3> QED
        BY <3>1, <3>2, StillApart
    <2>2. CASE ListRefs(p)
      <3> DEFINE c == [pc |-> "cancel", pkg |-> call[p].pkg, todo |-> ref \cap ItemsOf(call[p].pkg)]
      <3>1. Goto(p, c) /\ call[p].pc = "list_refs" /\ c.pc = "cancel" /\ c.pkg = call[p].pkg
        BY <2>2 DEF ListRefs
      <3>2. call[p].pkg \in Packages
        BY <3>1, WorkOn
      <3>3. status[c.pkg] \in {"activated", "archived"} /\ QuietPackage(c.pkg)
        BY <1>1, <3>1, <3>2 DEF QuietCall, Quiet
      <3>4. QuietCall(c)
        BY <3>1, <3>3 DEF QuietCall, QuietPackage
      <3> HIDE DEF c
      <3> QED
        BY <3>1, <3>4, StillApart
    <2>3. CASE Materialize(p)
      <3>1. call[p].pc = "items"
        BY <2>3 DEF Materialize
      <3>2. call[p] \in [pc : {"items", "commit"}, pkg : Packages, todo : SUBSET Items,
                         made : SUBSET Items, refd : SUBSET Items]
        BY <1>1, <3>1, CallFacts
      <3>3. PICK i \in First(call[p].todo) :
              Goto(p, [call[p] EXCEPT !.todo = @ \ {i}, !.made = @ \cup {i},
                                      !.refd = @ \cup Referenced(i)])
        BY <2>3 DEF Materialize
      <3> DEFINE c == [call[p] EXCEPT !.todo = @ \ {i}, !.made = @ \cup {i},
                                      !.refd = @ \cup Referenced(i)]
      <3>4. i \in call[p].todo /\ i \in planned /\ call[p].refd = call[p].made
        BY <1>1, <3>1, <3>3 DEF First, QuietCall
      <3>5. Referenced(i) = {i}
        BY <3>4 DEF Referenced
      <3>6. /\ c.pc = "items" /\ c.pkg = call[p].pkg /\ c.todo = call[p].todo \ {i}
            /\ c.made = call[p].made \cup {i} /\ c.refd = call[p].refd \cup {i}
        BY <3>1, <3>2, <3>5
      <3>7. Goto(p, c)
        BY <3>3
      <3> HIDE DEF c
      <3>8. c.made \cup c.todo = call[p].made \cup call[p].todo
        BY <3>4, <3>6
      <3>9. QuietCall(c)
        BY <1>1, <3>1, <3>4, <3>6, <3>8 DEF QuietCall
      <3> QED
        BY <3>1, <3>6, <3>7, <3>9, StillApart
    <2>4. CASE Mark(p)
      <3>1. call[p].pc = "items" /\ call[p].todo = {}
        BY <2>4 DEF Mark, AllMade
      <3>2. call[p] \in [pc : {"items", "commit"}, pkg : Packages, todo : SUBSET Items,
                         made : SUBSET Items, refd : SUBSET Items]
        BY <1>1, <3>1, CallFacts
      <3> DEFINE c == IF CanMark(call[p].pkg) THEN [call[p] EXCEPT !.pc = "commit"] ELSE Idle
      <3>3. Goto(p, c)
        BY <2>4 DEF Mark
      <3>4. QuietCall(c) /\ c.pc # "adding" /\ (c.pc # "idle" => c.pkg = call[p].pkg)
        BY <1>1, <3>1, <3>2 DEF QuietCall, Idle
      <3> HIDE DEF c
      <3> QED
        BY <3>1, <3>3, <3>4, StillApart
    <2>5. CASE Fail(p)
      <3>1. Goto(p, Idle) /\ QuietCall(Idle) /\ \A q \in Procs : QuietApart(Idle, call[q])
        BY <2>5 DEF Fail, QuietCall, QuietApart, Together, Idle
      <3> QED
        BY <3>1 DEF Idle
    <2> QED
      BY <2>1, <2>2, <2>3, <2>4, <2>5
  <1>3. UNCHANGED <<status, planned, ref, row, issued, program>>
    BY DEF ListItems, ListRefs, Materialize, Mark, Fail
  <1> QED
    BY <1>2, <1>3, QuietMove

(* The other calls, when p's step changes the database: each keeps what it *)
(* knows of its package.                                                   *)
LEMMA QuietOthers ==
  ASSUME PackageInv, Quiet, NEW q \in Procs, call[q].pc # "idle", call'[q] = call[q],
         call[q].pc \in {"items", "commit"} =>
            planned' \cap ItemsOf(call[q].pkg) = planned \cap ItemsOf(call[q].pkg),
         call[q].pc = "adding" => status'[call[q].pkg] = "draft",
         call[q].pc \in {"list_refs", "cancel"} => status'[call[q].pkg] \in {"activated", "archived"},
         call[q].pc = "cancel" => \A i \in ItemsOf(call[q].pkg) : InForce(i)' => InForce(i)
  PROVE  QuietCall(call[q])'
  <1>1. QuietCall(call[q])
    BY DEF Quiet
  <1> QED
    BY <1>1 DEF QuietCall

LEMMA QuietInsert ==
  ASSUME PackageInv, Quiet, NEW p \in Procs, InsertItem(p)
  PROVE  Quiet'
  <1> DEFINE k == call[p].pkg
  <1>1. /\ call[p].pc = "adding" /\ k \in Packages /\ status[k] = "draft" /\ Goto(p, Idle)
        /\ UNCHANGED <<status, ref, row, issued, program>>
    BY WorkOn DEF InsertItem, Quiet, QuietCall
  <1>2. planned \subseteq planned' /\ planned' \ planned \subseteq ItemsOf(k)
    BY DEF InsertItem, First, NewItems
  <1>3. \A q \in Procs \ {p} : call[q].pc # "idle" => call[q].pkg # k
    BY <1>1 DEF Quiet, QuietApart, Together
  <1>4. call'[p] = Idle /\ \A q \in Procs \ {p} : call'[q] = call[q]
    BY <1>1, Goes DEF PackageInv, TypeInv, TypeOK
  <1>5. \A i \in Items : InForce(i)' <=> InForce(i)
    BY <1>1 DEF InForce
  <1>6. \A l \in Packages \ {k} : planned' \cap ItemsOf(l) = planned \cap ItemsOf(l)
    BY <1>2 DEF ItemsOf
  <1>7. ASSUME NEW q \in Procs PROVE QuietCall(call[q])'
    <2>1. CASE call'[q].pc = "idle"
      BY <2>1 DEF QuietCall
    <2>2. CASE call'[q].pc # "idle"
      <3>1. q # p /\ call'[q] = call[q] /\ call[q].pc # "idle"
        BY <1>4, <2>2 DEF Idle
      <3>2. call[q].pkg \in Packages \ {k} /\ QuietCall(call[q])
        BY <1>3, <3>1, WorkOn DEF Quiet
      <3>3. planned' \cap ItemsOf(call[q].pkg) = planned \cap ItemsOf(call[q].pkg)
        BY <1>6, <3>2
      <3>4. \A i \in ItemsOf(call[q].pkg) : InForce(i)' => InForce(i)
        BY <1>5 DEF ItemsOf
      <3> QED
        BY <1>1, <3>1, <3>2, <3>3, <3>4, QuietOthers DEF QuietCall
    <2> QED
      BY <2>1, <2>2
  <1>8. \A q, r \in Procs : q # r => QuietApart(call[q], call[r])'
    BY <1>1, QuietPairs DEF QuietApart, Together, Idle
  <1>9. ASSUME NEW l \in Packages PROVE QuietPackage(l)'
    <2>1. QuietPackage(l) /\ ItemsOf(l) \subseteq Items
      BY DEF Quiet, ItemsOf
    <2>2. CASE l = k
      BY <1>1, <2>2 DEF QuietPackage
    <2>3. CASE l # k
      BY <1>1, <1>5, <1>6, <2>1, <2>3 DEF QuietPackage
    <2> QED
      BY <2>2, <2>3
  <1> QED
    BY <1>7, <1>8, <1>9 DEF Quiet

(* A deletion concerns a draft nobody works on.                            *)
LEMMA QuietDelete ==
  ASSUME PackageInv, Quiet, ~LateEdits, NEW k \in Packages,
         DeletePackage(k) \/ \E i \in Items : PackageOf[i] = k /\ DeleteItem(i)
  PROVE  Quiet'
  <1>1. status[k] = "draft" /\ Working(k) = {}
    BY DEF DeletePackage, DeleteItem, MayEdit, LateEdits
  <1>2. /\ status'[k] \in {"draft", "deleted"}
        /\ \A l \in Packages \ {k} : status'[l] = status[l]
        /\ UNCHANGED <<row, issued, program, call>>
        /\ \A l \in Packages \ {k} : /\ planned' \cap ItemsOf(l) = planned \cap ItemsOf(l)
                                     /\ ref' \cap ItemsOf(l) = ref \cap ItemsOf(l)
    <2>1. status \in [Packages -> {"draft", "activated", "archived", "deleted"}]
      BY DEF PackageInv, TypeInv, TypeOK
    <2>2. CASE DeletePackage(k)
      BY <2>1, <2>2 DEF DeletePackage, ItemsOf
    <2>3. CASE \E i \in Items : PackageOf[i] = k /\ DeleteItem(i)
      BY <1>1, <2>3 DEF DeleteItem, ItemsOf
    <2> QED
      BY <2>2, <2>3
  <1>3. \A i \in Items : InForce(i)' <=> InForce(i)
    BY <1>2 DEF InForce
  <1>4. ASSUME NEW q \in Procs PROVE QuietCall(call[q])'
    <2>1. CASE call[q].pc = "idle"
      BY <1>2, <2>1 DEF QuietCall
    <2>2. CASE call[q].pc # "idle"
      <3>1. call[q].pkg \in Packages \ {k} /\ QuietCall(call[q])
        BY <1>1, <2>2, WorkOn DEF Quiet
      <3>2. \A i \in ItemsOf(call[q].pkg) : InForce(i)' => InForce(i)
        BY <1>3 DEF ItemsOf
      <3>3. status'[call[q].pkg] = status[call[q].pkg]
        BY <1>2, <3>1
      <3> QED
        BY <1>2, <2>2, <3>1, <3>2, <3>3, QuietOthers DEF QuietCall
    <2> QED
      BY <2>1, <2>2
  <1>5. ASSUME NEW l \in Packages PROVE QuietPackage(l)'
    <2>1. QuietPackage(l) /\ ItemsOf(l) \subseteq Items
      BY DEF Quiet, ItemsOf
    <2>2. CASE l = k
      BY <1>2, <2>2 DEF QuietPackage
    <2>3. CASE l # k
      BY <1>2, <1>3, <2>1, <2>3 DEF QuietPackage
    <2> QED
      BY <2>2, <2>3
  <1> QED
    BY <1>2, <1>4, <1>5 DEF Quiet, QuietApart, Together

LEMMA QuietCommit ==
  ASSUME PackageInv, Quiet, NEW p \in Procs, Commit(p)
  PROVE  Quiet'
  <1> DEFINE k == call[p].pkg
             made == call[p].made
  <1>1. /\ call[p].pc = "commit" /\ k \in Packages /\ status[k] = "draft"
        /\ made = planned \cap ItemsOf(k) /\ call[p].refd = made
    BY WorkOn DEF Commit, Quiet, QuietCall, PackageInv, Sound
  <1>2. /\ status' = [status EXCEPT ![k] = "activated"]
        /\ ref' = ref \cup made
        /\ row' = [i \in Rows |-> IF i \in made THEN "live" ELSE row[i]]
        /\ issued' = [i \in Items |-> IF i \in made THEN issued[i] + 1 ELSE issued[i]]
        /\ \A a \in Airports :
              IF MadeFor(p, a) = {} THEN program'[a] = program[a] ELSE program'[a] \in MadeFor(p, a)
        /\ Goto(p, Idle) /\ planned' = planned
    BY <1>1 DEF Commit
  <1>3. /\ status \in [Packages -> {"draft", "activated", "archived", "deleted"}]
        /\ planned \subseteq Items
    BY DEF PackageInv, TypeInv, TypeOK
  <1>4. call'[p] = Idle /\ \A q \in Procs \ {p} : call'[q] = call[q]
    BY <1>2, Goes DEF PackageInv, TypeInv, TypeOK
  <1>5. ASSUME NEW i \in Items, i \notin made, InForce(i)' PROVE InForce(i)
    <2>1. CASE i \in Programs
      <3>1. AirportOf[i] \in Airports /\ program'[AirportOf[i]] = i
        BY <1>5, <2>1, PackageAssumption DEF InForce
      <3>2. i \notin MadeFor(p, AirportOf[i])
        BY <1>5 DEF MadeFor
      <3> QED
        BY <1>2, <2>1, <3>1, <3>2 DEF InForce
    <2>2. CASE i \notin Programs
      BY <1>2, <1>5, <2>2 DEF InForce, Rows
    <2> QED
      BY <2>1, <2>2
  <1>6. \A i \in Items : PackageOf[i] = k => issued[i] = 0 /\ ~InForce(i)
    BY <1>1, ForceIssued DEF PackageInv, Counted
  <1>7. ASSUME NEW q \in Procs PROVE QuietCall(call[q])'
    <2>1. CASE call'[q].pc = "idle"
      BY <2>1 DEF QuietCall
    <2>2. CASE call'[q].pc # "idle"
      <3>1. q # p /\ call'[q] = call[q] /\ call[q].pc # "idle"
        BY <1>4, <2>2 DEF Idle
      <3>2. call[q].pkg \in Packages /\ QuietCall(call[q]) /\ QuietApart(call[p], call[q])
        BY <3>1, WorkOn DEF Quiet
      <3>3. call[q].pkg = k => call[q].pc \notin {"adding", "list_refs", "cancel"}
        BY <1>1, <3>1, <3>2 DEF QuietCall, QuietApart, Together
      <3>4. call[q].pkg # k => status'[call[q].pkg] = status[call[q].pkg]
        BY <1>2, <1>3, <3>2
      <3>5. call[q].pkg # k => \A i \in ItemsOf(call[q].pkg) : InForce(i)' => InForce(i)
        BY <1>1, <1>5 DEF ItemsOf
      <3> QED
        BY <1>2, <3>1, <3>2, <3>3, <3>4, <3>5, QuietOthers DEF QuietCall
    <2> QED
      BY <2>1, <2>2
  <1>8. \A q, r \in Procs : q # r => QuietApart(call[q], call[r])'
    BY <1>2, QuietPairs DEF QuietApart, Together, Idle
  <1>9. ASSUME NEW l \in Packages PROVE QuietPackage(l)'
    <2>1. CASE l = k
      <3>1. status'[k] = "activated"
        BY <1>1, <1>2, <1>3
      <3>2. \A i \in ItemsOf(k) \cap planned' : issued'[i] = 1
        BY <1>1, <1>2, <1>6 DEF ItemsOf
      <3>3. \A i \in ItemsOf(k) : InForce(i)' => i \in ref'
        BY <1>2, <1>5, <1>6 DEF ItemsOf
      <3> QED
        BY <2>1, <3>1, <3>2, <3>3 DEF QuietPackage
    <2>2. CASE l # k
      <3>1. status'[l] = status[l] /\ QuietPackage(l)
        BY <1>2, <1>3, <2>2 DEF Quiet
      <3>2. \A i \in ItemsOf(l) : i \in Items /\ i \notin made
        BY <1>1, <2>2 DEF ItemsOf
      <3>3. \A i \in ItemsOf(l) : (InForce(i)' => InForce(i)) /\ issued'[i] = issued[i]
        BY <1>2, <1>5, <3>2
      <3> QED
        BY <1>2, <3>1, <3>3 DEF QuietPackage
    <2> QED
      BY <2>1, <2>2
  <1> QED
    BY <1>7, <1>8, <1>9 DEF Quiet

(* Steps after which nothing new is in force, and that change no status.   *)
LEMMA QuietWithdraws ==
  ASSUME Quiet, UNCHANGED <<status, planned, ref, issued>>,
         \A i \in Items : InForce(i)' => InForce(i)
  PROVE  \A k \in Packages : QuietPackage(k)'
  BY DEF Quiet, QuietPackage, ItemsOf

LEMMA QuietCancelItem ==
  ASSUME PackageInv, Quiet, NEW p \in Procs, CancelItem(p)
  PROVE  Quiet'
  <1>1. call[p] \in Calls /\ call[p].pc = "cancel" /\ QuietCall(call[p])
    BY WorkOn DEF CancelItem, Quiet
  <1>2. call[p] \in [pc : {"cancel"}, pkg : Packages, todo : SUBSET Items]
    BY <1>1, CallFacts
  <1>3. PICK i \in First(call[p].todo) :
        /\ Goto(p, [call[p] EXCEPT !.todo = @ \ {i}])
        /\ IF i \in Programs
           THEN /\ program' = [program EXCEPT ![AirportOf[i]] = NoItem]
                /\ UNCHANGED <<row, corrected>>
           ELSE EndRow(i) /\ Correct(i) /\ UNCHANGED program
    BY DEF CancelItem
  <1> DEFINE c == [call[p] EXCEPT !.todo = @ \ {i}]
  <1>4. c.pc = "cancel" /\ c.pkg = call[p].pkg /\ c.todo = call[p].todo \ {i} /\ Goto(p, c)
    BY <1>2, <1>3
  <1>5. UNCHANGED <<status, planned, ref, issued>>
    BY DEF CancelItem
  <1> HIDE DEF c
  <1>6. call'[p] = c /\ \A q \in Procs \ {p} : call'[q] = call[q]
    BY <1>4, Goes DEF PackageInv, TypeInv, TypeOK
  <1>7. i \in Items
    BY <1>2 DEF First
  <1>8. /\ row \in [Rows -> {"none", "live", "ended"}]
        /\ program \in [Airports -> Items \cup {NoItem, Staff}]
        /\ \A j \in Items : AirportOf[j] \in Airports /\ j # NoItem
    BY PackageAssumption DEF PackageInv, TypeInv, TypeOK
  <1>9. \A j \in Items : InForce(j)' => InForce(j)
    <2>1. CASE i \in Programs
      BY <1>3, <1>8, <2>1 DEF InForce
    <2>2. CASE i \notin Programs
      BY <1>3, <1>8, <2>2 DEF InForce, EndRow, Rows
    <2> QED
      BY <2>1, <2>2
  <1>10. ~InForce(i)'
    <2>1. CASE i \in Programs
      BY <1>3, <1>7, <1>8, <2>1 DEF InForce
    <2>2. CASE i \notin Programs
      BY <1>3, <1>7, <1>8, <2>2 DEF InForce, EndRow, Rows
    <2> QED
      BY <2>1, <2>2
  <1>11. ASSUME NEW q \in Procs PROVE QuietCall(call[q])'
    <2>1. CASE q = p
      <3>1. status'[c.pkg] \in {"activated", "archived"}
        BY <1>1, <1>4, <1>5 DEF QuietCall
      <3>2. \A j \in ItemsOf(c.pkg) \ c.todo : ~InForce(j)'
        BY <1>1, <1>4, <1>9, <1>10 DEF QuietCall, ItemsOf
      <3> QED
        BY <1>4, <1>6, <2>1, <3>1, <3>2 DEF QuietCall
    <2>2. CASE q # p /\ call[q].pc = "idle"
      BY <1>6, <2>2 DEF QuietCall
    <2>3. CASE q # p /\ call[q].pc # "idle"
      <3>1. \A j \in ItemsOf(call[q].pkg) : InForce(j)' => InForce(j)
        BY <1>9 DEF ItemsOf
      <3>2. QuietCall(call[q])
        BY DEF Quiet
      <3> QED
        BY <1>5, <1>6, <2>3, <3>1, <3>2, QuietOthers DEF QuietCall
    <2> QED
      BY <2>1, <2>2, <2>3
  <1>12. \A q, r \in Procs : q # r => QuietApart(call[q], call[r])'
    <2>1. \A q \in Procs \ {p} : QuietApart(c, call[q])
      BY <1>1, <1>4, StillApart
    <2> QED
      BY <1>4, <2>1, QuietPairs
  <1> QED
    BY <1>5, <1>9, <1>11, <1>12, QuietWithdraws DEF Quiet

LEMMA QuietArchive ==
  ASSUME PackageInv, Quiet, NEW p \in Procs, Archive(p)
  PROVE  Quiet'
  <1> DEFINE k == call[p].pkg
  <1>1. /\ call[p].pc = "cancel" /\ call[p].todo = {} /\ k \in Packages
        /\ QuietCall(call[p]) /\ QuietPackage(k)
    BY WorkOn DEF Archive, Archivable, Quiet
  <1>2. status[k] \in {"activated", "archived"} /\ \A i \in ItemsOf(k) : ~InForce(i)
    BY <1>1 DEF QuietCall
  <1>3. /\ Goto(p, Idle) /\ PackageFree(k, Others(p)) /\ ref' = ref \ ItemsOf(k)
        /\ status' = [status EXCEPT ![k] = IF @ = "deleted" THEN @ ELSE "archived"]
        /\ UNCHANGED <<planned, row, issued, program>>
    BY DEF Archive
  <1>4. /\ status'[k] = "archived"
        /\ \A l \in Packages \ {k} : status'[l] = status[l]
    BY <1>1, <1>2, <1>3 DEF PackageInv, TypeInv, TypeOK
  <1>5. call'[p] = Idle /\ \A q \in Procs \ {p} : call'[q] = call[q]
    BY <1>3, Goes DEF PackageInv, TypeInv, TypeOK
  <1>6. \A i \in Items : InForce(i)' <=> InForce(i)
    BY <1>3 DEF InForce
  <1>7. ASSUME NEW q \in Procs PROVE QuietCall(call[q])'
    <2>1. CASE call'[q].pc = "idle"
      BY <2>1 DEF QuietCall
    <2>2. CASE call'[q].pc # "idle"
      <3>1. q # p /\ call'[q] = call[q] /\ call[q].pc # "idle"
        BY <1>5, <2>2 DEF Idle
      <3>2. call[q].pkg \in Packages /\ QuietCall(call[q]) /\ QuietApart(call[p], call[q])
        BY <3>1, WorkOn DEF Quiet
      <3>3. call[q].pkg = k => call[q].pc # "adding"
        BY <1>1, <3>1, <3>2 DEF QuietApart, Together
      <3>4. status'[call[q].pkg] = IF call[q].pkg = k THEN "archived" ELSE status[call[q].pkg]
        BY <1>4, <3>2
      <3>5. \A i \in ItemsOf(call[q].pkg) : InForce(i)' => InForce(i)
        BY <1>6 DEF ItemsOf
      <3> QED
        BY <1>3, <3>1, <3>2, <3>3, <3>4, <3>5, QuietOthers DEF QuietCall
    <2> QED
      BY <2>1, <2>2
  <1>8. \A q, r \in Procs : q # r => QuietApart(call[q], call[r])'
    BY <1>3, QuietPairs DEF QuietApart, Together, Idle
  <1>9. ASSUME NEW l \in Packages PROVE QuietPackage(l)'
    <2>1. QuietPackage(l) /\ ItemsOf(l) \subseteq Items
      BY DEF Quiet, ItemsOf
    <2>2. CASE l = k
      BY <1>1, <1>2, <1>3, <1>4, <1>6, <2>1, <2>2 DEF QuietPackage
    <2>3. CASE l # k
      <3>1. \A i \in ItemsOf(l) : i \in ref => i \in ref'
        BY <1>3, <2>3 DEF ItemsOf
      <3> QED
        BY <1>3, <1>4, <1>6, <2>1, <2>3, <3>1 DEF QuietPackage
    <2> QED
      BY <2>2, <2>3
  <1> QED
    BY <1>7, <1>8, <1>9 DEF Quiet

LEMMA QuietElsewhere ==
  ASSUME PackageInv, Quiet, Elsewhere
  PROVE  Quiet'
  <1>1. UNCHANGED <<status, planned, ref, issued, call>>
    BY DEF Elsewhere, SetAuto, StaffProgram, DropProgram, StaffCancel, Expire, Recover, Tick
  <1>2. /\ row \in [Rows -> {"none", "live", "ended"}]
        /\ program \in [Airports -> Items \cup {NoItem, Staff}]
        /\ \A j \in Items : AirportOf[j] \in Airports /\ j \notin {NoItem, Staff}
    BY PackageAssumption DEF PackageInv, TypeInv, TypeOK
  <1>3. \A a \in Airports : program'[a] = program[a] \/ program'[a] \in {NoItem, Staff}
    BY <1>2 DEF Elsewhere, SetAuto, StaffProgram, DropProgram, StaffCancel, Expire, Recover, Tick
  <1>4. \A i \in Rows : row'[i] = "live" => row[i] = "live"
    BY <1>2 DEF Elsewhere, SetAuto, StaffProgram, DropProgram, StaffCancel, Expire, Recover, Tick,
                EndRow
  <1>5. \A i \in Items : InForce(i)' => InForce(i)
    BY <1>2, <1>3, <1>4 DEF InForce, Rows
  <1>6. ASSUME NEW q \in Procs PROVE QuietCall(call[q])'
    <2>1. QuietCall(call[q])
      BY DEF Quiet
    <2>2. CASE call[q].pc = "idle"
      BY <1>1, <2>2 DEF QuietCall
    <2>3. CASE call[q].pc # "idle"
      <3>1. \A i \in ItemsOf(call[q].pkg) : InForce(i)' => InForce(i)
        BY <1>5 DEF ItemsOf
      <3> QED
        BY <1>1, <2>1, <2>3, <3>1, QuietOthers DEF QuietCall
    <2> QED
      BY <2>2, <2>3
  <1> QED
    BY <1>1, <1>5, <1>6, QuietWithdraws DEF Quiet, QuietApart, Together

(* Nobody starts to edit late: of the environment only failures end.       *)
LEMMA EnvStays ==
  ASSUME Next
  PROVE  LateEdits' <=> LateEdits
  <1>1. env' = env \/ env' = env \ {"fail", "recovers"}
    BY DEF Next, Steps, Fail, AddItem, BeginActivate, AutoActivate, BeginDeactivate, AutoArchive,
           DeleteItem, DeletePackage, SetAuto, StaffProgram, DropProgram, StaffCancel, Expire,
           Recover, Tick, InsertItem, ListItems, Materialize, Mark, Commit, ListRefs, CancelItem,
           Archive
  <1> QED
    BY <1>1 DEF LateEdits

LEMMA QuietStep == PackageInv /\ QuietInv /\ [Next]_vars => QuietInv'
  <1>1. ASSUME QuietInv, UNCHANGED vars PROVE QuietInv'
    BY <1>1 DEF QuietInv, vars, Quiet, QuietCall, QuietApart, Together, QuietPackage, InForce,
                LateEdits
  <1>2. ASSUME PackageInv, QuietInv, Next, ~LateEdits' PROVE Quiet'
    <2>1. Quiet /\ ~LateEdits
      BY <1>2, EnvStays DEF QuietInv
    <2>2. ASSUME NEW i \in Items, DeleteItem(i) PROVE Quiet'
      <3>1. PackageOf[i] \in Packages
        BY PackageAssumption
      <3> QED
        BY <1>2, <2>1, <2>2, <3>1, QuietDelete
    <2> QED
      BY <1>2, <2>1, <2>2, StepKinds, QuietBegins, QuietGoesOn, QuietInsert, QuietDelete,
         QuietCommit, QuietCancelItem, QuietArchive, QuietElsewhere
  <1> QED
    BY <1>1, <1>2 DEF QuietInv

LEMMA QuietAlways == Spec => []QuietInv
  <1> QED
    BY QuietAtStart, QuietStep, PackageAlways, PTL DEF Spec

(* A package goes live as a whole or not at all.                           *)
THEOREM AllOrNothingEver == Spec => []AllOrNothing
  <1>1. PackageInv /\ QuietInv => AllOrNothing
    <2> SUFFICES ASSUME PackageInv, QuietInv, NEW k \in Packages
                 PROVE  /\ status[k] = "draft" => \A i \in ItemsOf(k) : issued[i] = 0
                        /\ status[k] \in {"activated", "archived"} /\ ~LateEdits =>
                             \A i \in ItemsOf(k) \cap planned : issued[i] = 1
      BY DEF AllOrNothing
    <2>1. status[k] = "draft" => \A i \in ItemsOf(k) : issued[i] = 0
      BY DEF PackageInv, Counted, ItemsOf
    <2>2. ~LateEdits => QuietPackage(k)
      BY DEF QuietInv, Quiet
    <2> QED
      BY <2>1, <2>2 DEF QuietPackage
  <1> QED
    BY <1>1, PackageAlways, QuietAlways, PTL

(* An archived package has nothing left in force.                          *)
THEOREM WithdrawnEver == Spec => []Withdrawn
  <1>1. PackageInv /\ QuietInv => Withdrawn
    <2> SUFFICES ASSUME PackageInv, QuietInv, NEW k \in Packages, status[k] = "archived", ~LateEdits
                 PROVE  /\ \A i \in ItemsOf(k) \cap Rows : row[i] # "live"
                        /\ \A a \in Airports : program[a] \notin ItemsOf(k)
      BY DEF Withdrawn
    <2>1. \A i \in ItemsOf(k) : ~InForce(i)
      BY DEF QuietInv, Quiet, QuietPackage
    <2>2. \A i \in ItemsOf(k) \cap Rows : row[i] # "live"
      BY <2>1 DEF InForce, Rows
    <2>3. ASSUME NEW a \in Airports, program[a] \in ItemsOf(k) PROVE FALSE
      <3>1. program[a] \in Programs /\ AirportOf[program[a]] = a
        BY <2>3 DEF PackageInv, FromItem, ItemsOf
      <3> QED
        BY <2>1, <2>3, <3>1 DEF InForce
    <2> QED
      BY <2>2, <2>3
  <1> QED
    BY <1>1, PackageAlways, QuietAlways, PTL
=============================================================================
