--------------------------- MODULE OperatorProofs ---------------------------
(***************************************************************************)
(* Proofs about Operator, for every set of processes and specs, every last *)
(* version of the channel, every set of faults and every kind of drift the *)
(* constants allow.                                                        *)
(***************************************************************************)
EXTENDS OperatorInvariant, ManagedProofs

USE OperatorAssumption

-----------------------------------------------------------------------------
(* The steps of a reconcile that touch the copy at most in its ready field *)

OwnStep(p, o) ==
  \/ Connect(p, o) \/ ObserveManifest(p, o) \/ CheckCSV(p, o) \/ Publish(p, o)
  \/ CreateOperator(p, o) \/ DeleteManifest(p, o) \/ DeleteCSV(p, o)
  \/ DeleteSubscription(p, o)

OwnLabels == Labels \ {"idle", "addFinalizer", "finalize", "updateStatus"}

(***************************************************************************)
(* Where such a step starts and where it can lead.                         *)
(***************************************************************************)
LEMMA OwnStepFrame ==
  ASSUME ManagedTypeOK, NEW p \in Procs, NEW o, OwnStep(p, o)
  PROVE  /\ ManagedTypeOK'
         /\ pc[p] \in OwnLabels
         /\ pc'[p] \in Labels \ {"idle"}
         /\ pc'[p] = "finalize" => managed[p].deleting
         /\ resource' = resource /\ leader' = leader /\ catalog' = catalog
         /\ managed'[p].deleting = managed[p].deleting
         /\ managed'[p].finalizer = managed[p].finalizer
         /\ managed'[p].spec = managed[p].spec
         /\ managed'[p].version = managed[p].version
         /\ \A q \in Procs \ {p} : pc'[q] = pc[q] /\ managed'[q] = managed[q]
<1> USE DEF Labels, OwnLabels, ReconcileLabels, DeleteLabels, Continue
<1>1. CASE CheckCSV(p, o)
  <2> DEFINE updated == o = "ok" /\ phase[csv[p]] # "absent" /\ phase[csv[p]] = "succeeded"
             copy == [managed[p] EXCEPT !.ready = @ \/ updated]
  <2>1. /\ resource' = resource /\ leader' = leader /\ catalog' = catalog
        /\ pc[p] = "checkCSV"
        /\ managed' = [managed EXCEPT ![p] = copy]
    BY <1>1 DEF CheckCSV, clusterVars
  <2>2. PICK l \in {"publishObserved", "finalize", "deleteManifest"} :
          Goto(p, l) /\ (l = "finalize" => managed[p].deleting)
    BY <1>1 DEF CheckCSV, Observed
  <2>3. managed[p] \in Copy
    BY DEF ManagedTypeOK
  <2>4. copy = [deleting |-> managed[p].deleting, finalizer |-> managed[p].finalizer,
                ready |-> managed[p].ready \/ updated, spec |-> managed[p].spec,
                version |-> managed[p].version]
    BY <2>3, ReadyCopyFields
  <2> HIDE DEF copy
  <2>5. copy \in Copy
    BY <2>3, <2>4, CopyFields DEF Copy
  <2>6. managed'[p] = copy /\ \A q \in Procs \ {p} : managed'[q] = managed[q]
    BY <2>1 DEF ManagedTypeOK
  <2>7. ManagedTypeOK'
    BY <2>1, <2>2, <2>5, GotoStep DEF ManagedTypeOK
  <2> QED
    BY <2>1, <2>2, <2>4, <2>6, <2>7, GotoStep
<1>2. CASE ~CheckCSV(p, o)
  <2>1. UNCHANGED <<resource, managed, leader, catalog>>
    BY <1>2 DEF OwnStep, Connect, ObserveManifest, Publish, CreateOperator,
       DeleteManifest, DeleteCSV, DeleteSubscription, clusterVars
  <2>2. /\ pc[p] \in OwnLabels
        /\ \E l \in Labels \ {"idle"} :
             Goto(p, l) /\ (l = "finalize" => managed[p].deleting)
    <3>1. CASE Connect(p, o) \/ ObserveManifest(p, o)
      BY <3>1 DEF Connect, ObserveManifest, Observed
    <3>2. CASE Publish(p, o) \/ CreateOperator(p, o)
      BY <3>2 DEF Publish, CreateOperator
    <3>3. CASE DeleteManifest(p, o) \/ DeleteCSV(p, o) \/ DeleteSubscription(p, o)
      BY <3>3 DEF DeleteManifest, DeleteCSV, DeleteSubscription
    <3> QED
      BY <1>2, <3>1, <3>2, <3>3 DEF OwnStep
  <2> QED
    BY <2>1, <2>2, GotoStep DEF ManagedTypeOK
<1> QED
  BY <1>1, <1>2

-----------------------------------------------------------------------------
(* Type correctness *)

ClusterTypeOK ==
  /\ subscription \in [exists : BOOLEAN, installed : Versions \cup {None}]
  /\ phase \in [Versions -> {"absent", "installing", "succeeded"}]
  /\ catalog \in [lists : {"nothing", "package", "channel"}, head : Versions]

LocalTypeOK ==
  /\ observed \in [Procs -> {"unknown", "absent", "progressing", "ready"}]
  /\ csv \in [Procs -> Versions \cup {None}]

LEMMA TypeParts ==
  TypeOK <=> ManagedTypeOK /\ pc \in [Procs -> Labels] /\ ClusterTypeOK /\ LocalTypeOK
BY DEF TypeOK, ClusterTypeOK, LocalTypeOK

LEMMA TypePartsNext ==
  TypeOK' <=> /\ ManagedTypeOK' /\ pc' \in [Procs -> Labels]
              /\ ClusterTypeOK' /\ LocalTypeOK'
BY DEF TypeOK, ClusterTypeOK, LocalTypeOK

LEMMA TypeInit == Init => TypeOK /\ SpecInv /\ CSVInv
<1> SUFFICES ASSUME Init PROVE TypeOK /\ SpecInv /\ CSVInv
  OBVIOUS
<1>1. ManagedTypeOK
  BY NoCopyType DEF Init, ManagedInit, ManagedTypeOK
<1>2. pc \in [Procs -> Labels]
  BY DEF Init, ManagedInit, Labels
<1>3. 1 \in Versions
  BY DEF Versions
<1>4. ClusterTypeOK /\ LocalTypeOK
  BY <1>3 DEF Init, ClusterTypeOK, LocalTypeOK, NoSubscription
<1>5. SpecInv
  BY DEF Init, ManagedInit, SpecInv, Busy, NoResource
<1>6. CSVInv
  BY DEF Init, ManagedInit, CSVInv
<1> QED
  BY <1>1, <1>2, <1>4, <1>5, <1>6, TypeParts

(***************************************************************************)
(* What the catalog is asked for is a version it lists, or None.           *)
(***************************************************************************)
LEMMA ManifestType ==
  ASSUME ClusterTypeOK
  PROVE  /\ ParsePackageManifest \in Versions \cup {None}
         /\ ParsePackageManifest # None => ParsePackageManifest \in Versions
BY DEF ParsePackageManifest, ClusterTypeOK

(***************************************************************************)
(* The own steps of the controller keep the cluster's objects well typed,  *)
(* and ask for a CSV only once they have read which one.                   *)
(***************************************************************************)
LEMMA OwnType ==
  ASSUME TypeOK, CSVInv, NEW p \in Procs, NEW o, OwnStep(p, o)
  PROVE  ClusterTypeOK' /\ LocalTypeOK' /\ CSVInv'
<1>1. ManagedTypeOK /\ ClusterTypeOK /\ LocalTypeOK
  BY TypeParts
<1>2. \A q \in Procs \ {p} : pc'[q] = pc[q]
  BY <1>1, OwnStepFrame
<1> USE DEF Continue, clusterVars, localVars
<1>3. ASSUME UNCHANGED csv, pc'[p] \notin {"checkCSV", "deleteCSV"}
      PROVE  CSVInv'
  BY <1>2, <1>3 DEF CSVInv
<1>4. ASSUME NEW v \in Versions \cup {None}, csv' = [csv EXCEPT ![p] = v],
             pc'[p] \in {"checkCSV", "deleteCSV"} => v \in Versions
      PROVE  CSVInv' /\ csv' \in [Procs -> Versions \cup {None}]
  BY <1>1, <1>2, <1>4 DEF CSVInv, LocalTypeOK
<1>5. CASE Connect(p, o)
  BY <1>1, <1>3, <1>5, GotoStep DEF Connect, ClusterTypeOK, LocalTypeOK
<1>6. CASE ObserveManifest(p, o)
  <2> DEFINE v == IF GetPackageManifest(o) THEN ParsePackageManifest ELSE None
  <2>1. v \in Versions \cup {None} /\ csv' = [csv EXCEPT ![p] = v]
        /\ UNCHANGED clusterVars
    BY <1>1, <1>6, ManifestType DEF ObserveManifest
  <2>2. pc'[p] \in {"checkCSV", "deleteCSV"} => v \in Versions
    BY <1>1, <1>6, GotoStep, ManifestType DEF ObserveManifest, Observed
  <2>3. observed' \in [Procs -> {"unknown", "absent", "progressing", "ready"}]
    BY <1>1, <1>6 DEF ObserveManifest, Observed, LocalTypeOK
  <2> HIDE DEF v
  <2>4. ClusterTypeOK'
    BY <1>1, <2>1 DEF ClusterTypeOK
  <2> QED
    BY <1>4, <2>1, <2>2, <2>3, <2>4 DEF LocalTypeOK
<1>7. CASE CheckCSV(p, o)
  <2>1. UNCHANGED <<clusterVars, csv>>
    BY <1>7 DEF CheckCSV
  <2>2. observed' \in [Procs -> {"unknown", "absent", "progressing", "ready"}]
        /\ pc'[p] \notin {"checkCSV", "deleteCSV"}
    BY <1>1, <1>7, GotoStep DEF CheckCSV, Observed, LocalTypeOK
  <2> QED
    BY <1>1, <1>3, <2>1, <2>2 DEF ClusterTypeOK, LocalTypeOK
<1>8. CASE Publish(p, o)
  BY <1>1, <1>3, <1>8, GotoStep DEF Publish, ClusterTypeOK, LocalTypeOK
<1>9. CASE CreateOperator(p, o)
  <2>1. subscription' \in [exists : BOOLEAN, installed : Versions \cup {None}]
    BY <1>1, <1>9 DEF CreateOperator, NewSubscription, ClusterTypeOK
  <2>2. UNCHANGED <<phase, catalog, localVars>> /\ pc'[p] \notin {"checkCSV", "deleteCSV"}
    BY <1>1, <1>9, GotoStep DEF CreateOperator
  <2> QED
    BY <1>1, <1>3, <2>1, <2>2 DEF ClusterTypeOK, LocalTypeOK
<1>10. CASE DeleteManifest(p, o)
  <2> DEFINE v == IF GetPackageManifest(o) THEN ParsePackageManifest ELSE None
  <2>1. v \in Versions \cup {None} /\ csv' = [csv EXCEPT ![p] = v]
        /\ UNCHANGED <<clusterVars, observed>>
    BY <1>1, <1>10, ManifestType DEF DeleteManifest
  <2>2. pc'[p] \in {"checkCSV", "deleteCSV"} => v \in Versions
    BY <1>1, <1>10, GotoStep, ManifestType DEF DeleteManifest
  <2> HIDE DEF v
  <2> QED
    BY <1>1, <1>4, <2>1, <2>2 DEF ClusterTypeOK, LocalTypeOK
<1>11. CASE DeleteCSV(p, o)
  <2>1. phase' \in [Versions -> {"absent", "installing", "succeeded"}]
    BY <1>1, <1>11 DEF DeleteCSV, ClusterTypeOK
  <2>2. UNCHANGED <<subscription, catalog, localVars>>
        /\ pc'[p] \notin {"checkCSV", "deleteCSV"}
    BY <1>1, <1>11, GotoStep DEF DeleteCSV
  <2> QED
    BY <1>1, <1>3, <2>1, <2>2 DEF ClusterTypeOK, LocalTypeOK
<1>12. CASE DeleteSubscription(p, o)
  <2>1. subscription' \in [exists : BOOLEAN, installed : Versions \cup {None}]
    BY <1>1, <1>12 DEF DeleteSubscription, NoSubscription, ClusterTypeOK
  <2>2. UNCHANGED <<phase, catalog, localVars>> /\ pc'[p] \notin {"checkCSV", "deleteCSV"}
    BY <1>1, <1>12, GotoStep DEF DeleteSubscription
  <2> QED
    BY <1>1, <1>3, <2>1, <2>2 DEF ClusterTypeOK, LocalTypeOK
<1> QED
  BY <1>5, <1>6, <1>7, <1>8, <1>9, <1>10, <1>11, <1>12 DEF OwnStep

(***************************************************************************)
(* What OLM, the catalog and others do to the objects in the cluster.      *)
(***************************************************************************)
Around ==
  \/ Install
  \/ \E v \in Versions : Succeed(v) \/ Replace(v)
  \/ Release
  \/ Interfere

LEMMA AroundStep ==
  ASSUME ClusterTypeOK, Around
  PROVE  ClusterTypeOK' /\ UNCHANGED <<managedVars, localVars>>
<1>1. CASE Install
  <2>1. catalog.head \in Versions
    BY DEF ClusterTypeOK
  <2>2. subscription' = [exists |-> subscription.exists, installed |-> catalog.head]
    BY <1>1 DEF Install, ClusterTypeOK
  <2>3. phase' \in [Versions -> {"absent", "installing", "succeeded"}]
    BY <1>1, <2>1 DEF Install, ClusterTypeOK
  <2> QED
    BY <1>1, <2>1, <2>2, <2>3 DEF Install, ClusterTypeOK
<1>2. ASSUME NEW v \in Versions, Succeed(v) \/ Replace(v)
      PROVE  ClusterTypeOK' /\ UNCHANGED <<managedVars, localVars>>
  BY <1>2 DEF Succeed, Replace, ClusterTypeOK
<1>3. CASE Release
  <2>1. catalog.head + 1 \in Versions
    BY <1>3 DEF Release, ClusterTypeOK, Versions
  <2>2. catalog' = [lists |-> catalog.lists, head |-> catalog.head + 1]
    BY <1>3 DEF Release, ClusterTypeOK
  <2> QED
    BY <1>3, <2>1, <2>2 DEF Release, ClusterTypeOK
<1>4. CASE Interfere
  <2>1. UNCHANGED <<managedVars, phase, localVars>>
    BY <1>4 DEF Interfere
  <2>2. CASE \E l \in {"nothing", "package", "channel"} :
               catalog' = [catalog EXCEPT !.lists = l] /\ UNCHANGED subscription
    <3>1. PICK l \in {"nothing", "package", "channel"} :
            catalog' = [catalog EXCEPT !.lists = l] /\ UNCHANGED subscription
      BY <2>2
    <3>2. catalog' = [lists |-> l, head |-> catalog.head]
      BY <3>1 DEF ClusterTypeOK
    <3> QED
      BY <2>1, <3>1, <3>2 DEF ClusterTypeOK
  <2>3. CASE subscription' = NoSubscription /\ UNCHANGED catalog
    BY <2>1, <2>3 DEF ClusterTypeOK, NoSubscription
  <2> QED
    BY <1>4, <2>2, <2>3 DEF Interfere
<1> QED
  BY <1>1, <1>2, <1>3, <1>4 DEF Around

(***************************************************************************)
(* Every step keeps the types, and the invariants that need no SoleWorker. *)
(***************************************************************************)
LEMMA TypeNext ==
  ASSUME TypeOK, SpecInv, CSVInv, [Next]_vars
  PROVE  TypeOK' /\ SpecInv' /\ CSVInv'
<1>1. ManagedTypeOK /\ pc \in [Procs -> Labels] /\ ClusterTypeOK /\ LocalTypeOK
  BY TypeParts
<1>2. "idle" \in Labels /\ "updateStatus" \in Labels /\ "connect" \in Labels
      /\ "finalize" \in Labels
  BY DEF Labels, ReconcileLabels
<1>3. ASSUME NEW p \in Procs, NEW o \in Outcomes, OwnStep(p, o)
      PROVE  TypeOK' /\ SpecInv' /\ CSVInv'
  <2>1. ManagedTypeOK' /\ pc' \in [Procs -> Labels]
    BY <1>1, <1>3, OwnStepFrame DEF ManagedTypeOK
  <2>2. SpecInv'
    BY <1>1, <1>3, OwnStepFrame DEF SpecInv, Busy, OwnLabels
  <2> QED
    BY <1>3, <2>1, <2>2, OwnType, TypePartsNext
<1>4. ASSUME UNCHANGED <<clusterVars, localVars>>, ManagedTypeOK', SpecInv',
             NEW p \in Procs, pc'[p] \in Labels \ {"checkCSV", "deleteCSV"},
             \A q \in Procs \ {p} : pc'[q] = pc[q]
      PROVE  TypeOK' /\ SpecInv' /\ CSVInv'
  <2>1. pc' \in [Procs -> Labels] /\ CSVInv'
    BY <1>1, <1>4 DEF ManagedTypeOK, CSVInv, localVars
  <2>2. ClusterTypeOK' /\ LocalTypeOK'
    BY <1>1, <1>4 DEF ClusterTypeOK, LocalTypeOK, clusterVars, localVars
  <2> QED
    BY <1>4, <2>1, <2>2, TypePartsNext
<1>5. ASSUME NEW p \in Procs, NEW o \in Outcomes, Finalizer(p, o)
      PROVE  TypeOK' /\ SpecInv' /\ CSVInv'
  <2>1. PICK next \in {"createOperator", "publishResult", "updateStatus"} :
          AddFinalizer(p, o, next)
    BY <1>5 DEF Finalizer
  <2>2. next \in Labels \ {"checkCSV", "deleteCSV"}
    BY DEF Labels, ReconcileLabels
  <2>3. SpecInv'
    BY <1>1, <2>1, ManagedSpec
  <2> QED
    BY <1>1, <1>2, <1>4, <1>5, <2>1, <2>2, <2>3, AddFinalizerStep DEF Finalizer
<1>6. ASSUME NEW p \in Procs, Begin(p)
      PROVE  TypeOK' /\ SpecInv' /\ CSVInv'
  <2>1. Start(p) /\ UNCHANGED <<clusterVars, localVars>>
    BY <1>6 DEF Begin
  <2>2. SpecInv'
    BY <1>1, <2>1, ManagedSpec
  <2> QED
    BY <1>1, <1>2, <1>4, <2>1, <2>2, StartStep
<1>7. ASSUME NEW p \in Procs, NEW o,
             Finalize(p, o) \/ Report(p, o) \/ Exit(p)
      PROVE  TypeOK' /\ SpecInv' /\ CSVInv'
  <2>1. /\ RemoveFinalizer(p, o) \/ UpdateStatus(p, o) \/ Stop(p)
        /\ Forget(p) /\ UNCHANGED clusterVars
    BY <1>7 DEF Finalize, Report, Exit
  <2>2. /\ ManagedTypeOK'
        /\ pc'[p] \in {"idle", "updateStatus"}
        /\ \A q \in Procs \ {p} : pc'[q] = pc[q]
    BY <1>1, <2>1, RemoveFinalizerStep, UpdateStatusStep, StopStep
  <2>3. SpecInv'
    BY <1>1, <2>1, ManagedSpec
  <2>4. LocalTypeOK' /\ CSVInv'
    BY <1>1, <2>1, <2>2 DEF Forget, LocalTypeOK, CSVInv
  <2>5. pc' \in [Procs -> Labels]
    BY <1>1, <1>2, <2>2 DEF ManagedTypeOK
  <2> QED
    BY <1>1, <2>1, <2>2, <2>3, <2>4, <2>5, TypePartsNext DEF ClusterTypeOK, clusterVars
<1>8. ASSUME UNCHANGED <<pc, localVars>>, ManagedTypeOK', ClusterTypeOK', SpecInv'
      PROVE  TypeOK' /\ SpecInv' /\ CSVInv'
  BY <1>1, <1>8, TypePartsNext DEF LocalTypeOK, CSVInv, localVars
<1>9. ASSUME NEW p \in Procs, Elect(p), UNCHANGED <<clusterVars, localVars>>
      PROVE  TypeOK' /\ SpecInv' /\ CSVInv'
  <2>1. SpecInv'
    BY <1>1, <1>9, ManagedSpec
  <2> QED
    BY <1>1, <1>8, <1>9, <2>1 DEF Elect, ManagedTypeOK, ClusterTypeOK, clusterVars
<1>10. CASE User
  <2>1. SpecInv'
    BY <1>1, <1>10, UserSpec DEF User
  <2> QED
    BY <1>1, <1>8, <1>10, <2>1, UserCreateStep, UserDeleteStep
       DEF User, ClusterTypeOK, clusterVars
<1>11. ASSUME UNCHANGED <<managedVars, localVars>>, ClusterTypeOK'
       PROVE  TypeOK' /\ SpecInv' /\ CSVInv'
  BY <1>1, <1>8, <1>11 DEF ManagedTypeOK, SpecInv, Busy, managedVars
<1>12. CASE Around
  BY <1>1, <1>11, <1>12, AroundStep
<1>13. CASE UNCHANGED vars
  BY <1>1, <1>11, <1>13 DEF vars, ClusterTypeOK, clusterVars
<1> QED
  BY <1>3, <1>5, <1>6, <1>7, <1>9, <1>10, <1>12, <1>13
     DEF Next, Reconcile, Work, OwnStep, Around

(***************************************************************************)
(* The types hold in every behaviour, whatever processes run side by side, *)
(* whatever OLM does meanwhile and whenever a process stops.  CSVInv is    *)
(* part of the invariant: a CSV is asked for by a version that was read.   *)
(***************************************************************************)
THEOREM TypeCorrect == Spec => []TypeOK
<1> DEFINE Inv == TypeOK /\ SpecInv /\ CSVInv
<1>1. Init => Inv
  BY TypeInit
<1>2. Inv /\ [Next]_vars => Inv'
  BY TypeNext
<1> QED
  BY <1>1, <1>2, PTL DEF Spec

-----------------------------------------------------------------------------
(* The inductive invariant *)

LEMMA IdleStep ==
  ASSUME NEW q, pc'[q] \in {"idle", "updateStatus"}
  PROVE  StepInv(q)'
BY DEF StepInv, ObserveLabels, DeleteLabels

(***************************************************************************)
(* What a reconcile knows is of its own copy, so only its own steps matter.*)
(***************************************************************************)
LEMMA EnvironmentStep ==
  ASSUME NEW q, pc'[q] = pc[q],
         managed'[q].deleting = managed[q].deleting,
         managed'[q].finalizer = managed[q].finalizer,
         managed'[q].spec = managed[q].spec,
         StepInv(q)
  PROVE  StepInv(q)'
BY DEF StepInv

(***************************************************************************)
(* What p knows at its next step follows from what it knew at this one.    *)
(***************************************************************************)
LEMMA OwnStepInv ==
  ASSUME ManagedTypeOK, NEW p \in Procs, NEW o, OwnStep(p, o), StepInv(p)
  PROVE  StepInv(p)'
<1>1. /\ managed'[p].deleting = managed[p].deleting
      /\ managed'[p].finalizer = managed[p].finalizer
      /\ managed'[p].spec = managed[p].spec
  BY OwnStepFrame
<1> USE DEF Continue, ObserveLabels, DeleteLabels
<1>2. CASE pc'[p] = "updateStatus"
  BY <1>2, IdleStep
<1>3. CASE Connect(p, o)
  BY <1>1, <1>2, <1>3, GotoStep DEF Connect, StepInv
<1>4. ASSUME NEW result, Observed(p, result), pc[p] \in ObserveLabels
      PROVE  StepInv(p)'
  <2>1. pc'[p] = IF ~managed[p].deleting THEN "publishObserved"
                 ELSE IF result = "absent" THEN "finalize" ELSE "deleteManifest"
    BY <1>4, GotoStep DEF Observed
  <2> QED
    BY <1>1, <1>4, <2>1 DEF StepInv
<1>5. CASE ObserveManifest(p, o)
  <2>1. pc[p] = "observeManifest"
    BY <1>5 DEF ObserveManifest
  <2>2. CASE Observed(p, "absent")
    BY <1>4, <2>1, <2>2
  <2>3. CASE Goto(p, "checkCSV") \/ Goto(p, "updateStatus")
    BY <1>1, <1>2, <2>1, <2>3, GotoStep DEF StepInv
  <2> QED
    BY <1>5, <2>2, <2>3 DEF ObserveManifest
<1>6. CASE CheckCSV(p, o)
  BY <1>4, <1>6 DEF CheckCSV
<1>7. CASE Publish(p, o)
  <2>1. \/ pc[p] = "publishObserved" /\ pc'[p] \in {"addFinalizer", "updateStatus"}
        \/ pc'[p] = "updateStatus"
    BY <1>7, GotoStep DEF Publish
  <2> QED
    BY <1>1, <1>2, <2>1 DEF StepInv
<1>8. CASE CreateOperator(p, o)
  <2>1. pc[p] = "createOperator" /\ pc'[p] \in {"publishResult", "updateStatus"}
    BY <1>8, GotoStep DEF CreateOperator
  <2> QED
    BY <1>1, <1>2, <2>1 DEF StepInv
<1>9. CASE DeleteManifest(p, o) \/ DeleteCSV(p, o) \/ DeleteSubscription(p, o)
  <2>1. /\ pc[p] \in DeleteLabels
        /\ pc'[p] \in {"deleteCSV", "deleteSubscription", "updateStatus"}
    BY <1>9, GotoStep DEF DeleteManifest, DeleteCSV, DeleteSubscription
  <2> QED
    BY <1>1, <1>2, <2>1 DEF StepInv
<1> QED
  BY <1>3, <1>5, <1>6, <1>7, <1>8, <1>9 DEF OwnStep

WorkInv == ManagedInv /\ \A p \in Procs : StepInv(p)

LEMMA WorkInit == Init => WorkInv
<1> SUFFICES ASSUME Init PROVE WorkInv
  OBVIOUS
<1>1. \A p \in Procs : pc[p] = "idle" /\ managed[p] = NoCopy
  BY DEF Init, ManagedInit
<1>2. \A p \in Procs : CopyInv(p)
  BY <1>1, NoCopyInv
<1>3. \A p \in Procs : StepInv(p)
  BY <1>1 DEF StepInv, ObserveLabels, DeleteLabels
<1>4. ResourceInv /\ LeaderInv
  BY <1>1 DEF Init, ManagedInit, ResourceInv, LeaderInv, NoResource, Busy
<1> QED
  BY <1>2, <1>3, <1>4 DEF WorkInv, ManagedInv

(***************************************************************************)
(* Every step keeps the invariant of a sole worker.                        *)
(***************************************************************************)
LEMMA WorkNext ==
  ASSUME TypeOK, SpecInv, WorkInv, SoleWorker, [Next]_vars
  PROVE  WorkInv'
<1>1. ManagedTypeOK /\ ManagedInv /\ \A q \in Procs : CopyInv(q) /\ StepInv(q)
  BY DEF TypeOK, WorkInv, ManagedInv
<1>2. ASSUME NEW p \in Procs, Busy(p) \/ MayWork(p), ManagedInv', StepInv(p)',
             \A q \in Procs \ {p} : pc'[q] = pc[q]
      PROVE  WorkInv'
  <2>1. \A q \in Procs \ {p} : StepInv(q)'
    BY <1>1, <1>2, OthersIdle, IdleStep
  <2> QED
    BY <1>2, <2>1 DEF WorkInv
<1>3. ASSUME NEW p \in Procs, NEW o \in Outcomes, OwnStep(p, o)
      PROVE  WorkInv'
  <2>1. Busy(p) /\ Engaged(p)
    BY <1>1, <1>3, OwnStepFrame DEF Busy, Engaged, OwnLabels
  <2>2. ManagedInv'
    BY <1>1, <1>3, <2>1, OwnStepFrame, LocalInv
  <2> QED
    BY <1>1, <1>2, <1>3, <2>1, <2>2, OwnStepFrame, OwnStepInv
<1>4. ASSUME NEW p \in Procs, NEW o \in Outcomes, Finalizer(p, o)
      PROVE  WorkInv'
  <2>1. PICK next \in {"createOperator", "publishResult", "updateStatus"} :
          AddFinalizer(p, o, next)
    BY <1>4 DEF Finalizer
  <2>2. pc[p] = "addFinalizer" /\ Busy(p) /\ ~managed[p].deleting
    BY <1>1, <2>1 DEF AddFinalizer, Busy, StepInv
  <2>3. ManagedInv'
    BY <1>1, <2>1, AddFinalizerInv
  <2>4. StepInv(p)'
    <3>1. \/ pc'[p] = "updateStatus"
          \/ /\ pc'[p] \in {"createOperator", "publishResult", "updateStatus"}
             /\ managed'[p].finalizer /\ ~managed'[p].deleting
      BY <1>1, <2>1, <2>2, AddFinalizerStep
    <3> QED
      BY <3>1, IdleStep DEF StepInv, ObserveLabels, DeleteLabels
  <2> QED
    BY <1>1, <1>2, <2>1, <2>2, <2>3, <2>4, AddFinalizerStep
<1>5. ASSUME NEW p \in Procs, NEW o \in Outcomes, Finalize(p, o) \/ Report(p, o)
      PROVE  WorkInv'
  <2>1. RemoveFinalizer(p, o) \/ UpdateStatus(p, o)
    BY <1>5 DEF Finalize, Report
  <2>2. Busy(p) /\ ManagedInv'
    BY <1>1, <2>1, RemoveFinalizerStep, UpdateStatusStep, RemoveFinalizerInv,
       UpdateStatusInv DEF Busy
  <2>3. StepInv(p)' /\ \A q \in Procs \ {p} : pc'[q] = pc[q]
    BY <1>1, <2>1, RemoveFinalizerStep, UpdateStatusStep, IdleStep
  <2> QED
    BY <1>2, <2>2, <2>3
<1>6. ASSUME NEW p \in Procs, Begin(p)
      PROVE  WorkInv'
  <2>1. Start(p) /\ MayWork(p) /\ resource.exists
    BY <1>6 DEF Begin, Start
  <2>2. ManagedInv'
    BY <1>1, <2>1, StartInv
  <2>3. StepInv(p)'
    <3>1. resource.spec.policy \in {"Delete", "Orphan"}
      BY <2>1, ManagedAssumption DEF SpecInv
    <3>2. /\ managed'[p].deleting = resource.deleting
          /\ managed'[p].spec = resource.spec
          /\ pc'[p] = IF resource.deleting /\ resource.spec.policy = "Orphan"
                      THEN "finalize" ELSE "connect"
      BY <1>1, <2>1, StartStep
    <3> QED
      BY <3>1, <3>2 DEF StepInv, ObserveLabels, DeleteLabels
  <2> QED
    BY <1>1, <1>2, <2>1, <2>2, <2>3, StartStep
<1>7. ASSUME NEW p \in Procs, Exit(p)
      PROVE  WorkInv'
  <2>1. Stop(p)
    BY <1>7 DEF Exit
  <2>2. ManagedInv'
    BY <1>1, <2>1, StopInv
  <2>3. StepInv(p)' /\ \A q \in Procs \ {p} : StepInv(q)'
    BY <1>1, <2>1, StopStep, IdleStep, EnvironmentStep
  <2> QED
    BY <2>2, <2>3 DEF WorkInv
<1>8. ASSUME NEW p \in Procs, Elect(p)
      PROVE  WorkInv'
  BY <1>1, <1>8, ElectInv, EnvironmentStep DEF Elect, WorkInv
<1>9. CASE User
  <2>1. UserCreate \/ UserDelete
    BY <1>9 DEF User
  <2>2. ManagedInv' /\ pc' = pc /\ \A q \in Procs : managed'[q] = Seen(q)
    BY <1>1, <2>1, UserInv, UserCreateStep, UserDeleteStep
  <2>3. \A q \in Procs : StepInv(q)'
    BY <1>1, <2>2, SeenFields, EnvironmentStep
  <2> QED
    BY <2>2, <2>3 DEF WorkInv
<1>10. CASE Around \/ UNCHANGED vars
  <2>1. UNCHANGED managedVars
    BY <1>10, AroundStep, TypeParts DEF vars
  <2>2. ManagedInv'
    BY <1>1, <2>1 DEF managedVars, ManagedInv, ResourceInv, LeaderInv, CopyInv, Busy, Engaged
  <2> QED
    BY <1>1, <2>1, <2>2, EnvironmentStep DEF WorkInv, managedVars
<1> QED
  BY <1>3, <1>4, <1>5, <1>6, <1>7, <1>8, <1>9, <1>10
     DEF Next, Reconcile, Work, OwnStep, Around

(***************************************************************************)
(* The inductive invariant of a sole worker (operator.go:124-164).         *)
(***************************************************************************)
THEOREM Invariant ==
  ASSUME SoleWorker
  PROVE  Spec => []IInv
<1> DEFINE Inv == TypeOK /\ SpecInv /\ CSVInv /\ WorkInv
<1>1. Init => Inv
  BY TypeInit, WorkInit
<1>2. Inv /\ [Next]_vars => Inv'
  BY TypeNext, WorkNext
<1>3. Inv => IInv
  BY DEF IInv, WorkInv
<1> QED
  BY <1>1, <1>2, <1>3, PTL DEF Spec

-----------------------------------------------------------------------------
(* The Subscription *)

Frame == UNCHANGED <<resource.exists, resource.deleting, resource.finalizer, resource.spec,
                     subscription.exists>>

LEMMA FrameStutters == Frame => UNCHANGED LC!vars
BY DEF Frame, LC!vars

(***************************************************************************)
(* Delete acts on a resource that is being deleted, with policy Delete,    *)
(* and still holds the finalizer.                                          *)
(***************************************************************************)
LEMMA DeleteOnRequest ==
  ASSUME WorkInv, NEW p \in Procs, pc[p] \in DeleteLabels
  PROVE  /\ resource.exists /\ resource.deleting /\ resource.finalizer
         /\ resource.spec.policy = "Delete"
<1>1. CopyInv(p) /\ StepInv(p) /\ ResourceInv
  BY DEF WorkInv, ManagedInv
<1>2. managed[p].deleting /\ managed[p].spec.policy = "Delete" /\ Engaged(p)
  BY <1>1 DEF StepInv, DeleteLabels, Engaged
<1> QED
  BY <1>1, <1>2 DEF CopyInv, ResourceInv

(***************************************************************************)
(* Every step is one of the life cycle, one of somebody else's, or none.   *)
(***************************************************************************)
LEMMA LifecycleStep ==
  ASSUME TypeOK, SpecInv, WorkInv, [Next]_vars
  PROVE  [LC!Next \/ Interfere]_(LC!vars)
<1>1. /\ ManagedTypeOK /\ ClusterTypeOK /\ ResourceInv
      /\ \A q \in Procs : CopyInv(q) /\ StepInv(q)
  BY TypeParts DEF WorkInv, ManagedInv
<1>2. subscription.exists \in BOOLEAN
  BY <1>1 DEF ClusterTypeOK
<1>3. ASSUME NEW p \in Procs, NEW o \in Outcomes, OwnStep(p, o)
      PROVE  [LC!Next]_(LC!vars)
  <2>1. resource' = resource
    BY <1>1, <1>3, OwnStepFrame
  <2>2. CASE subscription'.exists = subscription.exists
    BY <2>1, <2>2, FrameStutters DEF Frame
  <2>3. CASE CreateOperator(p, o) /\ subscription'.exists # subscription.exists
    <3>1. pc[p] = "createOperator" /\ managed[p].finalizer /\ Engaged(p)
      BY <1>1, <2>3 DEF CreateOperator, StepInv, Engaged
    <3>2. resource.exists /\ resource.finalizer
      BY <1>1, <3>1 DEF CopyInv, ResourceInv
    <3>3. subscription.exists = FALSE /\ subscription'.exists = TRUE
      BY <1>2, <2>3 DEF CreateOperator, NewSubscription
    <3> QED
      BY <2>1, <3>2, <3>3 DEF LC!Next, LC!Provision
  <2>4. CASE DeleteSubscription(p, o) /\ subscription'.exists # subscription.exists
    <3>1. /\ resource.exists /\ resource.deleting /\ resource.finalizer
          /\ resource.spec.policy = "Delete"
      BY <2>4, DeleteOnRequest DEF DeleteSubscription, DeleteLabels
    <3>2. subscription.exists = TRUE /\ subscription'.exists = FALSE
      BY <1>2, <2>4 DEF DeleteSubscription, NoSubscription
    <3> QED
      BY <2>1, <3>1, <3>2 DEF LC!Next, LC!Withdraw
  <2>5. CASE ~CreateOperator(p, o) /\ ~DeleteSubscription(p, o)
    <3>1. subscription' = subscription
      BY <1>3, <2>5 DEF OwnStep, Connect, ObserveManifest, CheckCSV, Publish,
         DeleteManifest, DeleteCSV, clusterVars
    <3> QED
      BY <2>2, <3>1
  <2> QED
    BY <2>2, <2>3, <2>4, <2>5
<1>4. ASSUME NEW p \in Procs, NEW o \in Outcomes, Finalizer(p, o)
      PROVE  [LC!Next]_(LC!vars)
  <2>1. PICK next : AddFinalizer(p, o, next)
    BY <1>4 DEF Finalizer
  <2>2. subscription' = subscription
    BY <1>4 DEF Finalizer, clusterVars
  <2>3. CASE resource' = resource
    BY <2>2, <2>3, FrameStutters DEF Frame
  <2>4. CASE Current(p) /\ ~managed[p].finalizer /\ resource'.finalizer
    <3>1. resource.exists /\ ~resource.deleting /\ resource.finalizer = FALSE
      <4>1. resource.finalizer \in BOOLEAN /\ managed[p].finalizer \in BOOLEAN
        BY <1>1, ResourceFields, CopyFields DEF ManagedTypeOK
      <4> QED
        BY <1>1, <2>4, <4>1 DEF CopyInv, Current
    <3>2. resource'.finalizer = TRUE
      BY <1>1, <2>1, <2>4, AddFinalizerStep, ResourceFields DEF ManagedTypeOK
    <3>3. /\ resource'.exists = resource.exists /\ resource'.deleting = resource.deleting
          /\ resource'.spec = resource.spec
      BY <1>1, <2>1, AddFinalizerStep
    <3> QED
      BY <2>2, <3>1, <3>2, <3>3 DEF LC!Next, LC!Hold
  <2> QED
    BY <1>1, <2>1, <2>3, <2>4, AddFinalizerStep
<1>5. ASSUME NEW p \in Procs, NEW o \in Outcomes, Finalize(p, o)
      PROVE  [LC!Next]_(LC!vars)
  <2>1. RemoveFinalizer(p, o) /\ subscription' = subscription
    BY <1>5 DEF Finalize, clusterVars
  <2>2. CASE resource' = resource
    BY <2>1, <2>2, FrameStutters DEF Frame
  <2>3. CASE resource' = NoResource
    <3>1. pc[p] = "finalize" /\ managed[p].deleting
      BY <1>1, <2>1, RemoveFinalizerStep DEF CopyInv
    <3>2. resource.exists /\ resource.deleting /\ resource.finalizer
      BY <1>1, <3>1 DEF CopyInv, Engaged, ResourceInv
    <3> QED
      BY <2>1, <2>3, <3>2 DEF LC!Next, LC!Release, NoResource
  <2> QED
    BY <1>1, <2>1, <2>2, <2>3, RemoveFinalizerStep
<1>6. ASSUME NEW p \in Procs, NEW o \in Outcomes, Report(p, o)
      PROVE  [LC!Next]_(LC!vars)
  <2>1. UpdateStatus(p, o) /\ subscription' = subscription
    BY <1>6 DEF Report, clusterVars
  <2> QED
    BY <1>1, <2>1, UpdateStatusStep, FrameStutters DEF Frame
<1>7. ASSUME NEW p \in Procs,
             \/ Begin(p) \/ Exit(p)
             \/ Elect(p) /\ UNCHANGED <<clusterVars, localVars>>
      PROVE  [LC!Next]_(LC!vars)
  BY <1>7, FrameStutters DEF Begin, Start, Exit, Stop, Elect, clusterVars, Frame
<1>8. CASE User
  <2>1. CASE UserCreate /\ subscription' = subscription
    <3>1. resource'.spec.policy \in {"Delete", "Orphan"}
      BY <1>1, <2>1, UserCreateStep, ManagedAssumption
    <3>2. resource.finalizer = FALSE /\ resource'.finalizer = FALSE
      BY <1>1, <2>1, UserCreateStep, ResourceFields DEF ManagedTypeOK, ResourceInv
    <3> QED
      BY <1>1, <2>1, <3>1, <3>2, UserCreateStep DEF LC!Next, LC!Request
  <2>2. CASE UserDelete /\ subscription' = subscription
    <3>1. resource.finalizer \in BOOLEAN /\ resource'.finalizer \in BOOLEAN
      BY <1>1, <2>2, UserDeleteStep, ResourceFields DEF ManagedTypeOK
    <3> QED
      BY <1>1, <2>2, <3>1, UserDeleteStep DEF LC!Next, LC!RequestDeletion, NoResource
  <2> QED
    BY <1>8, <2>1, <2>2 DEF User, clusterVars
<1>9. CASE Install \/ (\E v \in Versions : Succeed(v) \/ Replace(v)) \/ Release
  <2>1. resource' = resource /\ subscription'.exists = subscription.exists
    BY <1>1, <1>9 DEF Install, Succeed, Replace, Release, managedVars, ClusterTypeOK
  <2> QED
    BY <2>1, FrameStutters DEF Frame
<1>10. CASE UNCHANGED vars
  BY <1>10, FrameStutters DEF vars, managedVars, clusterVars, Frame
<1> QED
  BY <1>3, <1>4, <1>5, <1>6, <1>7, <1>8, <1>9, <1>10 DEF Next, Reconcile, Work, OwnStep

(***************************************************************************)
(* A sole worker subscribes only under the finalizer and unsubscribes only *)
(* for a resource with policy Delete whose deletion was requested          *)
(* (operator.go:124-164).                                                  *)
(***************************************************************************)
THEOREM SubscriptionFollowsRequest ==
  ASSUME SoleWorker
  PROVE  Spec => SubscribesOnRequest
<1> DEFINE Inv == TypeOK /\ SpecInv /\ CSVInv /\ WorkInv
<1>1. Init => Inv
  BY TypeInit, WorkInit
<1>2. Inv /\ [Next]_vars => Inv'
  BY TypeNext, WorkNext
<1>3. Init => LC!Init
  BY DEF Init, ManagedInit, NoResource, NoSubscription, LC!Init
<1>4. Inv /\ [Next]_vars => [LC!Next \/ Interfere]_(LC!vars)
  BY LifecycleStep
<1> QED
  BY <1>1, <1>2, <1>3, <1>4, PTL DEF Spec, SubscribesOnRequest

-----------------------------------------------------------------------------
(* The ClusterServiceVersions *)

CSVStep ==
  \A v \in Versions : phase[v] # "absent" /\ phase'[v] = "absent" =>
    \/ resource.deleting /\ resource.spec.policy = "Delete"
    \/ \E w \in Versions : w > v /\ phase[w] = "succeeded"

(***************************************************************************)
(* Only Delete and OLM take a CSV away, and OLM only for a later one.      *)
(***************************************************************************)
LEMMA CSVKeptStep ==
  ASSUME TypeOK, WorkInv, [Next]_vars
  PROVE  CSVStep
<1>1. ManagedTypeOK /\ ClusterTypeOK
  BY TypeParts
<1>2. CASE phase' = phase
  BY <1>2 DEF CSVStep
<1>3. ASSUME NEW p \in Procs, NEW o \in Outcomes, Reconcile(p, o)
      PROVE  CSVStep
  <2>1. CASE DeleteCSV(p, o)
    <3>1. resource.deleting /\ resource.spec.policy = "Delete"
      BY <2>1, DeleteOnRequest DEF DeleteCSV, DeleteLabels
    <3> QED
      BY <3>1 DEF CSVStep
  <2>2. CASE ~DeleteCSV(p, o)
    <3>1. phase' = phase
      BY <1>3, <2>2 DEF Reconcile, Work, Connect, ObserveManifest, CheckCSV, Publish,
         Finalizer, CreateOperator, DeleteManifest, DeleteSubscription, Finalize,
         Report, clusterVars
    <3> QED
      BY <1>2, <3>1
  <2> QED
    BY <2>1, <2>2
<1>4. CASE Install
  <2>1. \A v \in Versions : phase[v] # "absent" => phase'[v] # "absent"
    BY <1>1, <1>4 DEF Install, ClusterTypeOK
  <2> QED
    BY <2>1 DEF CSVStep
<1>5. ASSUME NEW v \in Versions, Succeed(v) \/ Replace(v)
      PROVE  CSVStep
  <2>1. \A u \in Versions \ {v} : phase'[u] = phase[u]
    BY <1>1, <1>5 DEF Succeed, Replace, ClusterTypeOK
  <2>2. CASE Succeed(v)
    <3>1. phase'[v] = "succeeded"
      BY <1>1, <2>2 DEF Succeed, ClusterTypeOK
    <3> QED
      BY <2>1, <3>1 DEF CSVStep
  <2>3. CASE Replace(v)
    BY <2>1, <2>3 DEF Replace, CSVStep
  <2> QED
    BY <1>5, <2>2, <2>3
<1> QED
  BY <1>2, <1>3, <1>4, <1>5
     DEF Next, Begin, Exit, Elect, User, Release, Interfere, vars, clusterVars

(***************************************************************************)
(* A CSV goes only when a later version has succeeded, or for a resource   *)
(* whose deletion was requested and whose policy is Delete, whatever the   *)
(* catalog and OLM do while the deletion runs (operator.go:145-164).       *)
(***************************************************************************)
THEOREM CSVKeptUntilRequested ==
  ASSUME SoleWorker
  PROVE  Spec => CSVKept
<1> DEFINE Inv == TypeOK /\ SpecInv /\ CSVInv /\ WorkInv
<1>1. Init => Inv
  BY TypeInit, WorkInit
<1>2. Inv /\ [Next]_vars => Inv'
  BY TypeNext, WorkNext
<1>3. Inv /\ [Next]_vars => [CSVStep]_vars
  BY CSVKeptStep
<1>4. (Spec => [][CSVStep]_vars)
  BY <1>1, <1>2, <1>3, PTL DEF Spec
<1> QED
  BY <1>4 DEF CSVKept, CSVStep

=============================================================================
