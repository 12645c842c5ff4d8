--------------------------- MODULE InClusterProofs ---------------------------
(***************************************************************************)
(* Proofs about InCluster: to the controller of module Operator everything *)
(* that is added here is a Connect that may fail and a process that may    *)
(* stop, so the theorems about Operator hold of it.  The assumptions of    *)
(* Operator on its constants follow from those of InCluster.               *)
(***************************************************************************)
EXTENDS InCluster, KubeconfigProofs

(* Module Operator as OperatorWithFaults takes it, with its theorems. *)
P == INSTANCE OperatorProofs WITH
       Faults <- Faults \cup {"readFail", "crash"}, Drift <- {}

LEMMA Constants ==
  /\ (Faults \cup {"readFail", "crash"}) \subseteq P!FaultKinds
  /\ LeaderElection \in BOOLEAN
  /\ NoSpec \notin Specs
  /\ NoProc \notin Procs
  /\ \A s \in Specs : s.policy \in {"Delete", "Orphan"}
  /\ MaxVersion \in Nat \ {0}
  /\ {} \subseteq {"subscription", "withdraw", "relist"}
BY InClusterAssumption DEF P!FaultKinds, O!FaultKinds, OperatorSpec

-----------------------------------------------------------------------------
(* The controller's steps are those of Operator *)

(***************************************************************************)
(* More faults, more outcomes.                                             *)
(***************************************************************************)
LEMMA OutcomesGrow ==
  /\ O!ReadOutcomes \subseteq P!ReadOutcomes
  /\ O!WriteOutcomes \subseteq P!WriteOutcomes
  /\ O!CallOutcomes \subseteq P!CallOutcomes
  /\ O!Raced = P!Raced
  /\ O!Outcomes \subseteq P!Outcomes
  /\ "readFail" \in P!ReadOutcomes
  /\ P!ReadOutcomes \subseteq P!Outcomes
BY DEF O!ReadOutcomes, O!WriteOutcomes, O!CallOutcomes, O!Outcomes,
       P!ReadOutcomes, P!WriteOutcomes, P!CallOutcomes, P!Outcomes,
       O!Raced, P!Raced, O!SoleWorker, P!SoleWorker

(***************************************************************************)
(* What a reconcile does once it is connected.                             *)
(***************************************************************************)
LEMMA WorkStep ==
  ASSUME NEW p \in Procs, NEW o \in O!Outcomes, O!Work(p, o)
  PROVE  P!Work(p, o)
<1> USE OutcomesGrow
    DEF O!Goto, O!Continue, O!Current, O!At, O!Seen, O!Write, O!Applied, O!Forget,
        O!None, O!NoCopy, O!NoResource, O!clusterVars, O!localVars,
        O!GetPackageManifest, O!ParsePackageManifest, O!Observed,
        P!Goto, P!Continue, P!Current, P!At, P!Seen, P!Write, P!Applied, P!Forget,
        P!None, P!NoCopy, P!NoResource, P!clusterVars, P!localVars,
        P!GetPackageManifest, P!ParsePackageManifest, P!Observed
<1>1. O!ObserveManifest(p, o) => P!ObserveManifest(p, o)
  BY DEF O!ObserveManifest, P!ObserveManifest
<1>2. O!CheckCSV(p, o) => P!CheckCSV(p, o)
  BY DEF O!CheckCSV, P!CheckCSV
<1>3. O!Publish(p, o) => P!Publish(p, o)
  BY DEF O!Publish, P!Publish
<1>4. O!Finalizer(p, o) => P!Finalizer(p, o)
  BY DEF O!Finalizer, P!Finalizer, O!AddFinalizer, P!AddFinalizer
<1>5. O!CreateOperator(p, o) => P!CreateOperator(p, o)
  BY DEF O!CreateOperator, P!CreateOperator, O!NewSubscription, P!NewSubscription
<1>6. O!DeleteManifest(p, o) => P!DeleteManifest(p, o)
  BY DEF O!DeleteManifest, P!DeleteManifest
<1>7. O!DeleteCSV(p, o) => P!DeleteCSV(p, o)
  BY DEF O!DeleteCSV, P!DeleteCSV
<1>8. O!DeleteSubscription(p, o) => P!DeleteSubscription(p, o)
  BY DEF O!DeleteSubscription, P!DeleteSubscription, O!NoSubscription, P!NoSubscription
<1>9. O!Finalize(p, o) => P!Finalize(p, o)
  BY DEF O!Finalize, P!Finalize, O!RemoveFinalizer, P!RemoveFinalizer
<1>10. O!Report(p, o) => P!Report(p, o)
  BY DEF O!Report, P!Report, O!UpdateStatus, P!UpdateStatus
<1> QED
  BY <1>1, <1>2, <1>3, <1>4, <1>5, <1>6, <1>7, <1>8, <1>9, <1>10 DEF O!Work, P!Work

(***************************************************************************)
(* Connect, in however many steps: it goes on, which Operator does not     *)
(* see, it fails, or it takes the process with it.                         *)
(***************************************************************************)
LEMMA ConnectStep ==
  ASSUME NEW p \in Procs, NEW o \in O!Outcomes,
         GetProviderConfig(p, o) \/ GetCredentials(p, o) \/ NewClient(p, o)
  PROVE  [P!Next]_(P!vars)
<1> USE DEF O!Goto, P!Goto, O!Forget, P!Forget, O!NoCopy, P!NoCopy, O!Continue, P!Continue,
            clusterVars, localVars, O!clusterVars, P!clusterVars, O!localVars, P!localVars,
            O!None, P!None
<1>1. ASSUME NEW next, NEW key, Proceed(p, next, key)
      PROVE  [P!Next]_(P!vars)
  BY <1>1 DEF Proceed, operatorVars, managedVars, P!vars, P!managedVars
<1>2. ASSUME pc[p] = "connect", Disconnect(p)
      PROVE  [P!Next]_(P!vars)
  <2>1. P!Connect(p, "readFail")
    BY <1>2, OutcomesGrow DEF Disconnect, P!Connect
  <2> QED
    BY <2>1, OutcomesGrow DEF P!Next, P!Reconcile
<1>3. ASSUME pc[p] = "connect", Panic(p)
      PROVE  [P!Next]_(P!vars)
  <2>1. P!Exit(p)
    BY <1>3 DEF Panic, P!Exit, P!Stop
  <2> QED
    BY <2>1 DEF P!Next
<1>4. CASE GetProviderConfig(p, o)
  BY <1>1, <1>2, <1>4 DEF GetProviderConfig
<1>5. CASE GetCredentials(p, o)
  BY <1>1, <1>2, <1>3, <1>5 DEF GetCredentials
<1>6. CASE NewClient(p, o)
  <2>1. P!Connect(p, o)
    BY <1>6, OutcomesGrow DEF NewClient, O!Connect, P!Connect
  <2> QED
    BY <2>1, OutcomesGrow DEF P!Next, P!Reconcile
<1> QED
  BY <1>4, <1>5, <1>6

(***************************************************************************)
(* Everything else: reconciles that start, processes that stop or take the *)
(* lease, users, OLM and its catalog.                                      *)
(***************************************************************************)
LEMMA AroundStep ==
  ASSUME \/ \E p \in Procs : Exit(p) \/ Elect(p)
         \/ Around
  PROVE  P!Next
<1> USE DEF O!Goto, P!Goto, O!Forget, P!Forget, O!NoCopy, P!NoCopy, O!NoResource, P!NoResource,
            clusterVars, localVars, O!clusterVars, P!clusterVars, O!localVars, P!localVars,
            O!managedVars, P!managedVars, O!Versions, P!Versions, O!None, P!None,
            O!At, O!Seen, O!Current, P!At, P!Seen, P!Current,
            O!ParsePackageManifest, P!ParsePackageManifest
<1>1. ASSUME NEW p \in Procs, Exit(p)
      PROVE  P!Exit(p)
  BY <1>1 DEF Exit, O!Exit, P!Exit, O!Stop, P!Stop
<1>2. ASSUME NEW p \in Procs, Elect(p)
      PROVE  P!Elect(p) /\ UNCHANGED <<P!clusterVars, P!localVars>>
  BY <1>2 DEF Elect, O!Elect, P!Elect
<1>3. ASSUME NEW p \in Procs, O!Begin(p)
      PROVE  P!Begin(p)
  BY <1>3 DEF O!Begin, P!Begin, O!Start, P!Start, O!MayWork, P!MayWork
<1>4. O!User => P!User
  BY DEF O!User, P!User, O!UserCreate, P!UserCreate, O!UserDelete, P!UserDelete
<1>5. O!Install => P!Install
  BY DEF O!Install, P!Install
<1>6. ASSUME NEW v \in O!Versions, O!Succeed(v) \/ O!Replace(v)
      PROVE  v \in P!Versions /\ (P!Succeed(v) \/ P!Replace(v))
  BY <1>6 DEF O!Succeed, P!Succeed, O!Replace, P!Replace
<1>7. O!Release => P!Release
  BY DEF O!Release, P!Release
<1> QED
  BY <1>1, <1>2, <1>3, <1>4, <1>5, <1>6, <1>7 DEF Around, P!Next

LEMMA OperatorStep == [Next]_vars => [P!Next]_(P!vars)
<1> SUFFICES ASSUME [Next]_vars PROVE [P!Next]_(P!vars)
  OBVIOUS
<1>1. ASSUME NEW p \in Procs, NEW o \in O!Outcomes, Reconcile(p, o)
      PROVE  [P!Next]_(P!vars)
  <2>1. CASE O!Work(p, o)
    BY <2>1, WorkStep, OutcomesGrow DEF P!Next, P!Reconcile
  <2> QED
    BY <1>1, <2>1, ConnectStep DEF Reconcile
<1>2. ASSUME UNCHANGED operatorVars
      PROVE  UNCHANGED P!vars
  BY <1>2 DEF operatorVars, managedVars, clusterVars, localVars,
     P!vars, P!managedVars, P!clusterVars, P!localVars
<1>3. ASSUME NEW p \in Procs, NEW o, CountUsages(p) \/ Settle(p, o)
      PROVE  UNCHANGED operatorVars
  BY <1>3 DEF CountUsages, Settle
<1>4. UserConfig \/ UserDeleteConfig \/ UserSecret \/ UNCHANGED vars => UNCHANGED operatorVars
  BY DEF UserConfig, UserDeleteConfig, UserSecret, vars
<1> QED
  BY <1>1, <1>2, <1>3, <1>4, AroundStep DEF Next

LEMMA OperatorInit == Init => P!Init
BY DEF Init, O!Init, P!Init, O!ManagedInit, P!ManagedInit, O!NoResource, P!NoResource,
       O!NoCopy, P!NoCopy, O!NoSubscription, P!NoSubscription, O!Versions, P!Versions,
       O!None, P!None

(***************************************************************************)
(* P and OperatorWithFaults are the same instance of Operator, written     *)
(* twice: every definition of the one is that of the other.                *)
(***************************************************************************)
LEMMA SameOperator ==
  /\ P!Init <=> OperatorWithFaults!Init
  /\ [P!Next]_(P!vars) <=> [OperatorWithFaults!Next]_(OperatorWithFaults!vars)
<1> USE
    DEF P!managedVars, OperatorWithFaults!managedVars,
        P!clusterVars, OperatorWithFaults!clusterVars,
        P!localVars, OperatorWithFaults!localVars, P!None, OperatorWithFaults!None,
        P!Versions, OperatorWithFaults!Versions,
        P!NoResource, OperatorWithFaults!NoResource, P!NoCopy, OperatorWithFaults!NoCopy,
        P!NoSubscription, OperatorWithFaults!NoSubscription
<1>1. P!Init <=> OperatorWithFaults!Init
  BY DEF P!Init, OperatorWithFaults!Init, P!ManagedInit, OperatorWithFaults!ManagedInit
<1> USE
    DEF P!ReadOutcomes, OperatorWithFaults!ReadOutcomes,
        P!WriteOutcomes, OperatorWithFaults!WriteOutcomes,
        P!CallOutcomes, OperatorWithFaults!CallOutcomes,
        P!SoleWorker, OperatorWithFaults!SoleWorker, P!Raced, OperatorWithFaults!Raced,
        P!Outcomes, OperatorWithFaults!Outcomes, P!Applied, OperatorWithFaults!Applied,
        P!Goto, OperatorWithFaults!Goto, P!Continue, OperatorWithFaults!Continue,
        P!Current, OperatorWithFaults!Current, P!At, OperatorWithFaults!At,
        P!Seen, OperatorWithFaults!Seen, P!Write, OperatorWithFaults!Write,
        P!Forget, OperatorWithFaults!Forget,
        P!GetPackageManifest, OperatorWithFaults!GetPackageManifest,
        P!ParsePackageManifest, OperatorWithFaults!ParsePackageManifest
<1>2. ASSUME NEW p, NEW o
      PROVE  /\ P!Reconcile(p, o) <=> OperatorWithFaults!Reconcile(p, o)
             /\ P!Outcomes = OperatorWithFaults!Outcomes
  BY DEF P!Reconcile, OperatorWithFaults!Reconcile, P!Work, OperatorWithFaults!Work,
         P!Connect, OperatorWithFaults!Connect,
         P!ObserveManifest, OperatorWithFaults!ObserveManifest,
         P!CheckCSV, OperatorWithFaults!CheckCSV, P!Observed, OperatorWithFaults!Observed,
         P!Publish, OperatorWithFaults!Publish, P!Finalizer, OperatorWithFaults!Finalizer,
         P!AddFinalizer, OperatorWithFaults!AddFinalizer,
         P!CreateOperator, OperatorWithFaults!CreateOperator,
         P!NewSubscription, OperatorWithFaults!NewSubscription,
         P!DeleteManifest, OperatorWithFaults!DeleteManifest,
         P!DeleteCSV, OperatorWithFaults!DeleteCSV,
         P!DeleteSubscription, OperatorWithFaults!DeleteSubscription,
         P!Finalize, OperatorWithFaults!Finalize,
         P!RemoveFinalizer, OperatorWithFaults!RemoveFinalizer,
         P!Report, OperatorWithFaults!Report,
         P!UpdateStatus, OperatorWithFaults!UpdateStatus
<1>3. ASSUME NEW p
      PROVE  /\ P!Begin(p) <=> OperatorWithFaults!Begin(p)
             /\ P!Exit(p) <=> OperatorWithFaults!Exit(p)
             /\ P!Elect(p) <=> OperatorWithFaults!Elect(p)
  BY DEF P!Begin, OperatorWithFaults!Begin, P!Start, OperatorWithFaults!Start,
         P!MayWork, OperatorWithFaults!MayWork, P!Exit, OperatorWithFaults!Exit,
         P!Stop, OperatorWithFaults!Stop, P!Elect, OperatorWithFaults!Elect
<1>4. P!User <=> OperatorWithFaults!User
  BY DEF P!User, OperatorWithFaults!User, P!UserCreate, OperatorWithFaults!UserCreate,
         P!UserDelete, OperatorWithFaults!UserDelete
<1>5. ASSUME NEW v
      PROVE  /\ P!Succeed(v) <=> OperatorWithFaults!Succeed(v)
             /\ P!Replace(v) <=> OperatorWithFaults!Replace(v)
  BY DEF P!Succeed, OperatorWithFaults!Succeed, P!Replace, OperatorWithFaults!Replace
<1>6. /\ P!Install <=> OperatorWithFaults!Install
      /\ P!Release <=> OperatorWithFaults!Release
      /\ P!Interfere <=> OperatorWithFaults!Interfere
  BY DEF P!Install, OperatorWithFaults!Install, P!Release, OperatorWithFaults!Release,
         P!Interfere, OperatorWithFaults!Interfere
<1>7. P!Next <=> OperatorWithFaults!Next
  BY <1>2, <1>3, <1>4, <1>5, <1>6 DEF P!Next, OperatorWithFaults!Next
<1>8. UNCHANGED P!vars <=> UNCHANGED OperatorWithFaults!vars
  BY DEF P!vars, OperatorWithFaults!vars
<1> QED
  BY <1>1, <1>7, <1>8

(***************************************************************************)
(* The provider implements Operator: whatever users do to the              *)
(* ProviderConfig and its secret, no other step of its reconcile is added  *)
(* or left out (client.go:117).                                            *)
(***************************************************************************)
THEOREM OperatorImplemented == Spec => ImplementsOperator
<1>1. Init => OperatorWithFaults!Init
  BY OperatorInit, SameOperator
<1>2. [Next]_vars => [OperatorWithFaults!Next]_(OperatorWithFaults!vars)
  BY OperatorStep, SameOperator
<1> QED
  BY <1>1, <1>2, PTL DEF Spec, ImplementsOperator, OperatorWithFaults!Spec

(***************************************************************************)
(* The same with the instance P, which brings the theorems about Operator. *)
(***************************************************************************)
LEMMA OperatorHolds == Spec => P!Spec
<1>1. Init => P!Init
  BY OperatorInit
<1>2. [Next]_vars => [P!Next]_(P!vars)
  BY OperatorStep
<1> QED
  BY <1>1, <1>2, PTL DEF Spec, P!Spec

(***************************************************************************)
(* The theorems about Operator therefore hold of the provider as a whole,  *)
(* however its connections fail and whatever panics: with a sole worker a  *)
(* CSV goes only for a later one or on request, and the Subscription       *)
(* follows the life cycle of the Operator.                                 *)
(***************************************************************************)
THEOREM OperatorKept ==
  ASSUME O!SoleWorker
  PROVE  Spec => P!CSVKept /\ P!SubscribesOnRequest
<1>1. P!SoleWorker
  BY DEF O!SoleWorker, P!SoleWorker
<1>2. P!Spec => P!CSVKept
  BY <1>1, Constants, P!CSVKeptUntilRequested
<1>3. P!Spec => P!SubscribesOnRequest
  BY <1>1, Constants, P!SubscriptionFollowsRequest
<1> QED
  BY <1>2, <1>3, OperatorHolds, PTL

-----------------------------------------------------------------------------
(* Types *)

OwnTypeOK ==
  /\ config \in ProviderConfig
  /\ secret \in Secrets \cup {NoSecret}
  /\ connecting \in [Procs -> Connecting]
  /\ accounting \in [Procs -> Accounting]

LEMMA OwnTypeInit == Init => OwnTypeOK
BY InClusterAssumption
   DEF Init, OwnTypeOK, ProviderConfig, NoConfig, Connecting, NotConnecting, Keys, Accounting

(***************************************************************************)
(* Connect asks for the secret under a key that some ProviderConfig names. *)
(***************************************************************************)
LEMMA ConnectType ==
  ASSUME OwnTypeOK, NEW p \in Procs, NEW o,
         GetProviderConfig(p, o) \/ GetCredentials(p, o) \/ NewClient(p, o)
  PROVE  OwnTypeOK'
<1>1. NotConnecting \in Connecting
  BY DEF NotConnecting, Connecting, Keys
<1>2. ASSUME NEW next \in {"config", "secret", "clients"}, NEW key \in Keys,
             Proceed(p, next, key)
      PROVE  connecting' \in [Procs -> Connecting]
  BY <1>2 DEF Proceed, OwnTypeOK, Connecting
<1>3. ASSUME connecting' = [connecting EXCEPT ![p] = NotConnecting]
      PROVE  connecting' \in [Procs -> Connecting]
  BY <1>1, <1>3 DEF OwnTypeOK
<1>4. NoKey \in Keys /\ config.credentials.key \in Keys
  BY DEF OwnTypeOK, ProviderConfig, Keys
<1>5. ASSUME UNCHANGED <<credentialVars, accounting>>,
             connecting' \in [Procs -> Connecting]
      PROVE  OwnTypeOK'
  BY <1>5 DEF OwnTypeOK, credentialVars
<1>6. CASE GetProviderConfig(p, o)
  BY <1>2, <1>3, <1>4, <1>5, <1>6 DEF GetProviderConfig, Disconnect
<1>7. CASE GetCredentials(p, o)
  <2>1. CASE Panic(p)
    <3>1. accounting' \in [Procs -> Accounting] /\ UNCHANGED credentialVars
      BY <2>1 DEF Panic, Restart, OwnTypeOK, Accounting
    <3>2. connecting' \in [Procs -> Connecting]
      BY <1>3, <2>1 DEF Panic, Restart
    <3> QED
      BY <3>1, <3>2 DEF OwnTypeOK, credentialVars
  <2>2. CASE Proceed(p, "clients", NoKey) /\ UNCHANGED <<credentialVars, accounting>>
    BY <1>2, <1>4, <1>5, <2>2
  <2>3. CASE Disconnect(p) /\ UNCHANGED <<credentialVars, accounting>>
    BY <1>3, <1>5, <2>3 DEF Disconnect
  <2> QED
    BY <1>7, <2>1, <2>2, <2>3 DEF GetCredentials
<1>8. CASE NewClient(p, o)
  BY <1>3, <1>5, <1>8 DEF NewClient
<1> QED
  BY <1>6, <1>7, <1>8

LEMMA OwnTypeNext ==
  ASSUME OwnTypeOK, [Next]_vars
  PROVE  OwnTypeOK'
<1>1. CASE UNCHANGED ownVars
  BY <1>1 DEF OwnTypeOK, ownVars, credentialVars, processVars
<1>2. ASSUME NEW p \in Procs, NEW o, Reconcile(p, o)
      PROVE  OwnTypeOK'
  BY <1>1, <1>2, ConnectType DEF Reconcile, ownVars
<1>3. ASSUME config' \in ProviderConfig, UNCHANGED <<secret, connecting>>,
             accounting' \in [Procs -> Accounting]
      PROVE  OwnTypeOK'
  BY <1>3 DEF OwnTypeOK
<1>4. \A q \in Procs : Outdate(q) \in Accounting
  BY DEF Outdate, OwnTypeOK, Accounting
<1>5. NoConfig \in ProviderConfig
  BY InClusterAssumption DEF NoConfig, ProviderConfig
<1>6. ASSUME NEW p \in Procs, CountUsages(p)
      PROVE  OwnTypeOK'
  BY <1>6 DEF CountUsages, OwnTypeOK, credentialVars, Accounting
<1>7. ASSUME NEW p \in Procs, NEW o, Settle(p, o)
      PROVE  OwnTypeOK'
  <2>1. [config EXCEPT !.finalizer = TRUE] \in ProviderConfig
    BY DEF OwnTypeOK, ProviderConfig
  <2>2. config' \in ProviderConfig
    BY <1>5, <1>7, <2>1 DEF Settle, OwnTypeOK
  <2>3. accounting' \in [Procs -> Accounting]
    BY <1>4, <1>7 DEF Settle, Accounting
  <2> QED
    BY <1>3, <1>7, <2>2, <2>3 DEF Settle
<1>8. ASSUME NEW p \in Procs, Exit(p)
      PROVE  OwnTypeOK'
  BY <1>8 DEF Exit, Restart, OwnTypeOK, credentialVars, Connecting, NotConnecting, Keys,
     Accounting
<1>9. CASE UserConfig \/ UserDeleteConfig
  <2>1. config' \in ProviderConfig
    BY <1>5, <1>9 DEF UserConfig, UserDeleteConfig, OwnTypeOK, ProviderConfig
  <2> QED
    BY <1>3, <1>4, <1>9, <2>1 DEF UserConfig, UserDeleteConfig
<1>10. CASE UserSecret
  BY <1>10 DEF UserSecret, OwnTypeOK, processVars
<1> QED
  BY <1>1, <1>2, <1>6, <1>7, <1>8, <1>9, <1>10 DEF Next, Elect, Around, ownVars, vars

(***************************************************************************)
(* The types hold in every behaviour, for any number of processes and      *)
(* whatever users write into the ProviderConfig and its secret; those of   *)
(* the controller come from module Operator (client.go:48).                *)
(***************************************************************************)
THEOREM TypeCorrect == Spec => []TypeOK
<1>1. Init => OwnTypeOK
  BY OwnTypeInit
<1>2. OwnTypeOK /\ [Next]_vars => OwnTypeOK'
  BY OwnTypeNext
<1>3. P!Spec => []P!TypeOK
  BY Constants, P!TypeCorrect
<1>4. P!TypeOK <=> O!TypeOK
  BY DEF P!TypeOK, O!TypeOK, P!ManagedTypeOK, O!ManagedTypeOK, P!Resource, O!Resource,
         P!Copy, O!Copy, P!Labels, O!Labels, P!ReconcileLabels, O!ReconcileLabels,
         P!DeleteLabels, O!DeleteLabels, P!Versions, O!Versions, P!None, O!None
<1>5. O!TypeOK /\ OwnTypeOK => TypeOK
  BY DEF TypeOK, OwnTypeOK
<1> QED
  BY <1>1, <1>2, <1>3, <1>4, <1>5, OperatorHolds, PTL DEF Spec

-----------------------------------------------------------------------------
(* Connect returns *)

PanicStep ==
  \A p \in Procs : pc[p] = "connect" /\ pc'[p] = "idle" /\ ~Exit(p) => Panicking

LEMMA PanicNext ==
  ASSUME pc = [p \in Procs |-> pc[p]], Next
  PROVE  PanicStep
<1> SUFFICES ASSUME NEW p \in Procs, pc[p] = "connect", pc'[p] = "idle", ~Exit(p)
             PROVE  Panicking
  BY DEF PanicStep
<1> USE DEF O!Goto
<1>1. ASSUME NEW q \in Procs, NEW l, O!Goto(q, l)
      PROVE  q = p /\ l = "idle"
  BY <1>1
<1>2. ASSUME NEW q \in Procs, Disconnect(q) PROVE FALSE
  BY <1>1, <1>2 DEF Disconnect
<1>3. ASSUME NEW q \in Procs, NEW next, NEW key, Proceed(q, next, key) PROVE FALSE
  BY <1>3 DEF Proceed, operatorVars, managedVars
<1>4. ASSUME NEW q \in Procs, NEW o \in O!Outcomes, Reconcile(q, o)
      PROVE  Panicking
  <2>1. CASE GetProviderConfig(q, o)
    BY <1>2, <1>3, <2>1 DEF GetProviderConfig
  <2>2. CASE NewClient(q, o)
    BY <1>1, <2>2 DEF NewClient, O!Connect, O!Continue
  <2>3. CASE GetCredentials(q, o)
    <3> DEFINE content == secret.data[connecting[q].key]
    <3>1. FromSecret(secret, connecting[q].key).outcome = "panic"
      BY <1>2, <1>3, <2>3 DEF GetCredentials, Fails
    <3>2. /\ connecting[q].key \in DOMAIN secret.data
          /\ NewRestConfig(content).outcome = "panic"
      BY <3>1 DEF FromSecret, Fails
    <3>3. content # Unparsable
      BY <3>2 DEF NewRestConfig, Fails
    <3>4. Dangling(content)
      BY <3>2, <3>3, PanicsOnDanglingOnly
    <3> QED
      BY <3>2, <3>4 DEF Panicking
  <2>4. CASE O!Work(q, o)
    <3>1. q = p
      BY <1>1, <2>4 DEF O!Work, O!ObserveManifest, O!Observed, O!CheckCSV, O!Publish,
         O!Finalizer, O!AddFinalizer, O!CreateOperator, O!DeleteManifest, O!DeleteCSV,
         O!DeleteSubscription, O!Finalize, O!RemoveFinalizer, O!Report, O!UpdateStatus,
         O!Continue
    <3>2. pc[q] # "connect"
      BY <2>4 DEF O!Work, O!ObserveManifest, O!CheckCSV, O!Publish, O!Finalizer,
         O!AddFinalizer, O!CreateOperator, O!DeleteManifest, O!DeleteCSV,
         O!DeleteSubscription, O!Finalize, O!RemoveFinalizer, O!Report, O!UpdateStatus
    <3> QED
      BY <3>1, <3>2
  <2> QED
    BY <1>4, <2>1, <2>2, <2>3, <2>4 DEF Reconcile
<1>5. ASSUME NEW q \in Procs, Exit(q) PROVE FALSE
  BY <1>1, <1>5 DEF Exit, O!Exit, O!Stop
<1>6. ASSUME NEW q \in Procs, NEW o, Settle(q, o) \/ CountUsages(q) \/ Elect(q)
      PROVE  FALSE
  BY <1>6 DEF Settle, CountUsages, Elect, O!Elect, operatorVars, managedVars
<1>7. CASE Around
  <2>1. ASSUME NEW q \in Procs, O!Begin(q) PROVE FALSE
    BY <1>1, <2>1 DEF O!Begin, O!Start
  <2>2. CASE O!User \/ O!Install \/ (\E v \in O!Versions : O!Succeed(v) \/ O!Replace(v))
             \/ O!Release
    BY <2>2 DEF O!User, O!UserCreate, O!UserDelete, O!Install, O!Succeed, O!Replace,
       O!Release, O!managedVars
  <2> QED
    BY <1>7, <2>1, <2>2 DEF Around
<1>8. CASE UserConfig \/ UserDeleteConfig \/ UserSecret
  BY <1>8 DEF UserConfig, UserDeleteConfig, UserSecret, operatorVars, managedVars
<1> QED
  BY <1>4, <1>5, <1>6, <1>7, <1>8 DEF Next

(***************************************************************************)
(* A reconcile that is in Connect and then is not there any more ended     *)
(* with its process, or the secret holds a kubeconfig whose current        *)
(* context is named and missing: nothing else makes Connect panic,         *)
(* whatever users write while it reads (client.go:72, 116).                *)
(***************************************************************************)
THEOREM ConnectReturnsUnlessDangling ==
  Spec => [][\A p \in Procs :
               pc[p] = "connect" /\ pc'[p] = "idle" /\ ~Exit(p) => Panicking]_vars
<1>1. TypeOK /\ [Next]_vars => [PanicStep]_vars
  BY PanicNext DEF TypeOK, O!TypeOK, O!ManagedTypeOK
<1>2. Spec => [][PanicStep]_vars
  BY <1>1, TypeCorrect, PTL DEF Spec
<1> QED
  BY <1>2 DEF PanicStep

=============================================================================
