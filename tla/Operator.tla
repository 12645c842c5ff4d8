------------------------------ MODULE Operator ------------------------------
(***************************************************************************)
(* The Operator controller: pkg/controller/olm/operator driving            *)
(* pkg/client/olm/operator from the managed reconciler.  It subscribes to  *)
(* a package of OLM, the Operator Lifecycle Manager, and OLM installs the  *)
(* ClusterServiceVersion (CSV) that the package's channel is at.           *)
(*                                                                         *)
(* The controller keeps no record of the CSV: it asks the catalog for the  *)
(* current one whenever it observes or deletes, while OLM installs and     *)
(* replaces CSVs at its own pace.                                          *)
(***************************************************************************)
EXTENDS Managed

CONSTANTS
  MaxVersion,   \* the last version the channel reaches
  Drift         \* what others do to the Subscription and to the catalog

ASSUME OperatorAssumption ==
  /\ MaxVersion \in Nat \ {0}
  /\ Drift \subseteq {"subscription", "withdraw", "relist"}

VARIABLES
  subscription,   \* the Subscription, and the version OLM installed for it last
  phase,          \* phase[v]: the CSV of version v
  catalog,        \* what the catalog lists, and the version the channel is at
  observed,       \* observed[p]: the result of Observe in p's reconcile
  csv             \* csv[p]: the version p read from the package manifest

clusterVars == <<subscription, phase, catalog>>
localVars   == <<observed, csv>>
vars        == <<managedVars, clusterVars, localVars>>

Versions == 1..MaxVersion
None     == 0

NoSubscription == [exists |-> FALSE, installed |-> None]

ReconcileLabels == {"connect", "observeManifest", "checkCSV", "publishObserved",
                    "addFinalizer", "createOperator", "publishResult"}
DeleteLabels    == {"deleteManifest", "deleteCSV", "deleteSubscription"}
Labels == {"idle", "finalize", "updateStatus"} \cup ReconcileLabels \cup DeleteLabels

TypeOK ==
  /\ ManagedTypeOK /\ pc \in [Procs -> Labels]
  /\ subscription \in [exists : BOOLEAN, installed : Versions \cup {None}]
  /\ phase \in [Versions -> {"absent", "installing", "succeeded"}]
  /\ catalog \in [lists : {"nothing", "package", "channel"}, head : Versions]
  /\ observed \in [Procs -> {"unknown", "absent", "progressing", "ready"}]
  /\ csv \in [Procs -> Versions \cup {None}]

Init ==
  /\ ManagedInit
  /\ subscription = NoSubscription
  /\ phase = [v \in Versions |-> "absent"]
  /\ catalog = [lists |-> "channel", head |-> 1]
  /\ observed = [p \in Procs |-> "unknown"]
  /\ csv = [p \in Procs |-> None]

-----------------------------------------------------------------------------
(* Connect and Observe *)

Connect(p, o) ==
  /\ pc[p] = "connect"
  /\ o \in ReadOutcomes
  /\ Continue(p, o = "ok", "observeManifest")
  /\ UNCHANGED <<resource, managed, leader, clusterVars, localVars>>

(***************************************************************************)
(* A package that is not listed is an error like any other.                *)
(***************************************************************************)
GetPackageManifest(o) == o = "ok" /\ catalog.lists # "nothing"

(* The current CSV of the channel, None when the package lacks the channel. *)
ParsePackageManifest == IF catalog.lists = "channel" THEN catalog.head ELSE None

Observed(p, result) ==
  /\ observed' = [observed EXCEPT ![p] = result]
  /\ Goto(p, IF ~managed[p].deleting THEN "publishObserved"
             ELSE IF result = "absent" THEN "finalize"
             ELSE "deleteManifest")

ObserveManifest(p, o) ==
  /\ pc[p] = "observeManifest"
  /\ o \in ReadOutcomes
  /\ csv' = [csv EXCEPT ![p] = IF GetPackageManifest(o) THEN ParsePackageManifest
                               ELSE None]
  /\ \/ /\ ~GetPackageManifest(o)
        /\ Goto(p, "updateStatus")
        /\ UNCHANGED observed
     \/ /\ GetPackageManifest(o) /\ ParsePackageManifest = None
        /\ Observed(p, "absent")
     \/ /\ GetPackageManifest(o) /\ ParsePackageManifest # None
        /\ Goto(p, "checkCSV")
        /\ UNCHANGED observed
  /\ UNCHANGED <<resource, managed, leader, clusterVars>>

(* Faulty: a CSV that is not found is reported as not up to date. *)
CheckCSVExists(p, o) ==
  /\ pc[p] = "checkCSV"
  /\ o \in ReadOutcomes
  /\ LET succeeded == o = "ok" /\ phase[csv[p]] = "succeeded"
     IN /\ Observed(p, IF succeeded THEN "ready" ELSE "progressing")
        /\ managed' = [managed EXCEPT ![p].ready = @ \/ succeeded]
  /\ UNCHANGED <<resource, leader, clusterVars, csv>>

(***************************************************************************)
(* Any error of the read counts as a CSV that does not exist.  Available   *)
(* is the only condition the controller ever sets.                         *)
(***************************************************************************)
CheckCSV(p, o) ==
  /\ pc[p] = "checkCSV"
  /\ o \in ReadOutcomes
  /\ LET exists  == o = "ok" /\ phase[csv[p]] # "absent"
         updated == exists /\ phase[csv[p]] = "succeeded"
     IN /\ Observed(p, IF updated THEN "ready"
                       ELSE IF exists THEN "progressing" ELSE "absent")
        /\ managed' = [managed EXCEPT ![p].ready = @ \/ updated]
  /\ UNCHANGED <<resource, leader, clusterVars, csv>>

-----------------------------------------------------------------------------
(* Create and Update *)

(***************************************************************************)
(* The connection details are empty; only the failure of their publication *)
(* matters, which reads the secret before it writes it.                    *)
(***************************************************************************)
Publish(p, o) ==
  /\ o \in CallOutcomes \cup Raced
  /\ \/ pc[p] = "publishObserved" /\ Continue(p, o = "ok", "addFinalizer")
     \/ pc[p] = "publishResult" /\ Goto(p, "updateStatus")
  /\ UNCHANGED <<resource, managed, leader, clusterVars, localVars>>

(***************************************************************************)
(* Create runs when nothing exists.  Update, which runs when the CSV has   *)
(* not succeeded yet, does nothing but have its result published.          *)
(***************************************************************************)
Finalizer(p, o) ==
  /\ AddFinalizer(p, o, CASE observed[p] = "absent"      -> "createOperator"
                          [] observed[p] = "progressing" -> "publishResult"
                          [] OTHER                       -> "updateStatus")
  /\ UNCHANGED <<clusterVars, localVars>>

(* Faulty: the package is not set. *)
NewSubscriptionUnset == [exists |-> TRUE]

NewSubscription == [exists |-> TRUE, installed |-> None]

(* Faulty: what an existing Subscription installed is removed, to start anew. *)
CreateOperatorReplacing(p, o) ==
  /\ pc[p] = "createOperator"
  /\ o \in WriteOutcomes
  /\ subscription' = IF ~Applied(o) THEN subscription
                     ELSE IF subscription.exists THEN NoSubscription
                     ELSE NewSubscription
  /\ phase' = IF Applied(o) THEN [v \in Versions |-> "absent"] ELSE phase
  /\ Continue(p, o = "ok", "publishResult")
  /\ UNCHANGED <<resource, managed, leader, catalog, localVars>>

(***************************************************************************)
(* A Subscription that exists already stays as it is and is no error.      *)
(***************************************************************************)
CreateOperator(p, o) ==
  /\ pc[p] = "createOperator"
  /\ o \in WriteOutcomes
  /\ subscription' = IF ~subscription.exists /\ Applied(o) THEN NewSubscription
                     ELSE subscription
  /\ Continue(p, o = "ok", "publishResult")
  /\ UNCHANGED <<resource, managed, leader, phase, catalog, localVars>>

-----------------------------------------------------------------------------
(* Delete *)

(***************************************************************************)
(* Without a manifest or a channel only the Subscription is deleted.       *)
(***************************************************************************)
DeleteManifest(p, o) ==
  LET current == IF GetPackageManifest(o) THEN ParsePackageManifest ELSE None
  IN /\ pc[p] = "deleteManifest"
     /\ o \in ReadOutcomes
     /\ csv' = [csv EXCEPT ![p] = current]
     /\ Goto(p, IF current = None THEN "deleteSubscription" ELSE "deleteCSV")
     /\ UNCHANGED <<resource, managed, leader, clusterVars, observed>>

(***************************************************************************)
(* Every error ends Delete, also that of a CSV that does not exist, when   *)
(* it is read or by the time it is deleted.                                *)
(***************************************************************************)
DeleteCSV(p, o) ==
  LET exists == phase[csv[p]] # "absent"
  IN /\ pc[p] = "deleteCSV"
     /\ o \in IF exists THEN CallOutcomes ELSE ReadOutcomes
     /\ phase' = IF exists /\ Applied(o) THEN [phase EXCEPT ![csv[p]] = "absent"]
                 ELSE phase
     /\ Continue(p, exists /\ o = "ok", "deleteSubscription")
     /\ UNCHANGED <<resource, managed, leader, subscription, catalog, localVars>>

DeleteSubscription(p, o) ==
  /\ pc[p] = "deleteSubscription"
  /\ o \in IF subscription.exists THEN CallOutcomes ELSE ReadOutcomes
  /\ subscription' = IF Applied(o) THEN NoSubscription ELSE subscription
  /\ Goto(p, "updateStatus")
  /\ UNCHANGED <<resource, managed, leader, phase, catalog, localVars>>

-----------------------------------------------------------------------------
(* The reconcile *)

Forget(p) ==
  /\ observed' = [observed EXCEPT ![p] = "unknown"]
  /\ csv' = [csv EXCEPT ![p] = None]

Finalize(p, o) == RemoveFinalizer(p, o) /\ Forget(p) /\ UNCHANGED clusterVars

Report(p, o) == UpdateStatus(p, o) /\ Forget(p) /\ UNCHANGED clusterVars

Begin(p) == Start(p) /\ UNCHANGED <<clusterVars, localVars>>

Exit(p) == Stop(p) /\ Forget(p) /\ UNCHANGED clusterVars

(* What a reconcile does once it is connected. *)
Work(p, o) ==
  \/ ObserveManifest(p, o)
  \/ CheckCSV(p, o)
  \/ Publish(p, o)
  \/ Finalizer(p, o)
  \/ CreateOperator(p, o)
  \/ DeleteManifest(p, o)
  \/ DeleteCSV(p, o)
  \/ DeleteSubscription(p, o)
  \/ Finalize(p, o)
  \/ Report(p, o)

Reconcile(p, o) == Connect(p, o) \/ Work(p, o)

-----------------------------------------------------------------------------
(* Users, OLM and the catalog *)

User == (UserCreate \/ UserDelete) /\ UNCHANGED <<clusterVars, localVars>>

(***************************************************************************)
(* OLM installs each version once for a Subscription: the one the channel  *)
(* is at.  A CSV that somebody deletes is not installed again.             *)
(***************************************************************************)
Install ==
  /\ subscription.exists
  /\ ParsePackageManifest \notin {None, subscription.installed}
  /\ subscription' = [subscription EXCEPT !.installed = catalog.head]
  /\ phase' = [phase EXCEPT ![catalog.head] = IF @ = "absent" THEN "installing" ELSE @]
  /\ UNCHANGED <<managedVars, catalog, localVars>>

Succeed(v) ==
  /\ phase[v] = "installing"
  /\ phase' = [phase EXCEPT ![v] = "succeeded"]
  /\ UNCHANGED <<managedVars, subscription, catalog, localVars>>

(* A version that has succeeded takes the place of the one before it. *)
Replace(v) ==
  /\ phase[v] # "absent"
  /\ \E w \in Versions : w > v /\ phase[w] = "succeeded"
  /\ phase' = [phase EXCEPT ![v] = "absent"]
  /\ UNCHANGED <<managedVars, subscription, catalog, localVars>>

Release ==
  /\ catalog.head < MaxVersion
  /\ catalog' = [catalog EXCEPT !.head = @ + 1]
  /\ UNCHANGED <<managedVars, subscription, phase, localVars>>

(***************************************************************************)
(* The package leaves the catalog, or it comes back, with the channel or   *)
(* without; another client removes the Subscription.                       *)
(***************************************************************************)
Interfere ==
  /\ \/ /\ "withdraw" \in Drift
        /\ catalog.lists # "nothing"
        /\ catalog' = [catalog EXCEPT !.lists = "nothing"]
        /\ UNCHANGED subscription
     \/ /\ "relist" \in Drift
        /\ \E l \in {"package", "channel"} \ {catalog.lists} :
             catalog' = [catalog EXCEPT !.lists = l]
        /\ UNCHANGED subscription
     \/ /\ "subscription" \in Drift
        /\ subscription.exists
        /\ subscription' = NoSubscription
        /\ UNCHANGED catalog
  /\ UNCHANGED <<managedVars, phase, localVars>>

Next ==
  \/ \E p \in Procs, o \in Outcomes : Reconcile(p, o)
  \/ \E p \in Procs : Begin(p) \/ Exit(p)
  \/ \E p \in Procs : Elect(p) /\ UNCHANGED <<clusterVars, localVars>>
  \/ User
  \/ Install
  \/ \E v \in Versions : Succeed(v) \/ Replace(v)
  \/ Release
  \/ Interfere

Spec == Init /\ [][Next]_vars

-----------------------------------------------------------------------------
(* Properties *)

(***************************************************************************)
(* With the Subscription as the external resource, this controller keeps a *)
(* part of the life cycle of a managed resource: it subscribes only under  *)
(* the finalizer and unsubscribes only on request (operator.go:126, 145).  *)
(* What others do to the Subscription is none of its steps.                *)
(***************************************************************************)
LC == INSTANCE Lifecycle WITH
        Unattended <- FALSE,
        Abandons   <- TRUE,
        object     <- IF ~resource.exists THEN "absent"
                      ELSE IF resource.deleting THEN "deleting" ELSE "live",
        policy     <- IF resource.exists THEN resource.spec.policy ELSE "none",
        held       <- resource.finalizer,
        external   <- subscription.exists

SubscribesOnRequest == LC!Init /\ [][LC!Next \/ Interfere]_(LC!vars)

(***************************************************************************)
(* The part it does not keep: a deleted Operator with policy Delete does   *)
(* not go before its Subscription (package/crds, deletionPolicy).          *)
(***************************************************************************)
NothingLeftBehind ==
  [][resource.deleting /\ ~resource'.exists /\ resource.spec.policy = "Delete"
       => ~subscription.exists]_vars

(***************************************************************************)
(* A CSV goes only when a later version has succeeded, or for a resource   *)
(* whose deletion was requested and whose policy is Delete, whatever the   *)
(* catalog and OLM do while the deletion runs (operator.go:145-164).       *)
(***************************************************************************)
CSVKept ==
  [][\A v \in Versions : phase[v] # "absent" /\ phase'[v] = "absent" =>
       \/ resource.deleting /\ resource.spec.policy = "Delete"
       \/ \E w \in Versions : w > v /\ phase[w] = "succeeded"]_vars

=============================================================================
