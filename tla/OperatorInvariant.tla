-------------------------- MODULE OperatorInvariant --------------------------
(***************************************************************************)
(* The inductive invariant of Operator: what every reconcile in progress   *)
(* may rely on while users, OLM and failures change the world around it,   *)
(* when at most one process works (SoleWorker).                            *)
(***************************************************************************)
EXTENDS Operator

ObserveLabels == {"connect", "observeManifest", "checkCSV"}

(***************************************************************************)
(* A step that asks for a CSV has read which one; this needs no SoleWorker.*)
(***************************************************************************)
CSVInv ==
  \A p \in Procs : pc[p] \in {"checkCSV", "deleteCSV"} => csv[p] \in Versions

(***************************************************************************)
(* What a reconcile knows at each of its steps.                            *)
(***************************************************************************)
StepInv(p) ==
  /\ pc[p] \in ObserveLabels \cup DeleteLabels /\ managed[p].deleting =>
       managed[p].spec.policy = "Delete"
  /\ pc[p] \in {"publishObserved", "addFinalizer"} => ~managed[p].deleting
  /\ pc[p] \in {"createOperator", "publishResult"} =>
       managed[p].finalizer /\ ~managed[p].deleting
  /\ pc[p] \in DeleteLabels => managed[p].deleting

(***************************************************************************)
(* The inductive invariant: with a sole worker, a reconcile acts on what   *)
(* the stored resource still says.  Under the finalizer its copy has the   *)
(* spec of the resource, Create runs under it, and Delete only for a       *)
(* resource whose deletion was requested with policy Delete                *)
(* (operator.go:124-164).                                                  *)
(***************************************************************************)
IInv ==
  /\ TypeOK
  /\ SpecInv
  /\ CSVInv
  /\ ManagedInv
  /\ \A p \in Procs : StepInv(p)

=============================================================================
