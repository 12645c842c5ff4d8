------------------------------ MODULE Managed ------------------------------
(***************************************************************************)
(* The part of a reconcile that every managed resource of the provider     *)
(* shares: the managed resource as the API server stores it, the copy each *)
(* provider process works on, and the steps of the managed reconciler that *)
(* touch nothing else.  pkg/controller wires the controllers into this     *)
(* reconciler (managed.NewReconciler of crossplane-runtime v0.10); its     *)
(* code is a library, so it is modelled from what the controllers under    *)
(* src/ rely on.  A controller's module EXTENDS this one and adds the      *)
(* objects it keeps in the cluster and the labels of its own steps.        *)
(*                                                                         *)
(* One managed resource is modelled; the work queue of a process never     *)
(* runs two reconciles of one resource at once, so a process is one        *)
(* program counter.  Procs with more than one element are provider         *)
(* processes running side by side, which only leader election prevents.    *)
(***************************************************************************)
EXTENDS Naturals

CONSTANTS
  Procs,            \* provider processes (replicas, or old and new pod of a rollout)
  Specs,            \* the specs a user may create the resource with
  NoSpec,           \* the spec of a resource that does not exist
  Faults,           \* which faults the environment may inject
  LeaderElection,   \* the --leader-election flag of cmd/provider
  NoProc            \* nobody holds the lease

FaultKinds == {"readFail", "writeFail", "writeLost", "crash"}

ASSUME ManagedAssumption ==
  /\ Faults \subseteq FaultKinds
  /\ LeaderElection \in BOOLEAN
  /\ NoSpec \notin Specs
  /\ NoProc \notin Procs
  /\ \A s \in Specs : s.policy \in {"Delete", "Orphan"}

VARIABLES
  resource,   \* the managed resource in the API server
  managed,    \* managed[p]: the in-memory copy p's reconcile works on
  pc,         \* pc[p]: the next step of p's reconcile
  leader      \* the process holding the lease, when leader election is on

managedVars == <<resource, managed, pc, leader>>

(***************************************************************************)
(* The stored resource.  ready is the status of its Ready condition.       *)
(***************************************************************************)
Resource == [exists : BOOLEAN, deleting : BOOLEAN, finalizer : BOOLEAN,
             ready : BOOLEAN, spec : Specs \cup {NoSpec}]

NoResource == [exists |-> FALSE, deleting |-> FALSE, finalizer |-> FALSE,
               ready |-> FALSE, spec |-> NoSpec]

(***************************************************************************)
(* A copy and how its resourceVersion compares with the stored one:        *)
(* "latest", "outdated" (the resource was written since), or "gone" (the   *)
(* incarnation it was read from no longer exists).                         *)
(***************************************************************************)
Copy == [deleting : BOOLEAN, finalizer : BOOLEAN, ready : BOOLEAN,
         spec : Specs \cup {NoSpec}, version : {"latest", "outdated", "gone"}]

NoCopy == [deleting |-> FALSE, finalizer |-> FALSE, ready |-> FALSE,
           spec |-> NoSpec, version |-> "gone"]

(* A controller adds which labels its processes can be at. *)
ManagedTypeOK ==
  /\ resource \in Resource
  /\ managed \in [Procs -> Copy]
  /\ pc = [p \in Procs |-> pc[p]]
  /\ leader \in Procs \cup {NoProc}

ManagedInit ==
  /\ resource = NoResource
  /\ managed = [p \in Procs |-> NoCopy]
  /\ pc = [p \in Procs |-> "idle"]
  /\ leader = NoProc

-----------------------------------------------------------------------------
(***************************************************************************)
(* At most one process works: there is one, or leader election keeps all   *)
(* but one idle.                                                           *)
(***************************************************************************)
SoleWorker == LeaderElection \/ \A p, q \in Procs : p = q

(***************************************************************************)
(* API calls.  Every call has an outcome: it succeeds, it fails without an *)
(* effect, or (a write) it takes effect and its reply is lost, which the   *)
(* caller sees as an error.                                                *)
(*                                                                         *)
(* Code that reads an object and then writes it is one step, taken at the  *)
(* write or, when there is none, at the read.  What that leaves out is a   *)
(* write refused because another process wrote in between: a conflict.     *)
(***************************************************************************)
ReadOutcomes  == {"ok"} \cup (Faults \cap {"readFail"})
WriteOutcomes == {"ok"} \cup (Faults \cap {"writeFail", "writeLost"})
CallOutcomes  == ReadOutcomes \cup WriteOutcomes
Raced         == IF SoleWorker THEN {} ELSE {"conflict"}
Outcomes      == CallOutcomes \cup {"conflict"}

Applied(o) == o \in {"ok", "writeLost"}

Goto(p, l) == pc' = [pc EXCEPT ![p] = l]

(***************************************************************************)
(* Every error of a reconcile ends it with a status update.                *)
(***************************************************************************)
Continue(p, success, l) == Goto(p, IF success THEN l ELSE "updateStatus")

Current(p) == managed[p].version = "latest"

At(copy, version) == [copy EXCEPT !.version = version]

(***************************************************************************)
(* What the step from resource to resource' does to q's copy of it.        *)
(***************************************************************************)
Seen(q) == At(managed[q], IF ~resource'.exists THEN "gone"
                          ELSE IF Current(q) /\ resource' # resource THEN "outdated"
                          ELSE managed[q].version)

(***************************************************************************)
(* An Update carries the copy's resourceVersion: the server takes it only  *)
(* from a copy of the latest version.  copy is what p holds afterwards.    *)
(***************************************************************************)
Write(p, o, new, copy) ==
  /\ resource' = IF Current(p) /\ Applied(o) THEN new ELSE resource
  /\ managed' = [q \in Procs |-> IF q = p THEN copy ELSE Seen(q)]

-----------------------------------------------------------------------------
(* The steps of a reconcile *)

(* Faulty: the flag never reaches the manager. *)
MayWorkAlways(p) == TRUE

MayWork(p) == LeaderElection => leader = p

(***************************************************************************)
(* The reconcile reads the resource.  A deleted resource whose external    *)
(* objects are to be orphaned goes straight to the removal of its          *)
(* finalizer.                                                              *)
(***************************************************************************)
Start(p) ==
  /\ pc[p] = "idle"
  /\ resource.exists
  /\ MayWork(p)
  /\ managed' = [managed EXCEPT ![p] =
                   [deleting |-> resource.deleting, finalizer |-> resource.finalizer,
                    ready |-> resource.ready, spec |-> resource.spec,
                    version |-> "latest"]]
  /\ Goto(p, IF resource.deleting /\ resource.spec.policy = "Orphan"
             THEN "finalize" ELSE "connect")
  /\ UNCHANGED <<resource, leader>>

(***************************************************************************)
(* AddFinalizer writes nothing when the copy already has the finalizer.    *)
(***************************************************************************)
AddFinalizer(p, o, next) ==
  /\ pc[p] = "addFinalizer"
  /\ \/ /\ managed[p].finalizer
        /\ o = "ok"
        /\ Goto(p, next)
        /\ UNCHANGED <<resource, managed>>
     \/ /\ ~managed[p].finalizer
        /\ o \in WriteOutcomes
        /\ LET accepted == Current(p) /\ o = "ok"
           IN /\ Write(p, o, [resource EXCEPT !.finalizer = TRUE],
                       At([managed[p] EXCEPT !.finalizer = accepted],
                          IF Current(p) /\ o = "writeLost" THEN "outdated"
                          ELSE managed[p].version))
              /\ Continue(p, accepted, next)
  /\ UNCHANGED leader

(***************************************************************************)
(* The finalizer is the only one on the resource, so its removal from a    *)
(* deleted resource makes the resource disappear.  A resource that is not  *)
(* found any more counts as success.                                       *)
(***************************************************************************)
RemoveFinalizer(p, o) ==
  /\ pc[p] = "finalize"
  /\ o \in WriteOutcomes
  /\ LET accepted == o = "ok" /\ (Current(p) \/ ~resource.exists)
     IN /\ Write(p, o, NoResource,
                 IF accepted THEN NoCopy
                 ELSE At(managed[p], IF Current(p) /\ Applied(o) THEN "gone"
                                     ELSE managed[p].version))
        /\ Goto(p, IF accepted THEN "idle" ELSE "updateStatus")
  /\ UNCHANGED leader

(***************************************************************************)
(* Status().Update, the last call of every other reconcile.  Whether it    *)
(* succeeds or not, the resource is queued again.                          *)
(***************************************************************************)
UpdateStatus(p, o) ==
  /\ pc[p] = "updateStatus"
  /\ o \in WriteOutcomes
  /\ Write(p, o, [resource EXCEPT !.ready = managed[p].ready], NoCopy)
  /\ Goto(p, "idle")
  /\ UNCHANGED leader

-----------------------------------------------------------------------------
(* Processes and users *)

(* Faulty: a process that loses the lease finishes its reconcile. *)
StopLingering(p) ==
  /\ leader = p
  /\ leader' = NoProc
  /\ UNCHANGED <<resource, managed, pc>>

(***************************************************************************)
(* A process exits: it crashes in the middle of a reconcile, or it loses   *)
(* the lease, which makes mgr.Start return and main exit.  The process is  *)
(* restarted with an empty memory.                                         *)
(***************************************************************************)
Stop(p) ==
  /\ \/ "crash" \in Faults /\ pc[p] # "idle"
     \/ leader = p
  /\ Goto(p, "idle")
  /\ managed' = [managed EXCEPT ![p] = NoCopy]
  /\ leader' = IF leader = p THEN NoProc ELSE leader
  /\ UNCHANGED resource

Elect(p) ==
  /\ LeaderElection
  /\ leader = NoProc
  /\ leader' = p
  /\ UNCHANGED <<resource, managed, pc>>

UserCreate ==
  /\ ~resource.exists
  /\ \E s \in Specs : resource' = [NoResource EXCEPT !.exists = TRUE, !.spec = s]
  /\ managed' = [q \in Procs |-> Seen(q)]
  /\ UNCHANGED <<pc, leader>>

(***************************************************************************)
(* A resource with a finalizer is only marked; without one it goes at once.*)
(***************************************************************************)
UserDelete ==
  /\ resource.exists
  /\ ~resource.deleting
  /\ resource' = IF resource.finalizer THEN [resource EXCEPT !.deleting = TRUE]
                 ELSE NoResource
  /\ managed' = [q \in Procs |-> Seen(q)]
  /\ UNCHANGED <<pc, leader>>

-----------------------------------------------------------------------------
(* What every controller may rely on *)

Busy(p) == pc[p] # "idle"

(***************************************************************************)
(* Where a reconcile still trusts what it has read: everywhere but at the  *)
(* status update, which every failure leads to.                            *)
(***************************************************************************)
Engaged(p) == pc[p] \notin {"idle", "updateStatus"}

SpecInv ==
  /\ resource.exists => resource.spec \in Specs
  /\ \A p \in Procs : Busy(p) => managed[p].spec \in Specs

ResourceInv ==
  /\ resource.deleting => resource.finalizer
  /\ resource.finalizer => resource.exists

LeaderInv == LeaderElection => \A p \in Procs : Busy(p) => leader = p

(***************************************************************************)
(* How a copy relates to the stored resource.  The finalizer, once in the  *)
(* copy, pins the incarnation the copy was read from.                      *)
(***************************************************************************)
CopyInv(p) ==
  /\ ~Busy(p) => managed[p] = NoCopy
  /\ managed[p].version # "gone" => resource.exists
  /\ managed[p].version = "latest" =>
       /\ managed[p].deleting = resource.deleting
       /\ managed[p].finalizer = resource.finalizer
       /\ managed[p].spec = resource.spec
  /\ managed[p].deleting => managed[p].finalizer
  /\ Engaged(p) /\ managed[p].finalizer =>
       resource.finalizer /\ managed[p].spec = resource.spec
  /\ Engaged(p) /\ managed[p].deleting => resource.deleting
  /\ pc[p] = "finalize" => managed[p].deleting

ManagedInv == ResourceInv /\ LeaderInv /\ \A p \in Procs : CopyInv(p)

=============================================================================
