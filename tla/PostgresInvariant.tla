------------------------- MODULE PostgresInvariant -------------------------
(***************************************************************************)
(* The inductive invariants of Postgres: what every reconcile in progress  *)
(* may rely on while users, Kubernetes and failures change the world       *)
(* around it, when at most one process works (SoleWorker).                 *)
(***************************************************************************)
EXTENDS Postgres

ObserveLabels == {"connect", "observeDeployment", "observeService"}

(***************************************************************************)
(* What a reconcile knows at each of its steps.                            *)
(***************************************************************************)
StepInv(p) ==
  /\ pc[p] \in ObserveLabels /\ managed[p].deleting =>
       managed[p].spec.policy = "Delete"
  /\ pc[p] \in {"publishObserved", "addFinalizer"} =>
       /\ ~managed[p].deleting
       /\ observed[p] = "absent" => ~deployment.exists
  /\ pc[p] \in CreateLabels \cup {"publishUpdated"} =>
       managed[p].finalizer /\ ~managed[p].deleting
  /\ pc[p] \in {"createClaim", "parseInputSecret", "generatePassword",
                "createDeployment"} => ~deployment.exists
  /\ pc[p] \in DeleteLabels =>
       managed[p].deleting /\ managed[p].spec.policy = "Delete"
  /\ pc[p] = "finalize" /\ managed[p].spec.policy = "Delete" => ~deployment.exists

IInv ==
  /\ TypeOK
  /\ SpecInv
  /\ ManagedInv
  /\ \A p \in Procs : StepInv(p)

(***************************************************************************)
(* Where the published password comes from.  A secret that holds one while *)
(* there is no database belongs to a resource on its way out.              *)
(***************************************************************************)
SecretInv ==
  /\ ~secret.exists => secret.pw = NoPw
  /\ secret.pw # NoPw /\ ~secret.stale /\ ~deployment.exists =>
       /\ resource.deleting
       /\ \A p \in Procs : Engaged(p) => managed[p].deleting

CreatedInv ==
  \A p \in Procs : pc[p] \in {"createService", "publishCreated"} =>
    deployment.exists /\ deployment.pw = password[p]

CredentialInv == SecretInv /\ CreatedInv /\ PublishedPasswordIsRunning

(***************************************************************************)
(* Once Create is past its secret, it holds a password; this needs no      *)
(* SoleWorker.                                                             *)
(***************************************************************************)
PasswordInv ==
  /\ NeverPasswordless
  /\ \A p \in Procs : pc[p] = "createDeployment" => password[p] # NoPw

(***************************************************************************)
(* A password that can be read from the spec's secret is neither replaced  *)
(* by a generated one nor lost on the way to the Deployment; this needs no *)
(* SoleWorker.                                                             *)
(***************************************************************************)
GivenInv ==
  \A p \in Procs :
    /\ pc[p] = "generatePassword" => managed[p].spec.password = NoPw
    /\ pc[p] = "createDeployment" /\ managed[p].spec.password # NoPw =>
         password[p] = managed[p].spec.password

(***************************************************************************)
(* The Service lives within the life of the Deployment.  It takes reads    *)
(* that do not fail: Delete skips what it cannot read.                     *)
(***************************************************************************)
ServiceInv ==
  /\ service # NoPort => deployment.exists
  /\ \A p \in Procs : pc[p] \in {"createService", "deleteDeployment"} =>
       service = NoPort

(***************************************************************************)
(* Whatever acts on the copy after Observe finds its defaults filled in,   *)
(* and the port the user asked for kept; this needs no SoleWorker.         *)
(***************************************************************************)
DefaultsInv ==
  \A p \in Procs :
    pc[p] \in {"observeService", "publishObserved", "addFinalizer"} \cup CreateLabels =>
      port[p] = initializeDefaults(managed[p].spec).port

(***************************************************************************)
(* A Service that Create has not published yet has the port of the copy it *)
(* was created for, and the secret then holds nothing of another one.      *)
(***************************************************************************)
PortInv ==
  /\ secret.port # NoPort => secret.pw # NoPw
  /\ \A p \in Procs : pc[p] \in {"createService", "publishCreated"} =>
       secret.pw = NoPw \/ secret.stale
  /\ \A p \in Procs : pc[p] = "publishCreated" /\ service # NoPort =>
       service = MakeDefaultPostgresService(port[p])
  /\ PublishedPortIsServed

(***************************************************************************)
(* No port that a spec asks for loses anything when it becomes an int32.   *)
(***************************************************************************)
PortsFit == \A spec \in Specs : initializeDefaults(spec).port < Modulus

(***************************************************************************)
(* One process that is never interrupted, and no call that fails.          *)
(***************************************************************************)
Calm ==
  /\ Faults = {} /\ ~LeaderElection
  /\ \A p, q \in Procs : p = q
  /\ "deployment" \notin Drift

(***************************************************************************)
(* While it is calm, only a Create or a Delete on its way leaves the claim *)
(* without a Deployment.                                                   *)
(***************************************************************************)
ClaimInv ==
  claim = "bound" /\ ~deployment.exists =>
    \E p \in Procs : pc[p] \in {"parseInputSecret", "generatePassword",
                                "createDeployment", "deleteClaim"}

(***************************************************************************)
(* While it is calm and nothing is orphaned, the secret of a resource that *)
(* is set up is complete, and so is what a reconcile takes for set up.     *)
(***************************************************************************)
HasPassword == secret.exists /\ ~secret.stale /\ secret.pw # NoPw

ReadyInv ==
  /\ deployment.exists => resource.finalizer
  /\ secret.stale => ~deployment.exists
  /\ service # NoPort => HasPassword \/ \E p \in Procs : pc[p] = "publishCreated"
  /\ ReadyHasCredentials
  /\ \A p \in Procs : Busy(p) =>
       /\ managed[p].finalizer => resource.finalizer
       /\ managed[p].version = "gone" => ~resource.finalizer /\ ~managed[p].finalizer
       /\ pc[p] \in {"addFinalizer"} \cup CreateLabels /\ managed[p].version # "gone" =>
            secret.exists /\ ~secret.stale
       /\ managed[p].ready /\ ~managed[p].deleting /\ managed[p].version # "gone" =>
            /\ HasPassword
            /\ \/ secret.endpoint
               \/ pc[p] = "publishObserved" /\ observed[p] = "ready"

CalmInv == GivenInv /\ DefaultsInv /\ ServiceInv /\ PortInv /\ ClaimInv /\ ReadyInv

=============================================================================
