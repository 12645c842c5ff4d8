------------------------------ MODULE Postgres ------------------------------
(***************************************************************************)
(* The Postgres controller: pkg/controller/database/postgres driving       *)
(* pkg/client/database/postgres from the managed reconciler.  One step is  *)
(* one call to the API server, or a read and the write that follows it, so *)
(* that other processes, users, Kubernetes itself and crashes interleave   *)
(* between any two of them; a race between such a read and its write is an *)
(* outcome of the step.                                                    *)
(*                                                                         *)
(* The three external objects (Deployment, Service, PersistentVolumeClaim) *)
(* carry no owner reference: nothing but this controller removes them.     *)
(* The connection secret is owned by the managed resource and is           *)
(* garbage-collected after it.                                             *)
(***************************************************************************)
EXTENDS Managed

CONSTANTS
  UserPw,       \* the password in the secret a spec may refer to
  Generated,    \* the passwords GeneratePassword can return
  NoPw,         \* no password
  Port,         \* the ports a spec may give
  NoPort,       \* no port is given, or there is no Service
  DefaultPostgresPort,
  MaxPort,      \* the last port a Service may have
  Modulus,      \* of the conversion to int32
  Drift         \* what happens to the external objects behind the controller's back

Password == Generated \cup {UserPw}

(***************************************************************************)
(* The API server refuses a Service with any other port; the definition of *)
(* the resource does not bound the port of a spec.                         *)
(***************************************************************************)
Servable == 1..MaxPort

(***************************************************************************)
(* The parameters of a Postgres that control flow depends on: the password *)
(* the secret it refers to holds, the port, and whether the size parses.   *)
(***************************************************************************)
PostgresSpec == [policy : {"Delete", "Orphan"}, password : {UserPw, NoPw},
                 port : Port \cup {NoPort}, sizeOk : BOOLEAN]

ASSUME PostgresAssumption ==
  /\ UserPw \notin Generated
  /\ NoPw \notin Password
  /\ Drift \subseteq {"unavailable", "deployment", "service"}
  /\ Port \subseteq Nat
  /\ MaxPort \in Nat
  /\ DefaultPostgresPort \in Port \cap Servable
  /\ NoPort \notin Port \cup Servable
  /\ Modulus \in Nat /\ MaxPort < Modulus
  /\ Specs \subseteq PostgresSpec

VARIABLES
  deployment,   \* the Deployment, with the password in its environment
  service,      \* the port of the Service, NoPort when it does not exist
  claim,        \* the PersistentVolumeClaim
  secret,       \* the connection secret
  observed,     \* observed[p]: the result of Observe in p's reconcile
  port,         \* port[p]: the port in p's copy once Observe has seen to it
  password      \* password[p]: the local variable password of Create

clusterVars == <<deployment, service, claim, secret>>
localVars   == <<observed, port, password>>
vars        == <<managedVars, clusterVars, localVars>>

NoDeployment == [exists |-> FALSE, available |-> FALSE, pw |-> NoPw]

(***************************************************************************)
(* stale: the owner of the secret no longer exists.  The user and the      *)
(* database are published with the password, so pw stands for all three.   *)
(***************************************************************************)
NoSecret == [exists |-> FALSE, stale |-> FALSE, endpoint |-> FALSE, pw |-> NoPw,
             port |-> NoPort]

CreateLabels == {"createClaim", "parseInputSecret", "generatePassword",
                 "createDeployment", "createService", "publishCreated"}
DeleteLabels == {"deleteService", "deleteDeployment", "deleteClaim"}
Labels == {"idle", "connect", "observeDeployment", "observeService",
           "publishObserved", "addFinalizer", "publishUpdated",
           "finalize", "updateStatus"} \cup CreateLabels \cup DeleteLabels

ClusterTypeOK ==
  /\ deployment \in [exists : BOOLEAN, available : BOOLEAN, pw : Password \cup {NoPw}]
  /\ service \in Servable \cup {NoPort}
  /\ claim \in {"absent", "bound", "terminating"}
  /\ secret \in [exists : BOOLEAN, stale : BOOLEAN, endpoint : BOOLEAN,
                 pw : Password \cup {NoPw}, port : Port \cup {0, NoPort}]

LocalTypeOK ==
  /\ observed \in [Procs -> {"unknown", "absent", "progressing", "ready"}]
  /\ port \in [Procs -> Port \cup {NoPort}]
  /\ password \in [Procs -> Password \cup {NoPw}]

TypeOK == ManagedTypeOK /\ pc \in [Procs -> Labels] /\ ClusterTypeOK /\ LocalTypeOK

Init ==
  /\ ManagedInit
  /\ deployment = NoDeployment
  /\ service = NoPort
  /\ claim = "absent"
  /\ secret = NoSecret
  /\ observed = [p \in Procs |-> "unknown"]
  /\ port = [p \in Procs |-> NoPort]
  /\ password = [p \in Procs |-> NoPw]

-----------------------------------------------------------------------------
(* Connect and Observe *)

(***************************************************************************)
(* What comes before Observe: the reconciler's initializers, the reading   *)
(* of the ProviderConfig and its secret, and the clients built from them.  *)
(* Any failure ends the reconcile.                                         *)
(***************************************************************************)
Connect(p, o) ==
  /\ pc[p] = "connect"
  /\ o \in ReadOutcomes
  /\ Continue(p, o = "ok", "observeDeployment")
  /\ UNCHANGED <<resource, managed, leader, clusterVars, localVars>>

(***************************************************************************)
(* Where the reconciler goes with what Observe returned.                   *)
(***************************************************************************)
Observed(p, result) ==
  /\ observed' = [observed EXCEPT ![p] = result]
  /\ Goto(p, IF ~managed[p].deleting THEN "publishObserved"
             ELSE IF result = "absent" THEN "finalize"
             ELSE "deleteService")

(***************************************************************************)
(* Observe fills in what the spec leaves open, on the copy that Create     *)
(* works on later; the update that adds the finalizer may store it.        *)
(***************************************************************************)
initializeDefaults(spec) ==
  IF spec.port = NoPort THEN [spec EXCEPT !.port = DefaultPostgresPort] ELSE spec

(* Faulty: every error of the read counts as not found. *)
ObserveDeploymentIgnoringErrors(p, o) ==
  /\ pc[p] = "observeDeployment"
  /\ o \in ReadOutcomes
  /\ IF o = "ok" /\ deployment.available
     THEN Goto(p, "observeService") /\ UNCHANGED observed
     ELSE Observed(p, IF o = "ok" /\ deployment.exists THEN "progressing" ELSE "absent")
  /\ port' = [port EXCEPT ![p] = initializeDefaults(managed[p].spec).port]
  /\ UNCHANGED <<resource, managed, leader, clusterVars, password>>

(***************************************************************************)
(* A Deployment that is not found is a resource that does not exist; any   *)
(* other error is returned.                                                *)
(***************************************************************************)
ObserveDeployment(p, o) ==
  /\ pc[p] = "observeDeployment"
  /\ o \in ReadOutcomes
  /\ \/ /\ o # "ok"
        /\ Goto(p, "updateStatus")
        /\ UNCHANGED observed
     \/ /\ o = "ok"
        /\ ~deployment.exists
        /\ Observed(p, "absent")
     \/ /\ o = "ok"
        /\ deployment.exists /\ ~deployment.available
        /\ Observed(p, "progressing")
     \/ /\ o = "ok"
        /\ deployment.exists /\ deployment.available
        /\ Goto(p, "observeService")
        /\ UNCHANGED observed
  /\ port' = [port EXCEPT ![p] = initializeDefaults(managed[p].spec).port]
  /\ UNCHANGED <<resource, managed, leader, clusterVars, password>>

(***************************************************************************)
(* Here a Service that is not found is an error like any other.  Available *)
(* is the only condition the controller ever sets, and it never unsets it. *)
(***************************************************************************)
ObserveService(p, o) ==
  /\ pc[p] = "observeService"
  /\ o \in ReadOutcomes
  /\ IF o = "ok" /\ service # NoPort
     THEN /\ managed' = [managed EXCEPT ![p].ready = TRUE]
          /\ Observed(p, "ready")
     ELSE /\ Goto(p, "updateStatus")
          /\ UNCHANGED <<managed, observed>>
  /\ UNCHANGED <<resource, leader, clusterVars, port, password>>

-----------------------------------------------------------------------------
(* The connection secret *)

(* An integer that is not set is published as 0. *)
IntValue(n) == IF n = NoPort THEN 0 ELSE n

(***************************************************************************)
(* PublishConnection reads the secret and creates it, or patches the       *)
(* details into it, keeping the keys it does not mention; it refuses a     *)
(* secret of another owner.                                                *)
(***************************************************************************)
Publish(p, o, endpoint, pw, next) ==
  LET gone    == managed[p].version = "gone"
      refused == secret.exists /\ secret.stale # gone
  IN /\ o \in CallOutcomes \cup Raced
     /\ secret' = IF refused \/ ~Applied(o) THEN secret
                  ELSE [exists   |-> TRUE,
                        stale    |-> gone,
                        endpoint |-> endpoint \/ secret.endpoint,
                        pw       |-> IF pw = NoPw THEN secret.pw ELSE pw,
                        port     |-> IF pw = NoPw THEN secret.port
                                     ELSE IntValue(port[p])]
     /\ Continue(p, o = "ok" /\ ~refused, next)
     /\ UNCHANGED <<resource, managed, leader, deployment, service, claim, localVars>>

PublishObserved(p, o) ==
  /\ pc[p] = "publishObserved"
  /\ Publish(p, o, observed[p] = "ready", NoPw, "addFinalizer")

(* Faulty: Create returns no details. *)
PublishCreatedWithoutDetails(p, o) ==
  /\ pc[p] = "publishCreated"
  /\ Publish(p, o, FALSE, NoPw, "updateStatus")

PublishCreated(p, o) ==
  /\ pc[p] = "publishCreated"
  /\ Publish(p, o, FALSE, password[p], "updateStatus")

(***************************************************************************)
(* Update changes nothing; its empty details are published all the same.   *)
(***************************************************************************)
Update(p, o) ==
  /\ pc[p] = "publishUpdated"
  /\ Publish(p, o, FALSE, NoPw, "updateStatus")

-----------------------------------------------------------------------------
(* Create *)

(***************************************************************************)
(* The finalizer is stored before anything is created.                     *)
(***************************************************************************)
Finalizer(p, o) ==
  /\ AddFinalizer(p, o, CASE observed[p] = "absent"      -> "createClaim"
                          [] observed[p] = "progressing" -> "publishUpdated"
                          [] OTHER                       -> "updateStatus")
  /\ UNCHANGED <<clusterVars, localVars>>

(***************************************************************************)
(* CreateOrUpdate gets the object and creates it when it is not found; its *)
(* mutate function is empty, so an object that exists stays as it is.  One *)
(* that another process creates between the two calls is AlreadyExists.    *)
(***************************************************************************)
CreateOrUpdateOutcomes(exists) ==
  IF exists THEN ReadOutcomes \cup Raced ELSE CallOutcomes

(* Faulty: a claim that exists is replaced. *)
CreateClaimReplacing(p, o) ==
  /\ pc[p] = "createClaim"
  /\ o \in CallOutcomes
  /\ claim' = IF ~Applied(o) THEN claim
              ELSE IF claim = "bound" THEN "terminating" ELSE "bound"
  /\ Continue(p, managed[p].spec.sizeOk /\ o = "ok", "parseInputSecret")
  /\ UNCHANGED <<resource, managed, leader, deployment, service, secret, localVars>>

(* Does the size parse, so that there is a claim to create? *)
MakePVCPostgres(p) == managed[p].spec.sizeOk

CreateClaim(p, o) ==
  /\ pc[p] = "createClaim"
  /\ o \in CreateOrUpdateOutcomes(claim # "absent")
  /\ claim' = IF claim = "absent" /\ MakePVCPostgres(p) /\ Applied(o) THEN "bound"
              ELSE claim
  /\ Continue(p, MakePVCPostgres(p) /\ o = "ok", "parseInputSecret")
  /\ UNCHANGED <<resource, managed, leader, deployment, service, secret, localVars>>

(* Faulty: an empty password is not replaced by a generated one. *)
ParseInputSecretUnchecked(p, o) ==
  /\ pc[p] = "parseInputSecret"
  /\ o \in ReadOutcomes
  /\ password' = [password EXCEPT ![p] = IF o = "ok" THEN managed[p].spec.password
                                         ELSE NoPw]
  /\ Goto(p, "createDeployment")
  /\ UNCHANGED <<resource, managed, leader, clusterVars, observed, port>>

(* Faulty: the password of the spec is ignored. *)
ParseInputSecretIgnored(p, o) ==
  /\ pc[p] = "parseInputSecret"
  /\ o \in ReadOutcomes
  /\ Goto(p, "generatePassword")
  /\ UNCHANGED <<resource, managed, leader, clusterVars, localVars>>

(***************************************************************************)
(* No reference, a failed read and an empty value all lead to a generated  *)
(* password.                                                               *)
(***************************************************************************)
ParseInputSecret(p, o) ==
  LET given == IF o = "ok" THEN managed[p].spec.password ELSE NoPw
  IN /\ pc[p] = "parseInputSecret"
     /\ o \in ReadOutcomes
     /\ password' = [password EXCEPT ![p] = given]
     /\ Goto(p, IF given = NoPw THEN "generatePassword" ELSE "createDeployment")
     /\ UNCHANGED <<resource, managed, leader, clusterVars, observed, port>>

(***************************************************************************)
(* A random UUID differs from every password still held somewhere.         *)
(***************************************************************************)
InUse == {deployment.pw, secret.pw} \cup {password[q] : q \in Procs}

GeneratePassword(p, o) ==
  /\ pc[p] = "generatePassword"
  /\ o \in ReadOutcomes
  /\ \/ /\ o = "ok"
        /\ \E pw \in Generated \ InUse : password' = [password EXCEPT ![p] = pw]
     \/ /\ o # "ok"
        /\ UNCHANGED password
  /\ Continue(p, o = "ok", "createDeployment")
  /\ UNCHANGED <<resource, managed, leader, clusterVars, observed, port>>

(* Faulty: the password is missing from the environment. *)
MakePostgresDeploymentUnset(pw) == [exists |-> TRUE, available |-> FALSE]

MakePostgresDeployment(pw) == [exists |-> TRUE, available |-> FALSE, pw |-> pw]

(* Faulty: the mutate function overwrites a Deployment that exists. *)
CreateDeploymentOverwriting(p, o) ==
  /\ pc[p] = "createDeployment"
  /\ o \in CallOutcomes
  /\ deployment' = IF Applied(o) THEN MakePostgresDeployment(password[p]) ELSE deployment
  /\ Continue(p, o = "ok", "createService")
  /\ UNCHANGED <<resource, managed, leader, service, claim, secret, localVars>>

CreateDeployment(p, o) ==
  /\ pc[p] = "createDeployment"
  /\ o \in CreateOrUpdateOutcomes(deployment.exists)
  /\ deployment' = IF ~deployment.exists /\ Applied(o)
                   THEN MakePostgresDeployment(password[p]) ELSE deployment
  /\ Continue(p, o = "ok", "createService")
  /\ UNCHANGED <<resource, managed, leader, service, claim, secret, localVars>>

(* Faulty: the Service is never written. *)
CreateServiceSkipped(p, o) ==
  /\ pc[p] = "createService"
  /\ o \in ReadOutcomes
  /\ Continue(p, o = "ok", "publishCreated")
  /\ UNCHANGED <<resource, managed, leader, clusterVars, localVars>>

(* Faulty: the port of the copy is ignored. *)
MakeDefaultPostgresServiceFixed(n) == DefaultPostgresPort

(***************************************************************************)
(* The port of a Service is an int32, that of a spec an int: the           *)
(* conversion keeps the low bits.  Numbers that come out negative are left *)
(* positive here, as they are refused like all beyond MaxPort.             *)
(***************************************************************************)
MakeDefaultPostgresService(n) == IntValue(n) % Modulus

CreateService(p, o) ==
  LET serves  == MakeDefaultPostgresService(port[p])
      refused == service = NoPort /\ serves \notin Servable
  IN /\ pc[p] = "createService"
     /\ o \in CreateOrUpdateOutcomes(service # NoPort)
     /\ service' = IF service = NoPort /\ ~refused /\ Applied(o) THEN serves ELSE service
     /\ Continue(p, o = "ok" /\ ~refused, "publishCreated")
     /\ UNCHANGED <<resource, managed, leader, deployment, claim, secret, localVars>>

-----------------------------------------------------------------------------
(* Delete *)

(***************************************************************************)
(* Each object is read, then deleted.  A read that fails for any reason is *)
(* taken for an object that is gone: the client returns no error.  But an  *)
(* object that others, or another process, remove between the two calls is *)
(* NotFound, which it does return.                                         *)
(***************************************************************************)
DeleteOutcomes(exists, contended) ==
  IF exists THEN CallOutcomes
  ELSE ReadOutcomes \cup (IF contended THEN {"conflict"} ELSE Raced)

Skipped(o) == o = "readFail"

(* Faulty: returns once the Service is deleted, for the next reconcile to go on. *)
DeletePostgresServiceOnly(p, o) ==
  /\ pc[p] = "deleteService"
  /\ o \in DeleteOutcomes(service # NoPort, "service" \in Drift)
  /\ service' = IF Applied(o) THEN NoPort ELSE service
  /\ Goto(p, IF service # NoPort THEN "updateStatus" ELSE "deleteDeployment")
  /\ UNCHANGED <<resource, managed, leader, deployment, claim, secret, localVars>>

DeletePostgresService(p, o) ==
  /\ pc[p] = "deleteService"
  /\ o \in DeleteOutcomes(service # NoPort, "service" \in Drift)
  /\ service' = IF Applied(o) THEN NoPort ELSE service
  /\ Continue(p, o = "ok" \/ Skipped(o), "deleteDeployment")
  /\ UNCHANGED <<resource, managed, leader, deployment, claim, secret, localVars>>

(* Faulty: returns without deleting the claim. *)
DeletePostgresDeploymentOnly(p, o) ==
  /\ pc[p] = "deleteDeployment"
  /\ o \in DeleteOutcomes(deployment.exists, "deployment" \in Drift)
  /\ deployment' = IF Applied(o) THEN NoDeployment ELSE deployment
  /\ Goto(p, "updateStatus")
  /\ UNCHANGED <<resource, managed, leader, service, claim, secret, localVars>>

DeletePostgresDeployment(p, o) ==
  /\ pc[p] = "deleteDeployment"
  /\ o \in DeleteOutcomes(deployment.exists, "deployment" \in Drift)
  /\ deployment' = IF Applied(o) THEN NoDeployment ELSE deployment
  /\ Continue(p, o = "ok" \/ Skipped(o), "deleteClaim")
  /\ UNCHANGED <<resource, managed, leader, service, claim, secret, localVars>>

(***************************************************************************)
(* A claim in use stays, terminating, until its pod is gone.  One that is  *)
(* released between the read and the deletion ends the reconcile with an   *)
(* error, where success ends it as well.                                   *)
(***************************************************************************)
DeletePostgresPVC(p, o) ==
  /\ pc[p] = "deleteClaim"
  /\ o \in DeleteOutcomes(claim # "absent", FALSE)
  /\ claim' = IF claim # "absent" /\ Applied(o) THEN "terminating" ELSE claim
  /\ Goto(p, "updateStatus")
  /\ UNCHANGED <<resource, managed, leader, deployment, service, secret, localVars>>

-----------------------------------------------------------------------------
(* The end of a reconcile and the end of the resource *)

Forget(p) ==
  /\ observed' = [observed EXCEPT ![p] = "unknown"]
  /\ port' = [port EXCEPT ![p] = NoPort]
  /\ password' = [password EXCEPT ![p] = NoPw]

(***************************************************************************)
(* A secret whose owner disappears is left to the garbage collector.       *)
(***************************************************************************)
Disown == secret' = IF resource'.exists THEN secret
                    ELSE [secret EXCEPT !.stale = secret.exists]

Finalize(p, o) ==
  /\ RemoveFinalizer(p, o)
  /\ Disown
  /\ Forget(p)
  /\ UNCHANGED <<deployment, service, claim>>

Report(p, o) ==
  /\ UpdateStatus(p, o)
  /\ Forget(p)
  /\ UNCHANGED clusterVars

Begin(p) == Start(p) /\ UNCHANGED <<clusterVars, localVars>>

Exit(p) == Stop(p) /\ Forget(p) /\ UNCHANGED clusterVars

Reconcile(p, o) ==
  \/ Connect(p, o)
  \/ ObserveDeployment(p, o)
  \/ ObserveService(p, o)
  \/ PublishObserved(p, o)
  \/ Finalizer(p, o)
  \/ CreateClaim(p, o)
  \/ ParseInputSecret(p, o)
  \/ GeneratePassword(p, o)
  \/ CreateDeployment(p, o)
  \/ CreateService(p, o)
  \/ PublishCreated(p, o)
  \/ Update(p, o)
  \/ DeletePostgresService(p, o)
  \/ DeletePostgresDeployment(p, o)
  \/ DeletePostgresPVC(p, o)
  \/ Finalize(p, o)
  \/ Report(p, o)

-----------------------------------------------------------------------------
(* Users and Kubernetes *)

User ==
  \/ UserCreate /\ UNCHANGED <<clusterVars, localVars>>
  \/ UserDelete /\ Disown /\ UNCHANGED <<deployment, service, claim, localVars>>

(***************************************************************************)
(* A pod is scheduled only on a claim that exists and is not being deleted.*)
(***************************************************************************)
BecomeAvailable ==
  /\ deployment.exists /\ ~deployment.available
  /\ claim = "bound"
  /\ deployment' = [deployment EXCEPT !.available = TRUE]
  /\ UNCHANGED <<managedVars, service, claim, secret, localVars>>

ReleaseClaim ==
  /\ claim = "terminating"
  /\ ~deployment.available
  /\ claim' = "absent"
  /\ UNCHANGED <<managedVars, deployment, service, secret, localVars>>

CollectSecret ==
  /\ secret.exists /\ secret.stale
  /\ secret' = NoSecret
  /\ UNCHANGED <<managedVars, deployment, service, claim, localVars>>

(***************************************************************************)
(* Another client removes an object, or the pod stops being ready.         *)
(***************************************************************************)
Interfere ==
  /\ \/ /\ "unavailable" \in Drift
        /\ deployment.available
        /\ deployment' = [deployment EXCEPT !.available = FALSE]
        /\ UNCHANGED service
     \/ /\ "deployment" \in Drift
        /\ deployment.exists
        /\ deployment' = NoDeployment
        /\ UNCHANGED service
     \/ /\ "service" \in Drift
        /\ service # NoPort
        /\ service' = NoPort
        /\ UNCHANGED deployment
  /\ UNCHANGED <<managedVars, claim, secret, localVars>>

Next ==
  \/ \E p \in Procs, o \in Outcomes : Reconcile(p, o)
  \/ \E p \in Procs : Begin(p) \/ Exit(p)
  \/ \E p \in Procs : Elect(p) /\ UNCHANGED <<clusterVars, localVars>>
  \/ User
  \/ BecomeAvailable
  \/ ReleaseClaim
  \/ CollectSecret
  \/ Interfere

Spec == Init /\ [][Next]_vars

(***************************************************************************)
(* The work queue hands out the resource again after every reconcile, an   *)
(* API server that fails recovers eventually, and Kubernetes does its      *)
(* part.  Nothing is assumed of users or interference.                     *)
(***************************************************************************)
Step(o) == \E p \in Procs : Reconcile(p, o)

FaultsCease == <>[][(\E o \in Outcomes : Step(o)) => Step("ok")]_vars

Fairness ==
  /\ WF_vars(\E p \in Procs : Begin(p))
  /\ WF_vars(Step("ok"))
  /\ WF_vars(BecomeAvailable)
  /\ WF_vars(ReleaseClaim)
  /\ WF_vars(CollectSecret)
  /\ FaultsCease

FairSpec == Spec /\ Fairness

-----------------------------------------------------------------------------
(* Properties *)

(***************************************************************************)
(* The Deployment is the external resource that Observe reports on: this   *)
(* controller implements the life cycle promised of a managed resource.    *)
(***************************************************************************)
LC == INSTANCE Lifecycle WITH
        Unattended <- "deployment" \in Drift,
        Abandons   <- FALSE,
        object     <- IF ~resource.exists THEN "absent"
                      ELSE IF resource.deleting THEN "deleting" ELSE "live",
        policy     <- IF resource.exists THEN resource.spec.policy ELSE "none",
        held       <- resource.finalizer,
        external   <- deployment.exists

ImplementsLifecycle == LC!Spec

(***************************************************************************)
(* A password in the connection secret is the one the database runs with,  *)
(* whatever calls fail and whenever the process crashes: Create publishes  *)
(* only what it created itself (postgres.go:162).                          *)
(***************************************************************************)
PublishedPasswordIsRunning ==
  secret.pw # NoPw /\ ~secret.stale /\ deployment.exists => secret.pw = deployment.pw

(***************************************************************************)
(* The claim, which holds the data, is deleted only for a resource whose   *)
(* deletion was requested and whose policy is Delete: no reconcile begun   *)
(* for one incarnation reaches the claim of the next (postgres.go:210).    *)
(***************************************************************************)
DataKept ==
  [][claim = "bound" /\ claim' # "bound"
       => resource.deleting /\ resource.spec.policy = "Delete"]_vars

(***************************************************************************)
(* No database is ever started without a password, whatever process starts *)
(* it and whatever the secret of the spec holds (postgres.go:176).         *)
(***************************************************************************)
NeverPasswordless == deployment.exists => deployment.pw # NoPw

(***************************************************************************)
(* A running database is never given another password: CreateOrUpdate      *)
(* leaves an existing Deployment as it is (client postgres.go:111), also   *)
(* when two processes create at once.                                      *)
(***************************************************************************)
PasswordFixed ==
  [][deployment.exists /\ deployment'.exists => deployment'.pw = deployment.pw]_vars

(***************************************************************************)
(* A Ready resource that nobody deletes comes with a connection secret     *)
(* that has the endpoint and the credentials (docs/database.md:11).        *)
(***************************************************************************)
ReadyHasCredentials ==
  resource.ready /\ ~resource.deleting =>
    /\ secret.exists /\ ~secret.stale
    /\ secret.endpoint /\ secret.pw # NoPw

(***************************************************************************)
(* The port in the connection secret is the one the Service serves, though *)
(* they are written by different steps, an existing Service keeps the port *)
(* it has, and the next resource of the name may ask for another           *)
(* (postgres.go:187, 192; client postgres.go:111).                         *)
(***************************************************************************)
PublishedPortIsServed ==
  ~secret.stale /\ secret.port # NoPort /\ service # NoPort => secret.port = service

(***************************************************************************)
(* When a resource with policy Delete goes, however far Create had come,   *)
(* none of its three external objects is left (postgres.go:113, 210).      *)
(***************************************************************************)
NothingLeftBehind ==
  [][resource.deleting /\ ~resource'.exists /\ resource.spec.policy = "Delete"
       => service = NoPort /\ ~deployment.exists /\ claim # "bound"]_vars

(***************************************************************************)
(* In particular when it was Ready, so that Create was through and its     *)
(* objects were left to Delete (postgres.go:210-224).                      *)
(***************************************************************************)
NothingLeftOnceReady ==
  [][resource.deleting /\ ~resource'.exists
       /\ resource.spec.policy = "Delete" /\ resource.ready
       => service = NoPort /\ ~deployment.exists /\ claim # "bound"]_vars

(***************************************************************************)
(* A Deployment created for a spec whose password secret can be read runs  *)
(* with the password in that secret (apis postgres.go:41).                 *)
(***************************************************************************)
GivenPasswordUsed ==
  [][~deployment.exists /\ deployment'.exists /\ resource.spec.password # NoPw
       => deployment'.pw = resource.spec.password]_vars

(***************************************************************************)
(* A resource whose size and port are valid becomes Ready unless the user  *)
(* deletes it, or its Deployment was created on a claim that was still     *)
(* being deleted for an earlier incarnation: nothing creates that claim    *)
(* again (postgres.go:113 looks at the Deployment only).                   *)
(***************************************************************************)
Wanted ==
  /\ resource.exists /\ ~resource.deleting
  /\ resource.spec.sizeOk
  /\ initializeDefaults(resource.spec).port \in Servable

ClaimLost == deployment.exists /\ claim # "bound"

EventuallyReadyOrClaimLost == Wanted ~> (resource.ready \/ ~Wanted \/ ClaimLost)

(***************************************************************************)
(* A deletion that was requested is completed: the deletions of Delete     *)
(* bring about what makes Observe report that nothing exists               *)
(* (postgres.go:113, postgres.go:210).                                     *)
(***************************************************************************)
DeletionCompletes == resource.deleting ~> ~resource.deleting

=============================================================================
