-------------------------- MODULE CredentialProofs --------------------------
(***************************************************************************)
(* Proofs about what the Postgres controller does to the password and to   *)
(* the data, on top of the invariant of a sole worker.                     *)
(***************************************************************************)
EXTENDS PostgresProofs

-----------------------------------------------------------------------------
(* The data *)

(***************************************************************************)
(* Only DeletePostgresPVC takes a bound claim away.                        *)
(***************************************************************************)
LEMMA ClaimStep ==
  ASSUME [Next]_vars, claim = "bound", claim' # "bound"
  PROVE  \E p \in Procs, o \in Outcomes : DeletePostgresPVC(p, o)
<1> USE DEF clusterVars
<1>1. ASSUME NEW p \in Procs, NEW o \in Outcomes, Reconcile(p, o),
             ~DeletePostgresPVC(p, o)
      PROVE  claim' = claim
  BY <1>1 DEF Reconcile, Connect, ObserveDeployment, ObserveService, PublishObserved,
     PublishCreated, Update, Publish, Finalizer, CreateClaim, ParseInputSecret,
     GeneratePassword, CreateDeployment, CreateService, DeletePostgresService,
     DeletePostgresDeployment, Finalize, Report
<1>2. ASSUME NEW p \in Procs, Begin(p) \/ Exit(p) PROVE claim' = claim
  BY <1>2 DEF Begin, Exit
<1>3. CASE User
  BY <1>3 DEF User
<1>4. CASE BecomeAvailable \/ ReleaseClaim \/ CollectSecret \/ Interfere
  BY <1>4 DEF BecomeAvailable, ReleaseClaim, CollectSecret, Interfere
<1> QED
  BY <1>1, <1>2, <1>3, <1>4 DEF Next, vars

(***************************************************************************)
(* With a sole worker, the claim that holds the data is deleted only for a *)
(* resource whose deletion was requested and whose policy is Delete        *)
(* (postgres.go:210-224).                                                  *)
(***************************************************************************)
THEOREM DataIsKept ==
  ASSUME SoleWorker
  PROVE  Spec => DataKept
<1> DEFINE Inv == TypeOK /\ SpecInv /\ PasswordInv /\ WorkInv
           Kept == claim = "bound" /\ claim' # "bound"
                     => resource.deleting /\ resource.spec.policy = "Delete"
<1>1. Init => Inv
  BY TypeInit, WorkInit
<1>2. Inv /\ [Next]_vars => Inv'
  BY TypeNext, WorkNext
<1>3. Inv /\ [Next]_vars => [Kept]_vars
  <2> SUFFICES ASSUME Inv, [Next]_vars, claim = "bound", claim' # "bound"
               PROVE  resource.deleting /\ resource.spec.policy = "Delete"
    OBVIOUS
  <2>1. PICK p \in Procs, o \in Outcomes : DeletePostgresPVC(p, o)
    BY ClaimStep
  <2>2. pc[p] = "deleteClaim"
    BY <2>1 DEF DeletePostgresPVC
  <2>3. CopyInv(p) /\ StepInv(p) /\ ResourceInv
    BY DEF WorkInv, ManagedInv
  <2>4. managed[p].deleting /\ managed[p].spec.policy = "Delete"
    BY <2>2, <2>3 DEF StepInv, DeleteLabels
  <2> QED
    BY <2>2, <2>3, <2>4 DEF CopyInv, Engaged
<1> QED
  BY <1>1, <1>2, <1>3, PTL DEF Spec, DataKept

-----------------------------------------------------------------------------
(* The password of a running database *)

(***************************************************************************)
(* Only these steps touch the Deployment.                                  *)
(***************************************************************************)
LEMMA DeploymentStep ==
  ASSUME [Next]_vars
  PROVE  \/ deployment' = deployment
         \/ \E p \in Procs, o \in Outcomes :
              CreateDeployment(p, o) \/ DeletePostgresDeployment(p, o)
         \/ BecomeAvailable \/ Interfere
<1> USE DEF clusterVars
<1>1. ASSUME NEW p \in Procs, NEW o \in Outcomes, Reconcile(p, o),
             ~CreateDeployment(p, o), ~DeletePostgresDeployment(p, o)
      PROVE  deployment' = deployment
  BY <1>1 DEF Reconcile, Connect, ObserveDeployment, ObserveService, PublishObserved,
     PublishCreated, Update, Publish, Finalizer, CreateClaim, ParseInputSecret,
     GeneratePassword, CreateService, DeletePostgresService, DeletePostgresPVC,
     Finalize, Report
<1>2. ASSUME NEW p \in Procs, Begin(p) \/ Exit(p) PROVE deployment' = deployment
  BY <1>2 DEF Begin, Exit
<1>3. CASE User
  BY <1>3 DEF User
<1>4. CASE ReleaseClaim \/ CollectSecret
  BY <1>4 DEF ReleaseClaim, CollectSecret
<1> QED
  BY <1>1, <1>2, <1>3, <1>4 DEF Next, vars

(***************************************************************************)
(* CreateOrUpdate never gives a running database another password (client  *)
(* postgres.go:111), however many processes create at once.                *)
(***************************************************************************)
THEOREM PasswordNeverChanges == Spec => PasswordFixed
<1> DEFINE Inv == TypeOK /\ SpecInv /\ PasswordInv
           Fixed == deployment.exists /\ deployment'.exists
                      => deployment'.pw = deployment.pw
<1>1. Init => Inv
  BY TypeInit
<1>2. Inv /\ [Next]_vars => Inv'
  BY TypeNext
<1>3. Inv /\ [Next]_vars => [Fixed]_vars
  <2> SUFFICES ASSUME Inv, [Next]_vars, deployment.exists, deployment'.exists
               PROVE  deployment'.pw = deployment.pw
    OBVIOUS
  <2>1. CASE \E p \in Procs, o \in Outcomes :
               CreateDeployment(p, o) \/ DeletePostgresDeployment(p, o)
    <3>1. deployment' = deployment \/ deployment' = NoDeployment
      BY <2>1 DEF CreateDeployment, DeletePostgresDeployment
    <3> QED
      BY <3>1 DEF NoDeployment
  <2>2. CASE BecomeAvailable \/ Interfere
    BY <2>2, KubernetesStep DEF TypeOK
  <2> QED
    BY <2>1, <2>2, DeploymentStep
<1> QED
  BY <1>1, <1>2, <1>3, PTL DEF Spec, PasswordFixed

-----------------------------------------------------------------------------
(* The published password *)

(***************************************************************************)
(* The secret and the Deployment stay, or lose what they hold, and no      *)
(* reconcile that has nothing to do with a deletion begins.                *)
(***************************************************************************)
LEMMA SecretFrame ==
  ASSUME SecretInv, PublishedPasswordIsRunning,
         \/ secret' = secret
         \/ secret' = NoSecret
         \/ secret' = [secret EXCEPT !.stale = secret.exists] /\ ClusterTypeOK,
         deployment'.exists = deployment.exists,
         deployment'.exists => deployment'.pw = deployment.pw,
         resource.deleting /\ ~resource'.deleting => secret'.stale = secret'.exists,
         \A q \in Procs : Engaged(q)' =>
            \/ Engaged(q) /\ managed'[q].deleting = managed[q].deleting
            \/ resource.deleting => managed'[q].deleting
  PROVE  SecretInv' /\ PublishedPasswordIsRunning'
<1>1. CASE secret' = NoSecret
  BY <1>1 DEF NoSecret, SecretInv, PublishedPasswordIsRunning
<1>2. CASE secret' = secret
  BY <1>2 DEF SecretInv, PublishedPasswordIsRunning
<1>3. CASE secret' = [secret EXCEPT !.stale = secret.exists] /\ ClusterTypeOK
  <2>1. secret' = [exists |-> secret.exists, stale |-> secret.exists,
                   endpoint |-> secret.endpoint, pw |-> secret.pw,
                   port |-> secret.port]
    BY <1>3 DEF ClusterTypeOK
  <2> QED
    BY <2>1 DEF SecretInv, PublishedPasswordIsRunning
<1> QED
  BY <1>1, <1>2, <1>3

(***************************************************************************)
(* A publication: what it writes is the password of the Deployment, if it  *)
(* writes one to the secret of the resource that still exists.             *)
(***************************************************************************)
LEMMA PublishStep ==
  ASSUME ClusterTypeOK, SecretInv, PublishedPasswordIsRunning,
         NEW p, NEW o, NEW endpoint, NEW pw, NEW next,
         Publish(p, o, endpoint, pw, next),
         pw # NoPw => deployment.exists /\ deployment.pw = pw,
         resource' = resource,
         \A q \in Procs : Engaged(q)' =>
            Engaged(q) /\ managed'[q].deleting = managed[q].deleting
  PROVE  SecretInv' /\ PublishedPasswordIsRunning'
<1>1. deployment' = deployment
  BY DEF Publish
<1>2. CASE secret' = secret
  BY <1>1, <1>2, SecretFrame
<1>3. CASE secret' # secret
  <2>1. ~(secret.exists /\ secret.stale # (managed[p].version = "gone"))
    BY <1>3 DEF Publish
  <2>2. secret' = [exists |-> TRUE, stale |-> managed[p].version = "gone",
                   endpoint |-> endpoint \/ secret.endpoint,
                   pw |-> IF pw = NoPw THEN secret.pw ELSE pw,
                   port |-> IF pw = NoPw THEN secret.port
                            ELSE IntValue(port[p])]
    BY <1>3 DEF Publish
  <2>3. secret'.exists /\ secret'.stale = (managed[p].version = "gone")
        /\ secret'.pw = IF pw = NoPw THEN secret.pw ELSE pw
    BY <2>2
  <2>4. secret'.pw # NoPw /\ ~secret'.stale =>
          \/ secret.pw # NoPw /\ ~secret.stale /\ secret'.pw = secret.pw
          \/ deployment.exists /\ deployment.pw = secret'.pw
    BY <2>1, <2>3 DEF SecretInv
  <2> QED
    BY <1>1, <2>3, <2>4 DEF SecretInv, PublishedPasswordIsRunning
<1> QED
  BY <1>2, <1>3

(***************************************************************************)
(* The steps of a reconcile keep the credentials.                          *)
(***************************************************************************)
LEMMA CredentialOwnStep ==
  ASSUME TypeOK, WorkInv, CredentialInv, SoleWorker, "deployment" \notin Drift,
         NEW p \in Procs, NEW o, OwnStep(p, o)
  PROVE  CredentialInv'
<1>1. /\ ManagedTypeOK /\ ClusterTypeOK /\ LocalTypeOK
      /\ SecretInv /\ CreatedInv /\ PublishedPasswordIsRunning
      /\ ManagedInv /\ CopyInv(p) /\ StepInv(p)
  BY DEF TypeOK, WorkInv, ManagedInv, CredentialInv
<1>2. /\ resource' = resource
      /\ managed'[p].deleting = managed[p].deleting
      /\ \A q \in Procs \ {p} : pc'[q] = pc[q] /\ managed'[q] = managed[q]
      /\ Busy(p) /\ Engaged(p)
  BY <1>1, OwnStepFrame
     DEF OwnLabels, ObserveLabels, CreateLabels, DeleteLabels, Busy, Engaged
<1>3. \A q \in Procs : Engaged(q)' =>
         Engaged(q) /\ managed'[q].deleting = managed[q].deleting
  BY <1>2 DEF Engaged
<1>4. \A q \in Procs \ {p} : pc[q] = "idle" /\ pc'[q] = "idle"
  BY <1>1, <1>2, OthersIdle
<1>5. CASE CreateDeployment(p, o)
  <2>1. pc[p] = "createDeployment" /\ secret' = secret /\ password' = password
    BY <1>5 DEF CreateDeployment, localVars
  <2>2. ~deployment.exists /\ Engaged(p) /\ ~managed[p].deleting
    BY <1>1, <2>1 DEF StepInv, CreateLabels, Engaged
  <2>3. \/ deployment' = deployment /\ pc'[p] = "updateStatus"
        \/ deployment' = [exists |-> TRUE, available |-> FALSE, pw |-> password[p]]
    BY <1>1, <1>5, <2>2, GotoStep
       DEF CreateDeployment, MakePostgresDeployment, Continue, Applied
  <2>4. secret.pw = NoPw \/ secret.stale
    BY <1>1, <2>2 DEF SecretInv
  <2>5. SecretInv' /\ PublishedPasswordIsRunning'
    BY <1>1, <2>1, <2>4 DEF SecretInv, PublishedPasswordIsRunning
  <2>6. CreatedInv'
    BY <1>4, <2>1, <2>3 DEF CreatedInv
  <2> QED
    BY <2>5, <2>6 DEF CredentialInv
<1>6. CASE DeletePostgresDeployment(p, o)
  <2>1. pc[p] = "deleteDeployment" /\ secret' = secret
    BY <1>6 DEF DeletePostgresDeployment
  <2>2. pc'[p] \in {"deleteClaim", "updateStatus"}
    BY <1>1, <1>6, GotoStep DEF DeletePostgresDeployment, Continue
  <2>3. deployment' = deployment \/ deployment' = NoDeployment
    BY <1>6 DEF DeletePostgresDeployment
  <2>4. resource.deleting /\ managed[p].deleting
    BY <1>1, <2>1 DEF StepInv, DeleteLabels, CopyInv, Engaged
  <2>5. \A q \in Procs : Engaged(q)' => managed'[q].deleting
    BY <1>2, <1>4, <2>4 DEF Engaged
  <2>6. SecretInv' /\ PublishedPasswordIsRunning'
    BY <1>1, <1>2, <2>1, <2>3, <2>4, <2>5
       DEF SecretInv, PublishedPasswordIsRunning, NoDeployment
  <2>7. CreatedInv'
    BY <1>4, <2>2 DEF CreatedInv
  <2> QED
    BY <2>6, <2>7 DEF CredentialInv
<1>7. CASE PublishObserved(p, o) \/ PublishCreated(p, o) \/ Update(p, o)
  <2>1. PICK endpoint \in BOOLEAN, pw \in Password \cup {NoPw},
             next \in {"addFinalizer", "updateStatus"} :
          /\ Publish(p, o, endpoint, pw, next)
          /\ pw # NoPw => deployment.exists /\ deployment.pw = pw
    <3>1. CASE PublishCreated(p, o)
      <4>1. /\ pc[p] = "publishCreated"
            /\ Publish(p, o, FALSE, password[p], "updateStatus")
        BY <3>1 DEF PublishCreated
      <4>2. password[p] \in Password \cup {NoPw}
        BY <1>1 DEF LocalTypeOK
      <4>3. deployment.exists /\ deployment.pw = password[p]
        BY <1>1, <4>1 DEF CreatedInv
      <4> QED
        BY <4>1, <4>2, <4>3
    <3>2. CASE PublishObserved(p, o)
      BY <3>2 DEF PublishObserved
    <3>3. CASE Update(p, o)
      BY <3>3 DEF Update
    <3> QED
      BY <1>7, <3>1, <3>2, <3>3
  <2>2. SecretInv' /\ PublishedPasswordIsRunning'
    BY <1>1, <1>2, <1>3, <2>1, PublishStep
  <2>3. pc'[p] \in {"addFinalizer", "updateStatus"}
    BY <1>1, <2>1, GotoStep DEF Publish, Continue
  <2>4. CreatedInv'
    BY <1>4, <2>3 DEF CreatedInv
  <2> QED
    BY <2>2, <2>4 DEF CredentialInv
<1>8. CASE /\ ~CreateDeployment(p, o) /\ ~DeletePostgresDeployment(p, o)
           /\ ~PublishObserved(p, o) /\ ~PublishCreated(p, o) /\ ~Update(p, o)
  <2>1. deployment' = deployment /\ secret' = secret
    BY <1>8 DEF OwnStep, Connect, ObserveDeployment, ObserveService, CreateClaim,
       ParseInputSecret, GeneratePassword, CreateService, DeletePostgresService,
       DeletePostgresPVC, clusterVars
  <2>2. pc'[p] \in {"createService", "publishCreated"} =>
          pc[p] = "createService" /\ password' = password
    <3>1. CASE CreateService(p, o)
      BY <3>1 DEF CreateService, localVars
    <3>2. CASE Connect(p, o) \/ ObserveDeployment(p, o) \/ ObserveService(p, o)
      BY <1>1, <3>2, GotoStep
         DEF Connect, ObserveDeployment, ObserveService, Observed, Continue
    <3>3. CASE CreateClaim(p, o) \/ ParseInputSecret(p, o) \/ GeneratePassword(p, o)
      BY <1>1, <3>3, GotoStep
         DEF CreateClaim, ParseInputSecret, GeneratePassword, Continue
    <3>4. CASE DeletePostgresService(p, o) \/ DeletePostgresPVC(p, o)
      BY <1>1, <3>4, GotoStep
         DEF DeletePostgresService, DeletePostgresPVC, DeleteOutcomes, Continue
    <3> QED
      BY <1>8, <3>1, <3>2, <3>3, <3>4 DEF OwnStep
  <2>3. CreatedInv'
    BY <1>1, <1>4, <2>1, <2>2 DEF CreatedInv
  <2>4. SecretInv' /\ PublishedPasswordIsRunning'
    BY <1>1, <1>2, <1>3, <2>1, SecretFrame
  <2> QED
    BY <2>3, <2>4 DEF CredentialInv
<1> QED
  BY <1>5, <1>6, <1>7, <1>8

LEMMA CredentialInit == Init => CredentialInv
BY DEF Init, ManagedInit, CredentialInv, SecretInv, CreatedInv,
   PublishedPasswordIsRunning, NoSecret, NoDeployment

(***************************************************************************)
(* Every step of the system keeps the credentials.                         *)
(***************************************************************************)
LEMMA CredentialNext ==
  ASSUME TypeOK, SpecInv, WorkInv, CredentialInv, SoleWorker,
         "deployment" \notin Drift, [Next]_vars
  PROVE  CredentialInv'
<1>1. /\ ManagedTypeOK /\ ClusterTypeOK /\ LocalTypeOK
      /\ SecretInv /\ CreatedInv /\ PublishedPasswordIsRunning
      /\ ManagedInv /\ ResourceInv
      /\ \A q \in Procs : CopyInv(q)
  BY DEF TypeOK, WorkInv, ManagedInv, CredentialInv
<1>2. ASSUME NEW p \in Procs, NEW o \in Outcomes, OwnStep(p, o)
      PROVE  CredentialInv'
  BY <1>2, CredentialOwnStep
<1>3. ASSUME NEW p \in Procs, NEW o \in Outcomes, Finalizer(p, o)
      PROVE  CredentialInv'
  <2>1. PICK next \in {"createClaim", "publishUpdated", "updateStatus"} :
          AddFinalizer(p, o, next)
    BY <1>3 DEF Finalizer
  <2>2. UNCHANGED <<deployment, secret, password>>
    BY <1>3 DEF Finalizer, clusterVars, localVars
  <2>3. pc[p] = "addFinalizer" /\ Engaged(p)
    BY <2>1 DEF AddFinalizer, Engaged
  <2>4. /\ pc'[p] = "updateStatus" \/ pc'[p] = next
        /\ managed'[p].deleting = managed[p].deleting
        /\ resource'.deleting = resource.deleting
        /\ \A q \in Procs \ {p} :
             pc'[q] = pc[q] /\ (managed'[q] = Seen(q) \/ managed'[q] = managed[q])
    BY <1>1, <2>1, AddFinalizerStep
  <2>5. \A q \in Procs : Engaged(q)' =>
           Engaged(q) /\ managed'[q].deleting = managed[q].deleting
    BY <1>1, <2>3, <2>4, SeenFields DEF Engaged
  <2>6. SecretInv' /\ PublishedPasswordIsRunning'
    BY <1>1, <2>2, <2>4, <2>5, SecretFrame
  <2>7. CreatedInv'
    BY <1>1, <2>2, <2>4 DEF CreatedInv
  <2> QED
    BY <2>6, <2>7 DEF CredentialInv
<1>4. ASSUME NEW p \in Procs, pc'[p] \in {"idle", "updateStatus"}, Forget(p),
             deployment' = deployment,
             secret' = secret \/ Disown,
             resource.deleting /\ ~resource'.deleting => ~resource'.exists /\ Disown,
             \A q \in Procs \ {p} : pc'[q] = pc[q] /\ managed'[q].deleting = managed[q].deleting
      PROVE  CredentialInv'
  <2>1. \A q \in Procs : Engaged(q)' =>
           Engaged(q) /\ managed'[q].deleting = managed[q].deleting
    BY <1>4 DEF Engaged
  <2>2. \/ secret' = secret
        \/ secret' = [secret EXCEPT !.stale = secret.exists] /\ ClusterTypeOK
    BY <1>1, <1>4 DEF Disown
  <2>3. resource.deleting /\ ~resource'.deleting => secret'.stale = secret'.exists
    <3>1. SUFFICES ASSUME secret' = [secret EXCEPT !.stale = secret.exists]
                   PROVE  secret'.stale = secret'.exists
      BY <1>4 DEF Disown
    <3> QED
      BY <1>1, <3>1 DEF ClusterTypeOK
  <2>4. SecretInv' /\ PublishedPasswordIsRunning'
    BY <1>1, <1>4, <2>1, <2>2, <2>3, SecretFrame
  <2>5. \A q \in Procs \ {p} : password'[q] = password[q]
    BY <1>1, <1>4 DEF Forget, LocalTypeOK
  <2>6. CreatedInv'
    BY <1>1, <1>4, <2>5 DEF CreatedInv
  <2> QED
    BY <2>4, <2>6 DEF CredentialInv
<1>5. ASSUME NEW p \in Procs, NEW o \in Outcomes, Finalize(p, o)
      PROVE  CredentialInv'
  <2>1. /\ RemoveFinalizer(p, o) /\ Disown /\ Forget(p)
        /\ deployment' = deployment
    BY <1>5 DEF Finalize
  <2>2. resource' = resource \/ resource' = NoResource
    BY <1>1, <2>1, RemoveFinalizerStep
  <2>3. resource.deleting /\ ~resource'.deleting => ~resource'.exists
    BY <2>2 DEF NoResource
  <2>4. /\ pc'[p] \in {"idle", "updateStatus"}
        /\ \A q \in Procs \ {p} : pc'[q] = pc[q]
                                   /\ managed'[q].deleting = managed[q].deleting
    BY <1>1, <2>1, RemoveFinalizerStep, SeenFields
  <2> QED
    BY <1>4, <2>1, <2>3, <2>4
<1>6. ASSUME NEW p \in Procs, NEW o \in Outcomes, Report(p, o)
      PROVE  CredentialInv'
  <2>1. UpdateStatus(p, o) /\ Forget(p) /\ UNCHANGED <<deployment, secret>>
    BY <1>6 DEF Report, clusterVars
  <2>2. /\ pc'[p] = "idle" /\ resource'.deleting = resource.deleting
        /\ \A q \in Procs \ {p} : pc'[q] = pc[q]
                                   /\ managed'[q].deleting = managed[q].deleting
    BY <1>1, <2>1, UpdateStatusStep, SeenFields
  <2> QED
    BY <1>4, <2>1, <2>2
<1>7. ASSUME NEW p \in Procs, Exit(p)
      PROVE  CredentialInv'
  <2>1. Stop(p) /\ Forget(p) /\ UNCHANGED <<deployment, secret>>
    BY <1>7 DEF Exit, clusterVars
  <2>2. /\ pc'[p] = "idle" /\ resource'.deleting = resource.deleting
        /\ \A q \in Procs \ {p} : pc'[q] = pc[q]
                                   /\ managed'[q].deleting = managed[q].deleting
    BY <1>1, <2>1, StopStep
  <2> QED
    BY <1>4, <2>1, <2>2
<1>8. ASSUME NEW p \in Procs, Begin(p)
      PROVE  CredentialInv'
  <2>1. Start(p) /\ UNCHANGED <<deployment, secret, password>>
    BY <1>8 DEF Begin, clusterVars, localVars
  <2>2. /\ pc'[p] \in {"finalize", "connect"} /\ resource' = resource
        /\ managed'[p].deleting = resource.deleting
        /\ \A q \in Procs \ {p} : pc'[q] = pc[q] /\ managed'[q] = managed[q]
    BY <1>1, <2>1, StartStep DEF Start
  <2>3. \A q \in Procs : Engaged(q)' =>
           \/ Engaged(q) /\ managed'[q].deleting = managed[q].deleting
           \/ resource.deleting => managed'[q].deleting
    BY <2>2 DEF Engaged
  <2>4. SecretInv' /\ PublishedPasswordIsRunning'
    BY <1>1, <2>1, <2>2, <2>3, SecretFrame
  <2>5. CreatedInv'
    BY <1>1, <2>1, <2>2 DEF CreatedInv
  <2> QED
    BY <2>4, <2>5 DEF CredentialInv
<1>9. ASSUME UNCHANGED <<pc, deployment, password>>,
             secret' = secret \/ Disown,
             resource.deleting => resource'.deleting,
             \A q \in Procs : managed'[q].deleting = managed[q].deleting
      PROVE  CredentialInv'
  <2>1. \A q \in Procs : Engaged(q)' =>
           Engaged(q) /\ managed'[q].deleting = managed[q].deleting
    BY <1>9 DEF Engaged
  <2>2. \/ secret' = secret
        \/ secret' = [secret EXCEPT !.stale = secret.exists] /\ ClusterTypeOK
    BY <1>1, <1>9 DEF Disown
  <2>3. SecretInv' /\ PublishedPasswordIsRunning'
    BY <1>1, <1>9, <2>1, <2>2, SecretFrame
  <2>4. CreatedInv'
    BY <1>1, <1>9 DEF CreatedInv
  <2> QED
    BY <2>3, <2>4 DEF CredentialInv
<1>10. ASSUME NEW p \in Procs, Elect(p), UNCHANGED <<clusterVars, localVars>>
       PROVE  CredentialInv'
  BY <1>9, <1>10 DEF Elect, clusterVars, localVars
<1>11. CASE User
  <2>1. /\ UserCreate \/ UserDelete
        /\ UNCHANGED <<deployment, password>>
        /\ secret' = secret \/ Disown
    BY <1>11 DEF User, clusterVars, localVars
  <2>2. /\ pc' = pc /\ ~resource.deleting
        /\ \A q \in Procs : managed'[q] = Seen(q)
    BY <1>1, <2>1, UserCreateStep, UserDeleteStep DEF ResourceInv
  <2>3. \A q \in Procs : managed'[q].deleting = managed[q].deleting
    BY <1>1, <2>2, SeenFields
  <2> QED
    BY <1>9, <2>1, <2>2, <2>3
<1>12. CASE BecomeAvailable \/ ReleaseClaim \/ CollectSecret \/ Interfere
  <2>1. UNCHANGED <<managedVars, localVars>>
    BY <1>1, <1>12, KubernetesStep
  <2>2. UNCHANGED <<resource, managed, pc, password>>
    BY <2>1 DEF managedVars, localVars
  <2>3. /\ deployment'.exists = deployment.exists
        /\ deployment'.exists => deployment'.pw = deployment.pw
    BY <1>1, <1>12, KubernetesStep
  <2>4. secret' = secret \/ secret' = NoSecret
    BY <1>12 DEF BecomeAvailable, ReleaseClaim, CollectSecret, Interfere
  <2>5. \A q \in Procs : Engaged(q)' =>
           Engaged(q) /\ managed'[q].deleting = managed[q].deleting
    BY <2>2 DEF Engaged
  <2>6. SecretInv' /\ PublishedPasswordIsRunning'
    BY <1>1, <2>2, <2>3, <2>4, <2>5, SecretFrame
  <2>7. CreatedInv'
    BY <1>1, <2>2, <2>3 DEF CreatedInv
  <2> QED
    BY <2>6, <2>7 DEF CredentialInv
<1>13. CASE UNCHANGED vars
  BY <1>9, <1>13 DEF vars, managedVars, clusterVars, localVars
<1> QED
  BY <1>2, <1>3, <1>5, <1>6, <1>7, <1>8, <1>10, <1>11, <1>12, <1>13
     DEF Next, Reconcile, OwnStep

(***************************************************************************)
(* With a sole worker, and nobody else taking the Deployment away, the     *)
(* password in the connection secret is the one the database runs with,    *)
(* whatever calls fail and whenever the process stops (postgres.go:162).   *)
(***************************************************************************)
THEOREM PublishedPasswordCorrect ==
  ASSUME SoleWorker, "deployment" \notin Drift
  PROVE  Spec => []PublishedPasswordIsRunning
<1> DEFINE Inv == TypeOK /\ SpecInv /\ PasswordInv /\ WorkInv /\ CredentialInv
<1>1. Init => Inv
  BY TypeInit, WorkInit, CredentialInit
<1>2. Inv /\ [Next]_vars => Inv'
  BY TypeNext, WorkNext, CredentialNext
<1>3. Inv => PublishedPasswordIsRunning
  BY DEF CredentialInv
<1> QED
  BY <1>1, <1>2, <1>3, PTL DEF Spec

(***************************************************************************)
(* The whole invariant of the credentials: what the secret holds, and that *)
(* a Create past its Deployment holds the password that Deployment runs    *)
(* with (postgres.go:162-200).                                             *)
(***************************************************************************)
THEOREM CredentialsKept ==
  ASSUME SoleWorker, "deployment" \notin Drift
  PROVE  Spec => []CredentialInv
<1> DEFINE Inv == TypeOK /\ SpecInv /\ PasswordInv /\ WorkInv /\ CredentialInv
<1>1. Init => Inv
  BY TypeInit, WorkInit, CredentialInit
<1>2. Inv /\ [Next]_vars => Inv'
  BY TypeNext, WorkNext, CredentialNext
<1> QED
  BY <1>1, <1>2, PTL DEF Spec

-----------------------------------------------------------------------------
(* The password of the spec *)

(***************************************************************************)
(* One step of one process: the others keep their place, their spec and    *)
(* their password.                                                         *)
(***************************************************************************)
LEMMA GivenOwnStep ==
  ASSUME TypeOK, GivenInv, "readFail" \notin Faults,
         NEW p \in Procs, NEW o \in Outcomes, OwnStep(p, o)
  PROVE  GivenInv'
<1>1. ManagedTypeOK /\ LocalTypeOK
  BY DEF TypeOK
<1>2. /\ managed'[p].spec = managed[p].spec
      /\ \A q \in Procs \ {p} : pc'[q] = pc[q] /\ managed'[q] = managed[q]
  BY <1>1, OwnStepFrame
<1>3. o \in ReadOutcomes => o = "ok"
  BY DEF ReadOutcomes
<1> USE DEF Continue, localVars
<1>4. CASE ParseInputSecret(p, o)
  <2> DEFINE given == managed[p].spec.password
  <2>1. /\ password' = [password EXCEPT ![p] = given]
        /\ Goto(p, IF given = NoPw THEN "generatePassword" ELSE "createDeployment")
    BY <1>3, <1>4 DEF ParseInputSecret
  <2>2. pc'[p] = IF given = NoPw THEN "generatePassword" ELSE "createDeployment"
    BY <1>1, <2>1, GotoStep
  <2>3. password'[p] = given /\ \A q \in Procs \ {p} : password'[q] = password[q]
    BY <1>1, <2>1 DEF LocalTypeOK
  <2> QED
    BY <1>2, <2>2, <2>3 DEF GivenInv
<1>5. CASE GeneratePassword(p, o)
  <2>1. pc[p] = "generatePassword" /\ managed[p].spec.password = NoPw
    BY <1>5 DEF GeneratePassword, GivenInv
  <2>2. \A q \in Procs \ {p} : password'[q] = password[q]
    BY <1>1, <1>5 DEF GeneratePassword, LocalTypeOK
  <2>3. pc'[p] \in {"createDeployment", "updateStatus"}
    BY <1>1, <1>5, GotoStep DEF GeneratePassword
  <2> QED
    BY <1>2, <2>1, <2>2, <2>3 DEF GivenInv
<1>6. CASE ~ParseInputSecret(p, o) /\ ~GeneratePassword(p, o)
  <2>1. password' = password
    BY <1>6 DEF OwnStep, Connect, ObserveDeployment, ObserveService, PublishObserved,
       PublishCreated, Update, Publish, CreateClaim, CreateDeployment, CreateService,
       DeletePostgresService, DeletePostgresDeployment, DeletePostgresPVC
  <2>2. pc'[p] \notin {"generatePassword", "createDeployment"}
    <3>1. CASE Connect(p, o) \/ ObserveDeployment(p, o) \/ ObserveService(p, o)
      BY <1>1, <3>1, GotoStep DEF Connect, ObserveDeployment, ObserveService, Observed
    <3>2. CASE PublishObserved(p, o) \/ PublishCreated(p, o) \/ Update(p, o)
      BY <1>1, <3>2, GotoStep DEF PublishObserved, PublishCreated, Update, Publish
    <3>3. CASE CreateClaim(p, o) \/ CreateDeployment(p, o) \/ CreateService(p, o)
      BY <1>1, <3>3, GotoStep DEF CreateClaim, CreateDeployment, CreateService
    <3>4. CASE \/ DeletePostgresService(p, o) \/ DeletePostgresDeployment(p, o)
               \/ DeletePostgresPVC(p, o)
      BY <1>1, <3>4, GotoStep
         DEF DeletePostgresService, DeletePostgresDeployment, DeletePostgresPVC,
             DeleteOutcomes
    <3> QED
      BY <1>6, <3>1, <3>2, <3>3, <3>4 DEF OwnStep
  <2> QED
    BY <1>2, <2>1, <2>2 DEF GivenInv
<1> QED
  BY <1>4, <1>5, <1>6

LEMMA GivenNext ==
  ASSUME TypeOK, GivenInv, "readFail" \notin Faults, [Next]_vars
  PROVE  GivenInv'
<1>1. ManagedTypeOK /\ LocalTypeOK
  BY DEF TypeOK
<1>2. ASSUME NEW p \in Procs, NEW o \in Outcomes, OwnStep(p, o)
      PROVE  GivenInv'
  BY <1>2, GivenOwnStep
<1>3. ASSUME NEW p \in Procs,
             pc'[p] \notin {"generatePassword", "createDeployment"},
             \A q \in Procs \ {p} : /\ pc'[q] = pc[q] /\ password'[q] = password[q]
                                     /\ managed'[q].spec = managed[q].spec
      PROVE  GivenInv'
  BY <1>3 DEF GivenInv
<1>4. ASSUME NEW p \in Procs, NEW o \in Outcomes,
             Finalizer(p, o) \/ Finalize(p, o) \/ Report(p, o)
      PROVE  GivenInv'
  <2>1. PICK next \in {"createClaim", "publishUpdated", "updateStatus"} :
          AddFinalizer(p, o, next) \/ RemoveFinalizer(p, o) \/ UpdateStatus(p, o)
    BY <1>4 DEF Finalizer, Finalize, Report
  <2>2. \A q \in Procs \ {p} : password'[q] = password[q]
    BY <1>1, <1>4 DEF Finalizer, Finalize, Report, Forget, LocalTypeOK, localVars
  <2>3. /\ pc'[p] \notin {"generatePassword", "createDeployment"}
        /\ \A q \in Procs \ {p} : pc'[q] = pc[q] /\ managed'[q].spec = managed[q].spec
    BY <1>1, <2>1, AddFinalizerStep, RemoveFinalizerStep, UpdateStatusStep, SeenFields
  <2> QED
    BY <1>3, <2>2, <2>3
<1>5. ASSUME NEW p \in Procs, Begin(p) \/ Exit(p)
      PROVE  GivenInv'
  <2>1. Start(p) \/ Stop(p)
    BY <1>5 DEF Begin, Exit
  <2>2. \A q \in Procs \ {p} : password'[q] = password[q]
    BY <1>1, <1>5 DEF Begin, Exit, Forget, LocalTypeOK, localVars
  <2>3. /\ pc'[p] \notin {"generatePassword", "createDeployment"}
        /\ \A q \in Procs \ {p} : pc'[q] = pc[q] /\ managed'[q].spec = managed[q].spec
    BY <1>1, <2>1, StartStep, StopStep
  <2> QED
    BY <1>3, <2>2, <2>3
<1>6. ASSUME UNCHANGED <<pc, password>>,
             \A q \in Procs : managed'[q].spec = managed[q].spec
      PROVE  GivenInv'
  BY <1>6 DEF GivenInv
<1>7. CASE User
  <2>1. (UserCreate \/ UserDelete) /\ UNCHANGED password
    BY <1>7 DEF User, localVars
  <2> QED
    BY <1>1, <1>6, <2>1, UserCreateStep, UserDeleteStep, SeenFields
<1>8. CASE \/ \E p \in Procs : Elect(p) /\ UNCHANGED <<clusterVars, localVars>>
           \/ BecomeAvailable \/ ReleaseClaim \/ CollectSecret \/ Interfere
           \/ UNCHANGED vars
  BY <1>6, <1>8 DEF Elect, BecomeAvailable, ReleaseClaim, CollectSecret, Interfere,
     vars, managedVars, localVars
<1> QED
  BY <1>2, <1>4, <1>5, <1>7, <1>8 DEF Next, Reconcile, OwnStep

(***************************************************************************)
(* While reads do not fail, a sole worker creates the Deployment with the  *)
(* password in the secret the spec refers to, whatever writes fail and     *)
(* whenever the process stops, and for the spec of the resource as it is   *)
(* stored then, not for that of an earlier incarnation (apis               *)
(* postgres.go:41; postgres.go:162-180).                                   *)
(***************************************************************************)
THEOREM GivenPasswordRuns ==
  ASSUME SoleWorker, "readFail" \notin Faults
  PROVE  Spec => GivenPasswordUsed
<1> DEFINE Inv == TypeOK /\ SpecInv /\ PasswordInv /\ WorkInv /\ GivenInv
           Given == ~deployment.exists /\ deployment'.exists
                       /\ resource.spec.password # NoPw
                      => deployment'.pw = resource.spec.password
<1>1. Init => Inv
  <2>1. Init => GivenInv
    BY DEF Init, ManagedInit, GivenInv
  <2> QED
    BY <2>1, TypeInit, WorkInit
<1>2. Inv /\ [Next]_vars => Inv'
  BY TypeNext, WorkNext, GivenNext
<1>3. Inv /\ [Next]_vars => [Given]_vars
  <2> SUFFICES ASSUME Inv, [Next]_vars, ~deployment.exists, deployment'.exists,
                      resource.spec.password # NoPw
               PROVE  deployment'.pw = resource.spec.password
    OBVIOUS
  <2>1. deployment' # deployment /\ deployment' # NoDeployment
    BY DEF NoDeployment
  <2>2. PICK p \in Procs, o \in Outcomes : CreateDeployment(p, o)
    <3>1. ~(BecomeAvailable \/ Interfere)
      BY KubernetesStep DEF TypeOK
    <3>2. \A p \in Procs, o \in Outcomes : ~DeletePostgresDeployment(p, o)
      BY <2>1 DEF DeletePostgresDeployment
    <3> QED
      BY <2>1, <3>1, <3>2, DeploymentStep
  <2>3. pc[p] = "createDeployment"
        /\ deployment' = [exists |-> TRUE, available |-> FALSE, pw |-> password[p]]
    BY <2>1, <2>2 DEF CreateDeployment, MakePostgresDeployment
  <2>4. managed[p].finalizer /\ CopyInv(p)
    BY <2>3 DEF WorkInv, ManagedInv, StepInv, CreateLabels
  <2>5. managed[p].spec = resource.spec
    BY <2>3, <2>4 DEF CopyInv, Engaged
  <2> QED
    BY <2>3, <2>5 DEF GivenInv
<1> QED
  BY <1>1, <1>2, <1>3, PTL DEF Spec, GivenPasswordUsed

=============================================================================
