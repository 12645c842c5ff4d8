----------------------------- MODULE CalmProofs -----------------------------
(***************************************************************************)
(* Proofs of what the Postgres controller promises while nothing fails and *)
(* nobody interrupts it, however users create and delete the resource      *)
(* between any two of its calls, and whatever becomes of its pod and of    *)
(* the Service meanwhile.                                                  *)
(***************************************************************************)
EXTENDS PortProofs

-----------------------------------------------------------------------------
(* What calm means for a step *)

LEMMA CalmFacts ==
  ASSUME Calm
  PROVE  /\ SoleWorker
         /\ "readFail" \notin Faults /\ "crash" \notin Faults
         /\ "deployment" \notin Drift
         /\ ReadOutcomes = {"ok"} /\ WriteOutcomes = {"ok"}
         /\ CallOutcomes = {"ok"} /\ Raced = {}
BY DEF Calm, SoleWorker, Raced, CallOutcomes, ReadOutcomes, WriteOutcomes

(***************************************************************************)
(* The one call that still fails is the deletion of a Service that others  *)
(* remove first.                                                           *)
(***************************************************************************)
LEMMA CalmOutcome ==
  ASSUME Calm, NEW p \in Procs, NEW o \in Outcomes, OwnStep(p, o)
  PROVE  pc[p] # "deleteService" => o = "ok"
<1>1. CASE Connect(p, o) \/ ObserveDeployment(p, o) \/ ObserveService(p, o)
  BY <1>1, CalmFacts DEF Connect, ObserveDeployment, ObserveService
<1>2. CASE PublishObserved(p, o) \/ PublishCreated(p, o) \/ Update(p, o)
  BY <1>2, CalmFacts DEF PublishObserved, PublishCreated, Update, Publish
<1>3. CASE CreateClaim(p, o) \/ CreateDeployment(p, o) \/ CreateService(p, o)
  BY <1>3, CalmFacts
     DEF CreateClaim, CreateDeployment, CreateService, CreateOrUpdateOutcomes
<1>4. CASE ParseInputSecret(p, o) \/ GeneratePassword(p, o)
  BY <1>4, CalmFacts DEF ParseInputSecret, GeneratePassword
<1>5. CASE DeletePostgresService(p, o)
  BY <1>5 DEF DeletePostgresService
<1>6. CASE DeletePostgresDeployment(p, o) \/ DeletePostgresPVC(p, o)
  BY <1>6, CalmFacts DEF DeletePostgresDeployment, DeletePostgresPVC, DeleteOutcomes
<1> QED
  BY <1>1, <1>2, <1>3, <1>4, <1>5, <1>6 DEF OwnStep

(***************************************************************************)
(* Without leader election nobody ever holds the lease, so that no process *)
(* ends for having lost it.                                                *)
(***************************************************************************)
Unled == leader = NoProc

LEMMA UnledNext ==
  ASSUME Calm, TypeOK, Unled, [Next]_vars
  PROVE  Unled' /\ \A p \in Procs : ~Exit(p)
<1>1. ManagedTypeOK
  BY DEF TypeOK
<1>2. \A p \in Procs : ~Exit(p)
  BY CalmFacts, ManagedAssumption DEF Exit, Stop, Unled
<1>3. ASSUME NEW p \in Procs, NEW o \in Outcomes, Reconcile(p, o)
      PROVE  leader' = leader
  <2>1. CASE OwnStep(p, o)
    BY <1>1, <2>1, OwnStepFrame
  <2>2. CASE Finalizer(p, o) \/ Finalize(p, o) \/ Report(p, o)
    BY <2>2 DEF Finalizer, AddFinalizer, Finalize, RemoveFinalizer, Report, UpdateStatus
  <2> QED
    BY <1>3, <2>1, <2>2 DEF Reconcile, OwnStep
<1>4. ASSUME NEW p \in Procs, Begin(p) \/ Elect(p)
      PROVE  leader' = leader
  BY <1>4 DEF Begin, Start, Elect, Calm
<1>5. User => leader' = leader
  BY <1>1, UserCreateStep, UserDeleteStep DEF User
<1>6. BecomeAvailable \/ ReleaseClaim \/ CollectSecret \/ Interfere \/ UNCHANGED vars
        => leader' = leader
  BY KubernetesStep DEF TypeOK, vars, managedVars
<1> QED
  BY <1>2, <1>3, <1>4, <1>5, <1>6 DEF Next, Unled

-----------------------------------------------------------------------------
(* Nothing is left behind *)

LEMMA ClaimOwnStep ==
  ASSUME Calm, TypeOK, WorkInv, ClaimInv,
         NEW p \in Procs, NEW o \in Outcomes, OwnStep(p, o)
  PROVE  ClaimInv'
<1>1. /\ ManagedTypeOK /\ ClusterTypeOK /\ StepInv(p) /\ Procs = {p}
      /\ pc[p] # "deleteService" => o = "ok"
  BY CalmOutcome DEF TypeOK, WorkInv, Calm
<1> DEFINE Lost == claim = "bound" /\ ~deployment.exists
<1>2. Lost => pc[p] \in {"parseInputSecret", "generatePassword",
                         "createDeployment", "deleteClaim"}
  BY <1>1 DEF ClaimInv
<1> USE DEF Continue
<1>3. CASE CreateClaim(p, o)
  <2>1. pc[p] = "createClaim" /\ ~deployment.exists /\ deployment' = deployment
    BY <1>1, <1>3 DEF CreateClaim, StepInv
  <2>2. claim # "bound"
    BY <1>2, <2>1
  <2>3. CASE MakePVCPostgres(p)
    <3>1. Goto(p, "parseInputSecret")
      BY <1>1, <1>3, <2>3 DEF CreateClaim
    <3>2. pc'[p] = "parseInputSecret"
      BY <1>1, <3>1, GotoStep
    <3> QED
      BY <3>2 DEF ClaimInv
  <2>4. CASE ~MakePVCPostgres(p)
    <3>1. claim' = claim
      BY <1>3, <2>4 DEF CreateClaim
    <3> QED
      BY <2>2, <3>1 DEF ClaimInv
  <2> QED
    BY <2>3, <2>4
<1>4. CASE ParseInputSecret(p, o) \/ GeneratePassword(p, o)
  <2>1. pc'[p] \in {"generatePassword", "createDeployment"}
    <3>1. CASE ParseInputSecret(p, o)
      BY <1>1, <3>1, GotoStep DEF ParseInputSecret
    <3>2. CASE GeneratePassword(p, o)
      <4>1. Goto(p, "createDeployment")
        BY <1>1, <3>2 DEF GeneratePassword
      <4> QED
        BY <1>1, <4>1, GotoStep
    <3> QED
      BY <1>4, <3>1, <3>2
  <2> QED
    BY <2>1 DEF ClaimInv
<1>5. CASE CreateDeployment(p, o)
  <2>1. deployment'.exists
    <3>1. \/ deployment' = deployment /\ deployment.exists
          \/ deployment' = [exists |-> TRUE, available |-> FALSE, pw |-> password[p]]
      BY <1>1, <1>5 DEF CreateDeployment, MakePostgresDeployment, Applied
    <3> QED
      BY <3>1
  <2> QED
    BY <2>1 DEF ClaimInv
<1>6. CASE DeletePostgresDeployment(p, o)
  <2>1. Goto(p, "deleteClaim")
    BY <1>1, <1>6 DEF DeletePostgresDeployment
  <2>2. pc'[p] = "deleteClaim"
    BY <1>1, <2>1, GotoStep
  <2> QED
    BY <2>2 DEF ClaimInv
<1>7. CASE DeletePostgresPVC(p, o)
  <2>1. claim' # "bound"
    BY <1>1, <1>7 DEF DeletePostgresPVC, Applied
  <2> QED
    BY <2>1 DEF ClaimInv
<1>8. CASE \/ Connect(p, o) \/ ObserveDeployment(p, o) \/ ObserveService(p, o)
           \/ PublishObserved(p, o) \/ PublishCreated(p, o) \/ Update(p, o)
           \/ CreateService(p, o) \/ DeletePostgresService(p, o)
  <2>1. UNCHANGED <<deployment, claim>>
    BY <1>8 DEF Connect, ObserveDeployment, ObserveService, PublishObserved,
       PublishCreated, Update, Publish, CreateService, DeletePostgresService, clusterVars
  <2>2. pc[p] \notin {"parseInputSecret", "generatePassword", "createDeployment",
                      "deleteClaim"}
    BY <1>8 DEF Connect, ObserveDeployment, ObserveService, PublishObserved,
       PublishCreated, Update, CreateService, DeletePostgresService
  <2> QED
    BY <1>2, <2>1, <2>2 DEF ClaimInv
<1> QED
  BY <1>3, <1>4, <1>5, <1>6, <1>7, <1>8 DEF OwnStep

LEMMA ClaimInit == Init => ClaimInv
BY DEF Init, ClaimInv

LEMMA ClaimNext ==
  ASSUME Calm, TypeOK, WorkInv, ClaimInv, Unled, [Next]_vars
  PROVE  ClaimInv'
<1>1. CASE \E p \in Procs, o \in Outcomes : OwnStep(p, o)
  BY <1>1, ClaimOwnStep
<1>2. CASE \A p \in Procs, o \in Outcomes : ~OwnStep(p, o)
  <2>1. /\ deployment'.exists = deployment.exists
        /\ claim' = claim \/ claim' = "absent"
        /\ \A q \in Procs : pc'[q] = pc[q] \/ pc[q] \in TurnsFrom \/ Exit(q)
    BY <1>2, CalmFacts, OtherStep
  <2> QED
    BY <2>1, UnledNext DEF ClaimInv, TurnsFrom
<1> QED
  BY <1>1, <1>2

(***************************************************************************)
(* A resource that is being deleted goes only when a reconcile removes its *)
(* finalizer.                                                              *)
(***************************************************************************)
LEMMA GoneStep ==
  ASSUME TypeOK, WorkInv, [Next]_vars, resource.deleting, ~resource'.exists
  PROVE  \E p \in Procs, o \in Outcomes : Finalize(p, o)
<1>1. ManagedTypeOK /\ ClusterTypeOK /\ resource.exists
  BY DEF TypeOK, WorkInv, ManagedInv, ResourceInv
<1>2. ASSUME NEW p \in Procs, NEW o \in Outcomes, Reconcile(p, o), ~Finalize(p, o)
      PROVE  FALSE
  <2>1. CASE OwnStep(p, o)
    BY <1>1, <2>1, OwnStepFrame
  <2>2. CASE Finalizer(p, o)
    <3>1. PICK next \in {"createClaim", "publishUpdated", "updateStatus"} :
            AddFinalizer(p, o, next)
      BY <2>2 DEF Finalizer
    <3> QED
      BY <1>1, <3>1, AddFinalizerStep
  <2>3. CASE Report(p, o)
    BY <1>1, <2>3, UpdateStatusStep DEF Report
  <2> QED
    BY <1>2, <2>1, <2>2, <2>3 DEF Reconcile, OwnStep
<1>3. ASSUME NEW p \in Procs, Begin(p) \/ Exit(p) \/ Elect(p)
      PROVE  FALSE
  BY <1>1, <1>3 DEF Begin, Start, Exit, Stop, Elect
<1>4. ~User
  BY <1>1, UserCreateStep, UserDeleteStep DEF User
<1>5. CASE BecomeAvailable \/ ReleaseClaim \/ CollectSecret \/ Interfere \/ UNCHANGED vars
  BY <1>1, <1>5, KubernetesStep DEF vars, managedVars
<1> QED
  BY <1>2, <1>3, <1>4, <1>5 DEF Next

(***************************************************************************)
(* While it is calm, a resource with policy Delete that was deleted after  *)
(* it was set up leaves no Deployment, no Service and no claim, whenever   *)
(* the user asks for the deletion and whatever is created afterwards: the  *)
(* finalizer goes only after the deletions of Delete, which start with the *)
(* Service and reach the claim in the reconcile that deletes the           *)
(* Deployment (postgres.go:113, 210-224).                                  *)
(***************************************************************************)
THEOREM NothingIsLeftBehind ==
  ASSUME Calm
  PROVE  Spec => NothingLeftBehind
<1> DEFINE Inv == /\ TypeOK /\ SpecInv /\ PasswordInv /\ WorkInv
                  /\ CredentialInv /\ ServiceInv /\ ClaimInv /\ Unled
           Bare == resource.deleting /\ ~resource'.exists
                     /\ resource.spec.policy = "Delete"
                   => service = NoPort /\ ~deployment.exists /\ claim # "bound"
<1>1. Init => Inv
  <2>1. Init => Unled
    BY DEF Init, ManagedInit, Unled
  <2> QED
    BY <2>1, TypeInit, WorkInit, CredentialInit, ServiceInit, ClaimInit
<1>2. Inv /\ [Next]_vars => Inv'
  BY CalmFacts, TypeNext, WorkNext, CredentialNext, ServiceNext, ClaimNext, UnledNext
<1>3. Inv /\ [Next]_vars => [Bare]_vars
  <2> SUFFICES ASSUME Inv, [Next]_vars, resource.deleting, ~resource'.exists,
                      resource.spec.policy = "Delete"
               PROVE  service = NoPort /\ ~deployment.exists /\ claim # "bound"
    OBVIOUS
  <2>1. PICK p \in Procs, o \in Outcomes : Finalize(p, o)
    BY GoneStep
  <2>2. pc[p] = "finalize"
    BY <2>1 DEF Finalize, RemoveFinalizer
  <2>3. managed[p].spec = resource.spec
    BY <2>2 DEF WorkInv, ManagedInv, CopyInv, Engaged
  <2>4. ~deployment.exists
    BY <2>2, <2>3 DEF WorkInv, StepInv
  <2>5. claim # "bound"
    <3>1. \A q \in Procs : q = p
      BY DEF Calm
    <3> QED
      BY <2>2, <2>4, <3>1 DEF ClaimInv
  <2> QED
    BY <2>4, <2>5 DEF ServiceInv
<1> QED
  BY <1>1, <1>2, <1>3, PTL DEF Spec, NothingLeftBehind

-----------------------------------------------------------------------------
(* Ready means complete *)

AllDeleted == \A s \in Specs : s.policy = "Delete"

Complete == HasPassword /\ secret.endpoint

KnownLabels == {"addFinalizer"} \cup CreateLabels

(***************************************************************************)
(* A publication takes nothing away from a secret that has a password, and *)
(* what it leaves in the secret of a resource that is there is usable.     *)
(***************************************************************************)
LEMMA PublishKeeps ==
  ASSUME ClusterTypeOK, NEW p \in Procs, NEW endpoint \in BOOLEAN,
         NEW pw \in Password \cup {NoPw}, NEW next, Publish(p, "ok", endpoint, pw, next)
  PROVE  /\ UNCHANGED <<resource, managed, deployment, service, observed>>
         /\ HasPassword => HasPassword'
         /\ Complete => Complete'
         /\ secret'.stale => secret.stale \/ managed[p].version = "gone"
         /\ \/ Goto(p, "updateStatus") /\ secret' = secret
               /\ secret.exists /\ ~(secret.stale <=> managed[p].version = "gone")
            \/ /\ Goto(p, next) /\ secret'.exists
               /\ secret'.stale <=> managed[p].version = "gone"
               /\ secret'.endpoint <=> endpoint \/ secret.endpoint
               /\ pw # NoPw => secret'.pw = pw
<1> DEFINE gone == managed[p].version = "gone"
           refused == secret.exists /\ secret.stale # gone
           published == IF pw = NoPw THEN secret.port ELSE IntValue(port[p])
<1>1. UNCHANGED <<resource, managed, deployment, service, observed>>
  BY DEF Publish, localVars
<1>2. CASE refused
  <2>1. secret' = secret /\ Goto(p, "updateStatus")
    BY <1>2 DEF Publish, Continue
  <2>2. secret.exists /\ ~(secret.stale <=> gone)
    BY <1>2 DEF ClusterTypeOK
  <2> QED
    BY <1>1, <2>1, <2>2 DEF HasPassword, Complete
<1>3. CASE ~refused
  <2>1. /\ secret' = [exists |-> TRUE, stale |-> gone,
                      endpoint |-> endpoint \/ secret.endpoint,
                      pw |-> IF pw = NoPw THEN secret.pw ELSE pw, port |-> published]
        /\ Goto(p, next)
    BY <1>3 DEF Publish, Continue, Applied
  <2> HIDE DEF published, gone
  <2>2. /\ secret'.exists /\ secret'.stale = gone
        /\ secret'.endpoint = (endpoint \/ secret.endpoint)
        /\ secret'.pw = IF pw = NoPw THEN secret.pw ELSE pw
    BY <2>1
  <2>3. secret.exists => secret.stale = gone
    BY <1>3
  <2>4. /\ HasPassword => HasPassword'
        /\ Complete => Complete'
    BY <2>2, <2>3 DEF HasPassword, Complete
  <2> QED
    BY <1>1, <2>1, <2>2, <2>4 DEF gone
<1> QED
  BY <1>2, <1>3

(***************************************************************************)
(* The steps of a reconcile keep complete what is taken for set up.        *)
(***************************************************************************)
LEMMA ReadyOwnStep ==
  ASSUME Calm, TypeOK, PasswordInv, WorkInv, CredentialInv, ServiceInv, ReadyInv,
         NEW p \in Procs, NEW o \in Outcomes, OwnStep(p, o)
  PROVE  ReadyInv'
<1> DEFINE gone == managed[p].version = "gone"
           Trusted == ~managed[p].deleting /\ ~gone
<1>1. /\ ManagedTypeOK /\ ClusterTypeOK /\ LocalTypeOK
      /\ StepInv(p) /\ CreatedInv /\ Procs = {p}
      /\ pc[p] # "deleteService" => o = "ok"
  BY CalmOutcome DEF TypeOK, WorkInv, CredentialInv, Calm
<1>2. /\ resource' = resource
      /\ managed'[p].deleting = managed[p].deleting
      /\ managed'[p].finalizer = managed[p].finalizer
      /\ managed'[p].version = managed[p].version
      /\ Busy(p)
  BY <1>1, OwnStepFrame DEF OwnLabels, ObserveLabels, CreateLabels, DeleteLabels, Busy
<1>3. /\ deployment.exists => resource.finalizer
      /\ secret.stale => ~deployment.exists
      /\ service # NoPort => HasPassword \/ pc[p] = "publishCreated"
      /\ resource.ready /\ ~resource.deleting => Complete
      /\ managed[p].finalizer => resource.finalizer
      /\ gone => ~resource.finalizer /\ ~managed[p].finalizer
      /\ pc[p] \in KnownLabels /\ ~gone => secret.exists /\ ~secret.stale
      /\ managed[p].ready /\ Trusted =>
           /\ HasPassword
           /\ \/ secret.endpoint
              \/ pc[p] = "publishObserved" /\ observed[p] = "ready"
  BY <1>1, <1>2
     DEF ReadyInv, ReadyHasCredentials, Complete, HasPassword, KnownLabels
<1>4. ASSUME deployment'.exists => resource.finalizer,
             secret'.stale => ~deployment'.exists,
             service' # NoPort => HasPassword' \/ pc'[p] = "publishCreated",
             resource.ready /\ ~resource.deleting => Complete',
             pc'[p] \in KnownLabels /\ ~gone => secret'.exists /\ ~secret'.stale,
             managed'[p].ready /\ Trusted =>
               /\ HasPassword'
               /\ \/ secret'.endpoint
                  \/ pc'[p] = "publishObserved" /\ observed'[p] = "ready"
      PROVE  ReadyInv'
  BY <1>1, <1>2, <1>3, <1>4
     DEF ReadyInv, ReadyHasCredentials, Complete, HasPassword, KnownLabels
<1> HIDE DEF Trusted, gone
<1>5. ASSUME secret' = secret,
             deployment'.exists => deployment.exists,
             service' = service \/ service' = NoPort,
             pc[p] \notin {"publishCreated", "publishObserved"},
             managed'[p].ready = managed[p].ready,
             pc'[p] \in KnownLabels => pc[p] \in KnownLabels
      PROVE  ReadyInv'
  BY <1>3, <1>4, <1>5 DEF HasPassword, Complete
<1>6. CASE \/ Connect(p, o) \/ ObserveDeployment(p, o) \/ CreateClaim(p, o)
           \/ ParseInputSecret(p, o) \/ GeneratePassword(p, o)
           \/ DeletePostgresService(p, o) \/ DeletePostgresDeployment(p, o)
           \/ DeletePostgresPVC(p, o)
  <2>1. /\ secret' = secret /\ managed' = managed
        /\ service' = service \/ service' = NoPort
        /\ deployment' = deployment \/ deployment' = NoDeployment
        /\ pc[p] \notin {"publishCreated", "publishObserved"}
    BY <1>6 DEF Connect, ObserveDeployment, CreateClaim, ParseInputSecret,
       GeneratePassword, DeletePostgresService, DeletePostgresDeployment,
       DeletePostgresPVC, clusterVars
  <2>2. pc'[p] \in KnownLabels => pc[p] \in KnownLabels
    <3>1. CASE Connect(p, o) \/ ObserveDeployment(p, o)
      BY <1>1, <3>1, GotoStep
         DEF Connect, ObserveDeployment, Observed, Continue, KnownLabels, CreateLabels
    <3>2. CASE CreateClaim(p, o) \/ ParseInputSecret(p, o) \/ GeneratePassword(p, o)
      BY <3>2 DEF CreateClaim, ParseInputSecret, GeneratePassword, KnownLabels,
         CreateLabels
    <3>3. CASE \/ DeletePostgresService(p, o) \/ DeletePostgresDeployment(p, o)
               \/ DeletePostgresPVC(p, o)
      <4>1. PICK l \in {"updateStatus", "deleteDeployment", "deleteClaim"} : Goto(p, l)
        BY <3>3 DEF DeletePostgresService, DeletePostgresDeployment,
           DeletePostgresPVC, Continue
      <4> QED
        BY <1>1, <4>1, GotoStep DEF KnownLabels, CreateLabels
    <3> QED
      BY <1>6, <3>1, <3>2, <3>3
  <2> QED
    BY <1>5, <2>1, <2>2 DEF NoDeployment
<1>7. CASE ObserveService(p, o)
  <2>1. /\ pc[p] = "observeService" /\ UNCHANGED <<deployment, service, secret>>
    BY <1>7 DEF ObserveService, clusterVars
  <2>2. pc'[p] \notin KnownLabels
    BY <1>1, <1>7, GotoStep DEF ObserveService, Observed, KnownLabels, CreateLabels
  <2>3. CASE service = NoPort
    <3>1. managed' = managed
      BY <1>7, <2>3 DEF ObserveService
    <3> QED
      BY <1>5, <2>1, <2>2, <3>1
  <2>4. CASE service # NoPort
    <3>1. HasPassword /\ Observed(p, "ready")
      BY <1>1, <1>3, <1>7, <2>1, <2>4 DEF ObserveService
    <3>2. observed'[p] = "ready"
      BY <1>1, <3>1 DEF Observed, LocalTypeOK
    <3>3. ~managed[p].deleting => pc'[p] = "publishObserved"
      BY <1>1, <3>1, GotoStep DEF Observed
    <3> QED
      BY <1>3, <1>4, <2>1, <2>2, <3>1, <3>2, <3>3 DEF HasPassword, Complete, Trusted
  <2> QED
    BY <2>3, <2>4
<1>8. CASE CreateDeployment(p, o)
  <2>1. /\ pc[p] = "createDeployment" /\ pc[p] \in KnownLabels
        /\ UNCHANGED <<managed, service, secret>>
    BY <1>8 DEF CreateDeployment, KnownLabels, CreateLabels
  <2>2. managed[p].finalizer
    BY <1>1, <2>1 DEF StepInv, CreateLabels
  <2>3. resource.finalizer /\ ~gone
    BY <1>3, <2>2
  <2> QED
    BY <1>3, <1>4, <2>1, <2>3 DEF HasPassword, Complete
<1>9. CASE CreateService(p, o)
  <2>1. /\ pc[p] = "createService" /\ pc[p] \in KnownLabels
        /\ UNCHANGED <<managed, deployment, secret>>
    BY <1>9 DEF CreateService, KnownLabels, CreateLabels
  <2>2. service' # NoPort => pc'[p] = "publishCreated"
    <3> DEFINE serves == MakeDefaultPostgresService(port[p])
    <3>1. service = NoPort
      BY <2>1 DEF ServiceInv
    <3>2. CASE serves \in Servable
      <4>1. Goto(p, "publishCreated")
        BY <1>1, <1>9, <3>1, <3>2 DEF CreateService, Continue
      <4> QED
        BY <1>1, <4>1, GotoStep
    <3>3. CASE serves \notin Servable
      BY <1>9, <3>1, <3>3 DEF CreateService
    <3> QED
      BY <3>2, <3>3
  <2> QED
    BY <1>3, <1>4, <2>1, <2>2 DEF HasPassword, Complete
<1>10. CASE PublishCreated(p, o)
  <2>1. pc[p] = "publishCreated" /\ Publish(p, "ok", FALSE, password[p], "updateStatus")
    BY <1>1, <1>10 DEF PublishCreated
  <2>2. password[p] \in Password /\ deployment.exists
    BY <1>1, <2>1 DEF CreatedInv, PasswordInv, NeverPasswordless, LocalTypeOK
  <2>3. ~gone /\ secret.exists /\ ~secret.stale
    <3>1. managed[p].finalizer
      BY <1>1, <2>1 DEF StepInv, CreateLabels
    <3> QED
      BY <1>3, <2>1, <3>1 DEF KnownLabels, CreateLabels
  <2>4. /\ UNCHANGED <<managed, deployment, service, observed>>
        /\ Complete => Complete'
        /\ Goto(p, "updateStatus")
        /\ secret'.exists /\ ~secret'.stale /\ secret'.pw = password[p]
        /\ secret.endpoint => secret'.endpoint
    BY <1>1, <2>1, <2>2, <2>3, PublishKeeps, PostgresAssumption DEF gone
  <2>5. pc'[p] = "updateStatus"
    BY <1>1, <2>4, GotoStep
  <2>6. HasPassword'
    BY <2>2, <2>4, PostgresAssumption DEF HasPassword
  <2> QED
    BY <1>3, <1>4, <2>1, <2>3, <2>4, <2>5, <2>6 DEF KnownLabels, CreateLabels
<1>11. CASE PublishObserved(p, o) \/ Update(p, o)
  <2>1. PICK endpoint \in BOOLEAN, next \in {"addFinalizer", "updateStatus"} :
          /\ Publish(p, "ok", endpoint, NoPw, next)
          /\ pc[p] = "publishObserved" => (endpoint <=> observed[p] = "ready")
          /\ pc[p] \in {"publishObserved", "publishUpdated"}
    BY <1>1, <1>11 DEF PublishObserved, Update
  <2>2. /\ UNCHANGED <<managed, deployment, service, observed>>
        /\ HasPassword => HasPassword'
        /\ Complete => Complete'
        /\ secret'.stale => secret.stale \/ gone
    BY <1>1, <2>1, PublishKeeps DEF gone
  <2>3. \/ /\ Goto(p, "updateStatus") /\ secret' = secret
           /\ secret.exists /\ ~(secret.stale <=> gone)
        \/ /\ Goto(p, next) /\ secret'.exists /\ (secret'.stale <=> gone)
           /\ secret'.endpoint <=> endpoint \/ secret.endpoint
    BY <1>1, <2>1, PublishKeeps DEF gone
  <2>4. \/ /\ pc'[p] = "updateStatus" /\ secret' = secret
           /\ secret.exists /\ ~(secret.stale <=> gone)
        \/ /\ pc'[p] = next /\ secret'.exists /\ (secret'.stale <=> gone)
           /\ secret'.endpoint <=> endpoint \/ secret.endpoint
    BY <1>1, <2>3, GotoStep
  <2>5. pc'[p] \in KnownLabels /\ ~gone => secret'.exists /\ ~secret'.stale
    BY <2>4 DEF KnownLabels, CreateLabels
  <2>6. managed[p].ready /\ Trusted => HasPassword' /\ secret'.endpoint
    BY <1>3, <2>1, <2>2, <2>4 DEF HasPassword, Trusted
  <2> QED
    BY <1>3, <1>4, <2>1, <2>2, <2>5, <2>6
<1> QED
  BY <1>6, <1>7, <1>8, <1>9, <1>10, <1>11 DEF OwnStep

LEMMA ReadyInit == Init => ReadyInv
BY DEF Init, ManagedInit, ReadyInv, ReadyHasCredentials, NoDeployment, NoSecret,
   NoResource, Busy

(***************************************************************************)
(* Every step of the system does.  What ends a resource finds no           *)
(* Deployment: a Deployment is created only under the finalizer.           *)
(***************************************************************************)
LEMMA ReadyNext ==
  ASSUME Calm, AllDeleted, TypeOK, SpecInv, PasswordInv, WorkInv, CredentialInv,
         ServiceInv, ReadyInv, Unled, [Next]_vars
  PROVE  ReadyInv'
<1>1. /\ ManagedTypeOK /\ ClusterTypeOK /\ ResourceInv
      /\ \A q \in Procs : CopyInv(q) /\ StepInv(q)
      /\ \A p, q \in Procs : p = q
      /\ "deployment" \notin Drift
  BY CalmFacts DEF TypeOK, WorkInv, ManagedInv, Calm
<1>2. /\ deployment.exists => resource.finalizer
      /\ secret.stale => ~deployment.exists
      /\ ~deployment.exists => service = NoPort
      /\ resource.ready /\ ~resource.deleting => Complete
      /\ service # NoPort => HasPassword \/ \E q \in Procs : pc[q] = "publishCreated"
  BY DEF ReadyInv, ReadyHasCredentials, Complete, HasPassword, ServiceInv
<1> DEFINE CopyReady(q) ==
             Busy(q) =>
               /\ managed[q].finalizer => resource.finalizer
               /\ managed[q].version = "gone" =>
                    ~resource.finalizer /\ ~managed[q].finalizer
               /\ pc[q] \in KnownLabels /\ managed[q].version # "gone" =>
                    secret.exists /\ ~secret.stale
               /\ managed[q].ready /\ ~managed[q].deleting
                    /\ managed[q].version # "gone" =>
                    /\ HasPassword
                    /\ \/ secret.endpoint
                       \/ pc[q] = "publishObserved" /\ observed[q] = "ready"
<1>3. \A q \in Procs : CopyReady(q)
  BY DEF ReadyInv, KnownLabels
<1>4. ASSUME deployment'.exists => resource'.finalizer,
             secret'.stale => ~deployment'.exists,
             service' # NoPort => HasPassword' \/ \E q \in Procs : pc'[q] = "publishCreated",
             resource'.ready /\ ~resource'.deleting => Complete',
             \A q \in Procs : CopyReady(q)'
      PROVE  ReadyInv'
  BY <1>4 DEF ReadyInv, ReadyHasCredentials, Complete, HasPassword, KnownLabels
<1>5. ASSUME NEW p \in Procs, NEW o \in Outcomes, OwnStep(p, o)
      PROVE  ReadyInv'
  BY <1>1, <1>5, ReadyOwnStep
<1>6. ASSUME NEW p \in Procs, Finalizer(p, "ok")
      PROVE  ReadyInv'
  <2>1. PICK next \in {"createClaim", "publishUpdated", "updateStatus"} :
          AddFinalizer(p, "ok", next)
    BY <1>6 DEF Finalizer
  <2>2. UNCHANGED <<deployment, service, secret, observed>>
    BY <1>6 DEF Finalizer, clusterVars, localVars
  <2>3. pc[p] = "addFinalizer" /\ Busy(p) /\ pc[p] \in KnownLabels
    BY <2>1 DEF AddFinalizer, Busy, KnownLabels
  <2>4. /\ managed'[p].deleting = managed[p].deleting
        /\ managed'[p].ready = managed[p].ready
        /\ resource'.ready = resource.ready /\ resource'.deleting = resource.deleting
        /\ \/ /\ resource' = resource
              /\ managed'[p].finalizer = managed[p].finalizer
              /\ managed'[p].version = managed[p].version
           \/ /\ Current(p) /\ resource'.finalizer
              /\ managed'[p].version \in {"latest", "outdated"}
    BY <1>1, <2>1, AddFinalizerStep
  <2>5. CopyReady(p)'
    BY <1>3, <2>2, <2>3, <2>4 DEF HasPassword, Current
  <2>6. resource.finalizer => resource'.finalizer
    BY <2>4
  <2>7. \A q \in Procs : pc[q] # "publishCreated"
    BY <1>1, <2>3
  <2> QED
    BY <1>1, <1>2, <1>4, <2>2, <2>4, <2>5, <2>6, <2>7 DEF HasPassword, Complete
<1>7. ASSUME resource' = NoResource, ~deployment.exists, ~deployment'.exists,
             service' = service,
             \A q \in Procs : Busy(q)' => managed'[q].version = "gone"
                                          /\ ~managed'[q].finalizer
      PROVE  ReadyInv'
  BY <1>2, <1>4, <1>7 DEF NoResource
<1>8. ASSUME NEW p \in Procs, Finalize(p, "ok")
      PROVE  ReadyInv'
  <2>1. /\ RemoveFinalizer(p, "ok") /\ Disown
        /\ UNCHANGED <<deployment, service>>
    BY <1>8 DEF Finalize
  <2>2. /\ pc[p] = "finalize" /\ Busy(p) /\ managed[p].deleting
        /\ resource.exists /\ managed[p].finalizer
        /\ managed[p].spec \in Specs
    BY <1>1, <2>1 DEF RemoveFinalizer, Busy, CopyInv, Engaged, ResourceInv, SpecInv
  <2>3. ~deployment.exists
    BY <1>1, <2>2 DEF StepInv, AllDeleted
  <2>4. CASE Current(p)
    <3>1. resource' = NoResource
      BY <2>1, <2>4 DEF RemoveFinalizer, Write, Applied
    <3>2. Goto(p, "idle")
      BY <2>1, <2>4 DEF RemoveFinalizer
    <3>3. pc'[p] = "idle"
      BY <1>1, <3>2, GotoStep
    <3> QED
      BY <1>1, <1>7, <2>1, <2>3, <3>1, <3>3 DEF Busy
  <2>5. CASE ~Current(p)
    <3>1. resource' = resource /\ secret' = secret
      BY <2>1, <2>2, <2>5 DEF RemoveFinalizer, Write, Disown
    <3>2. managed'[p] = At(managed[p], managed[p].version) /\ Goto(p, "updateStatus")
      BY <2>1, <2>2, <2>5 DEF RemoveFinalizer, Write
    <3>3. managed[p] \in Copy
      BY <1>1 DEF ManagedTypeOK
    <3>4. /\ managed'[p].finalizer = managed[p].finalizer
          /\ managed'[p].deleting = managed[p].deleting
          /\ managed'[p].version = managed[p].version
      BY <3>2, <3>3, AtFields
    <3>5. pc'[p] = "updateStatus"
      BY <1>1, <3>2, GotoStep
    <3>6. CopyReady(p)'
      BY <1>3, <2>2, <3>1, <3>4, <3>5 DEF KnownLabels, CreateLabels, Busy
    <3> QED
      BY <1>1, <1>2, <1>4, <2>1, <2>3, <3>1, <3>6 DEF Complete, HasPassword
  <2> QED
    BY <2>4, <2>5
<1>9. ASSUME NEW p \in Procs, Report(p, "ok")
      PROVE  ReadyInv'
  <2>1. UpdateStatus(p, "ok") /\ UNCHANGED <<deployment, service, secret>>
    BY <1>9 DEF Report, clusterVars
  <2>2. /\ pc[p] = "updateStatus" /\ Busy(p) /\ pc'[p] = "idle"
        /\ resource'.finalizer = resource.finalizer
        /\ resource'.deleting = resource.deleting
        /\ \/ resource'.ready = resource.ready
           \/ Current(p) /\ resource'.ready = managed[p].ready
    BY <1>1, <2>1, UpdateStatusStep DEF Busy
  <2>3. Current(p) /\ managed[p].ready /\ ~resource.deleting => Complete
    BY <1>1, <1>3, <2>2 DEF CopyInv, Current, Complete
  <2>4. \A q \in Procs : pc[q] # "publishCreated" /\ ~Busy(q)'
    BY <1>1, <2>2 DEF Busy
  <2> QED
    BY <1>2, <1>4, <2>1, <2>2, <2>3, <2>4 DEF HasPassword, Complete
<1>10. ASSUME NEW p \in Procs, Begin(p)
       PROVE  ReadyInv'
  <2>1. Start(p) /\ UNCHANGED <<deployment, service, secret>>
    BY <1>10 DEF Begin, clusterVars
  <2>2. /\ resource' = resource /\ pc[p] = "idle"
        /\ pc'[p] \in {"connect", "finalize"}
        /\ managed'[p].deleting = resource.deleting
        /\ managed'[p].finalizer = resource.finalizer
        /\ managed'[p].ready = resource.ready
        /\ managed'[p].version = "latest"
    BY <1>1, <2>1, StartStep DEF Start
  <2>3. CopyReady(p)'
    BY <1>2, <2>1, <2>2 DEF KnownLabels, CreateLabels, Complete, HasPassword
  <2>4. \A q \in Procs : pc[q] # "publishCreated"
    BY <1>1, <2>2
  <2> QED
    BY <1>1, <1>2, <1>4, <2>1, <2>2, <2>3, <2>4 DEF HasPassword, Complete
<1>11. CASE UserCreate /\ UNCHANGED <<clusterVars, localVars>>
  <2>1. UNCHANGED <<deployment, service, secret>>
    BY <1>11 DEF clusterVars
  <2>2. /\ ~resource.exists /\ ~resource.finalizer
        /\ ~resource'.ready /\ ~resource'.finalizer /\ pc' = pc
        /\ \A q \in Procs : managed'[q] = Seen(q)
    BY <1>1, <1>11, UserCreateStep DEF ResourceInv
  <2>3. ASSUME NEW q \in Procs PROVE CopyReady(q)'
    <3>1. managed[q].version = "gone" /\ managed'[q].version = "gone"
      BY <1>1, <2>2, SeenFields DEF CopyInv, Current
    <3> QED
      BY <1>1, <1>3, <2>2, <3>1, SeenFields DEF Busy
  <2> QED
    BY <1>2, <1>4, <2>1, <2>2, <2>3
<1>12. CASE UserDelete /\ Disown /\ UNCHANGED <<deployment, service, claim, localVars>>
  <2>1. UNCHANGED <<deployment, service, observed>>
    BY <1>12 DEF localVars
  <2>2. /\ pc' = pc /\ \A q \in Procs : managed'[q] = Seen(q)
        /\ \/ /\ resource.finalizer /\ resource'.exists
              /\ resource'.deleting /\ resource'.finalizer
           \/ ~resource.finalizer /\ resource' = NoResource
    BY <1>1, <1>12, UserDeleteStep
  <2>3. CASE resource.finalizer
    <3>1. resource'.deleting /\ resource'.finalizer /\ secret' = secret
      BY <1>12, <2>2, <2>3 DEF Disown, NoResource
    <3>2. ASSUME NEW q \in Procs PROVE CopyReady(q)'
      <4>1. managed'[q].version = "gone" => managed[q].version = "gone"
        BY <1>1, <2>2, <2>3, SeenFields
      <4> QED
        BY <1>1, <1>3, <2>1, <2>2, <2>3, <3>1, <4>1, SeenFields DEF Busy, HasPassword
    <3> QED
      BY <1>2, <1>4, <2>1, <2>2, <3>1, <3>2 DEF HasPassword
  <2>4. CASE ~resource.finalizer
    <3>1. resource' = NoResource /\ ~deployment.exists
      BY <1>2, <2>2, <2>4
    <3>2. \A q \in Procs : Busy(q)' => managed'[q].version = "gone"
                                        /\ ~managed'[q].finalizer
      BY <1>1, <1>3, <2>2, <2>4, <3>1, SeenFields DEF Busy, NoResource
    <3> QED
      BY <1>7, <2>1, <3>1, <3>2
  <2> QED
    BY <2>3, <2>4
<1>13. ASSUME UNCHANGED <<managedVars, localVars>>,
              deployment'.exists = deployment.exists,
              service' = service \/ service' = NoPort, secret' = secret
       PROVE  ReadyInv'
  <2>1. UNCHANGED <<resource, managed, pc, observed>>
    BY <1>13 DEF managedVars, localVars
  <2>2. \A q \in Procs : CopyReady(q)'
    BY <1>3, <1>13, <2>1 DEF Busy, HasPassword
  <2> QED
    BY <1>2, <1>4, <1>13, <2>1, <2>2 DEF HasPassword, Complete
<1>14. CASE BecomeAvailable \/ ReleaseClaim \/ Interfere
  <2>1. UNCHANGED <<managedVars, localVars>> /\ deployment'.exists = deployment.exists
    BY <1>1, <1>14, KubernetesStep
  <2>2. secret' = secret /\ (service' = service \/ service' = NoPort)
    BY <1>14 DEF BecomeAvailable, ReleaseClaim, Interfere
  <2> QED
    BY <1>13, <2>1, <2>2
<1>15. CASE CollectSecret
  <2>1. /\ secret.stale /\ secret' = NoSecret
        /\ UNCHANGED <<resource, managed, pc, deployment, service, observed>>
    BY <1>15 DEF CollectSecret, managedVars, localVars
  <2>2. ~secret'.stale
    BY <2>1 DEF NoSecret
  <2>3. ASSUME NEW q \in Procs PROVE CopyReady(q)'
    BY <1>3, <2>1 DEF Busy, HasPassword
  <2> QED
    BY <1>2, <1>4, <2>1, <2>2, <2>3 DEF HasPassword, Complete
<1>16. CASE UNCHANGED vars
  BY <1>13, <1>16 DEF vars, clusterVars
<1>17. ASSUME NEW p \in Procs, NEW o \in Outcomes, Reconcile(p, o)
       PROVE  ReadyInv'
  <2>1. CASE OwnStep(p, o)
    BY <1>5, <2>1
  <2>2. CASE Finalizer(p, o) \/ Finalize(p, o) \/ Report(p, o)
    <3>1. o = "ok"
      BY <2>2, CalmFacts DEF Finalizer, AddFinalizer, Finalize, RemoveFinalizer,
         Report, UpdateStatus
    <3> QED
      BY <1>6, <1>8, <1>9, <2>2, <3>1
  <2> QED
    BY <1>17, <2>1, <2>2 DEF Reconcile, OwnStep
<1> QED
  BY <1>10, <1>11, <1>12, <1>14, <1>15, <1>16, <1>17, UnledNext
     DEF Next, User, Elect, Calm

-----------------------------------------------------------------------------
(* The theorems of a calm provider *)

(***************************************************************************)
(* The inductive invariant of a calm provider that orphans nothing: where  *)
(* Create and Delete are, what they have made and taken away so far, and   *)
(* what the secret then holds (postgres.go:113-224).                       *)
(***************************************************************************)
THEOREM CalmInvariant ==
  ASSUME Calm, AllDeleted, PortsFit
  PROVE  Spec => []CalmInv
<1> DEFINE Inv == /\ TypeOK /\ SpecInv /\ PasswordInv /\ WorkInv
                  /\ CredentialInv /\ CalmInv /\ Unled
<1>1. Init => Inv
  <2>1. Init => Unled /\ GivenInv
    BY DEF Init, ManagedInit, Unled, GivenInv
  <2> QED
    BY <2>1, TypeInit, WorkInit, CredentialInit, ServiceInit, DefaultsInit,
       PortInit, ClaimInit, ReadyInit DEF CalmInv
<1>2. Inv /\ [Next]_vars => Inv'
  <2> SUFFICES ASSUME Inv, [Next]_vars PROVE Inv'
    OBVIOUS
  <2>1. TypeOK' /\ SpecInv' /\ PasswordInv' /\ WorkInv' /\ CredentialInv' /\ Unled'
    BY CalmFacts, TypeNext, WorkNext, CredentialNext, UnledNext
  <2>2. GivenInv' /\ DefaultsInv' /\ ServiceInv' /\ PortInv' /\ ClaimInv' /\ ReadyInv'
    BY CalmFacts, GivenNext, DefaultsNext, ServiceNext, PortNext, ClaimNext, ReadyNext
       DEF CalmInv
  <2> QED
    BY <2>1, <2>2 DEF CalmInv
<1> QED
  BY <1>1, <1>2, PTL DEF Spec

(***************************************************************************)
(* While it is calm and nothing is orphaned, a Ready resource that nobody  *)
(* deletes has its endpoint and its credentials in the secret, also when   *)
(* it takes the name of one that has just been deleted and the pod or the  *)
(* Service fails meanwhile (docs/database.md:11; postgres.go:113-200).     *)
(* This needs no assumption on the ports.                                  *)
(***************************************************************************)
THEOREM ReadyMeansCredentials ==
  ASSUME Calm, AllDeleted
  PROVE  Spec => []ReadyHasCredentials
<1> DEFINE Inv == /\ TypeOK /\ SpecInv /\ PasswordInv /\ WorkInv
                  /\ CredentialInv /\ ServiceInv /\ ReadyInv /\ Unled
<1>1. Init => Inv
  <2>1. Init => Unled
    BY DEF Init, ManagedInit, Unled
  <2> QED
    BY <2>1, TypeInit, WorkInit, CredentialInit, ServiceInit, ReadyInit
<1>2. Inv /\ [Next]_vars => Inv'
  BY CalmFacts, TypeNext, WorkNext, CredentialNext, ServiceNext, ReadyNext, UnledNext
<1>3. Inv => ReadyHasCredentials
  BY DEF ReadyInv
<1> QED
  BY <1>1, <1>2, <1>3, PTL DEF Spec

=============================================================================
