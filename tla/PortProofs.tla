----------------------------- MODULE PortProofs -----------------------------
(***************************************************************************)
(* Proofs about the Service and the port that is published for it: they    *)
(* are written by different steps of Create, and the Service outlives the  *)
(* reconcile that made it.                                                 *)
(***************************************************************************)
EXTENDS CredentialProofs

-----------------------------------------------------------------------------
(* Steps of the system that are not own steps of a reconcile *)

(***************************************************************************)
(* Where such a step, unless it ends the process, can take a reconcile     *)
(* from, and where it can leave it.                                        *)
(***************************************************************************)
TurnsFrom == {"idle", "addFinalizer", "finalize", "updateStatus"}
TurnsTo   == {"idle", "updateStatus", "finalize", "connect", "createClaim",
              "publishUpdated"}

Kept(q) == managed'[q].spec = managed[q].spec /\ port'[q] = port[q]

(***************************************************************************)
(* What such a step does to the objects, and to each reconcile.            *)
(***************************************************************************)
LEMMA OtherStep ==
  ASSUME TypeOK, "deployment" \notin Drift, [Next]_vars,
         \A p \in Procs, o \in Outcomes : ~OwnStep(p, o)
  PROVE  /\ deployment'.exists = deployment.exists
         /\ service' = service \/ service' = NoPort
         /\ claim' = claim \/ claim' = "absent"
         /\ \/ secret' = secret \/ secret' = NoSecret
            \/ secret' = [secret EXCEPT !.stale = secret.exists]
         /\ \A q \in Procs :
              \/ /\ pc'[q] \in TurnsTo /\ (pc[q] \in TurnsFrom \/ Exit(q))
                 /\ pc'[q] = "createClaim" => pc[q] = "addFinalizer" /\ Kept(q)
              \/ pc'[q] = pc[q] /\ Kept(q)
<1>1. ManagedTypeOK /\ ClusterTypeOK /\ port \in [Procs -> Port \cup {NoPort}]
  BY DEF TypeOK, LocalTypeOK
<1> DEFINE Cluster == /\ deployment'.exists = deployment.exists
                      /\ service' = service \/ service' = NoPort
                      /\ claim' = claim \/ claim' = "absent"
                      /\ \/ secret' = secret \/ secret' = NoSecret
                         \/ secret' = [secret EXCEPT !.stale = secret.exists]
           Local(q) ==
             \/ /\ pc'[q] \in TurnsTo /\ (pc[q] \in TurnsFrom \/ Exit(q))
                /\ pc'[q] = "createClaim" => pc[q] = "addFinalizer" /\ Kept(q)
             \/ pc'[q] = pc[q] /\ Kept(q)
<1>2. ASSUME NEW p \in Procs, NEW o \in Outcomes,
             Finalizer(p, o) \/ Finalize(p, o) \/ Report(p, o)
      PROVE  Cluster /\ \A q \in Procs : Local(q)
  <2>1. Cluster
    BY <1>2 DEF Finalizer, Finalize, Report, Disown, clusterVars
  <2>2. PICK next \in {"createClaim", "publishUpdated", "updateStatus"} :
          AddFinalizer(p, o, next) \/ RemoveFinalizer(p, o) \/ UpdateStatus(p, o)
    BY <1>2 DEF Finalizer, Finalize, Report
  <2>3. pc'[p] \in TurnsTo /\ pc[p] \in TurnsFrom
    <3>1. pc[p] \in TurnsFrom
      BY <2>2 DEF TurnsFrom, AddFinalizer, RemoveFinalizer, UpdateStatus
    <3> QED
      BY <1>1, <2>2, <3>1, AddFinalizerStep, RemoveFinalizerStep, UpdateStatusStep
         DEF TurnsTo
  <2>4. pc'[p] = "createClaim" => pc[p] = "addFinalizer" /\ Kept(p)
    <3>1. CASE Finalizer(p, o)
      <4>1. AddFinalizer(p, o, CASE observed[p] = "absent"      -> "createClaim"
                                 [] observed[p] = "progressing" -> "publishUpdated"
                                 [] OTHER                       -> "updateStatus")
            /\ port' = port
        BY <3>1 DEF Finalizer, localVars
      <4> QED
        BY <1>1, <4>1, AddFinalizerStep DEF AddFinalizer, Kept
    <3>2. CASE Finalize(p, o) \/ Report(p, o)
      BY <1>1, <3>2, RemoveFinalizerStep, UpdateStatusStep DEF Finalize, Report
    <3> QED
      BY <1>2, <3>1, <3>2
  <2>5. \A q \in Procs \ {p} : pc'[q] = pc[q] /\ managed'[q].spec = managed[q].spec
    BY <1>1, <2>2, AddFinalizerStep, RemoveFinalizerStep, UpdateStatusStep, SeenFields
  <2>6. \A q \in Procs \ {p} : port'[q] = port[q]
    BY <1>1, <1>2 DEF Finalizer, Finalize, Report, Forget, localVars
  <2> QED
    BY <2>1, <2>3, <2>4, <2>5, <2>6 DEF Kept
<1>3. ASSUME NEW p \in Procs, Begin(p) \/ Exit(p)
      PROVE  Cluster /\ \A q \in Procs : Local(q)
  <2>1. Cluster
    BY <1>3 DEF Begin, Exit, clusterVars
  <2>2. CASE Begin(p)
    <3>1. Start(p) /\ pc[p] = "idle" /\ port' = port
      BY <2>2 DEF Begin, Start, localVars
    <3> QED
      BY <1>1, <2>1, <3>1, StartStep DEF TurnsFrom, TurnsTo, Kept
  <2>3. CASE Exit(p)
    <3>1. Stop(p) /\ port' = [port EXCEPT ![p] = NoPort]
      BY <2>3 DEF Exit, Forget
    <3> QED
      BY <1>1, <2>1, <2>3, <3>1, StopStep DEF TurnsTo, Kept
  <2> QED
    BY <1>3, <2>2, <2>3
<1>4. CASE User
  <2>1. Cluster /\ (UserCreate \/ UserDelete) /\ port' = port
    BY <1>4 DEF User, Disown, clusterVars, localVars
  <2> QED
    BY <1>1, <2>1, UserCreateStep, UserDeleteStep, SeenFields DEF Kept
<1>5. CASE BecomeAvailable \/ ReleaseClaim \/ CollectSecret \/ Interfere
  <2>1. UNCHANGED <<managedVars, localVars>> /\ deployment'.exists = deployment.exists
    BY <1>1, <1>5, KubernetesStep
  <2>2. /\ service' = service \/ service' = NoPort
        /\ claim' = claim \/ claim' = "absent"
        /\ secret' = secret \/ secret' = NoSecret
    BY <1>5 DEF BecomeAvailable, ReleaseClaim, CollectSecret, Interfere
  <2> QED
    BY <2>1, <2>2 DEF managedVars, localVars, Kept
<1>6. CASE \/ \E p \in Procs : Elect(p) /\ UNCHANGED <<clusterVars, localVars>>
           \/ UNCHANGED vars
  BY <1>6 DEF Elect, vars, managedVars, clusterVars, localVars, Kept
<1> QED
  BY <1>2, <1>3, <1>4, <1>5, <1>6 DEF Next, Reconcile, OwnStep

-----------------------------------------------------------------------------
(* The Service *)

(***************************************************************************)
(* The steps of a reconcile that change none of the Deployment, the        *)
(* Service and the secret.                                                 *)
(***************************************************************************)
LEMMA QuietStep ==
  ASSUME ManagedTypeOK, NEW p \in Procs, NEW o,
         \/ Connect(p, o) \/ ObserveDeployment(p, o) \/ ObserveService(p, o)
         \/ CreateClaim(p, o) \/ ParseInputSecret(p, o) \/ GeneratePassword(p, o)
         \/ DeletePostgresPVC(p, o)
  PROVE  /\ UNCHANGED <<deployment, service, secret>>
         /\ pc[p] \notin {"createDeployment", "createService", "publishCreated",
                          "deleteService", "deleteDeployment"}
         /\ pc'[p] \notin {"deleteDeployment", "createService", "publishCreated"}
<1>1. /\ UNCHANGED <<deployment, service, secret>>
      /\ pc[p] \notin {"createDeployment", "createService", "publishCreated",
                       "deleteService", "deleteDeployment"}
  BY DEF Connect, ObserveDeployment, ObserveService, CreateClaim,
     ParseInputSecret, GeneratePassword, DeletePostgresPVC, clusterVars
<1>2. CASE Connect(p, o) \/ ObserveDeployment(p, o) \/ ObserveService(p, o)
  BY <1>1, <1>2, GotoStep DEF Connect, ObserveDeployment, ObserveService, Observed, Continue
<1>3. CASE \/ CreateClaim(p, o) \/ ParseInputSecret(p, o) \/ GeneratePassword(p, o)
           \/ DeletePostgresPVC(p, o)
  BY <1>1, <1>3, GotoStep
     DEF CreateClaim, ParseInputSecret, GeneratePassword, DeletePostgresPVC,
         DeleteOutcomes, Continue
<1> QED
  BY <1>2, <1>3

(***************************************************************************)
(* Create makes the Service after the Deployment, and Delete takes it away *)
(* first.                                                                  *)
(***************************************************************************)
LEMMA ServiceOwnStep ==
  ASSUME TypeOK, WorkInv, CreatedInv, ServiceInv, SoleWorker, "readFail" \notin Faults,
         NEW p \in Procs, NEW o \in Outcomes, OwnStep(p, o)
  PROVE  ServiceInv'
<1>1. ManagedTypeOK /\ ManagedInv /\ StepInv(p)
  BY DEF TypeOK, WorkInv
<1>2. /\ \A q \in Procs \ {p} : pc'[q] = pc[q]
      /\ Busy(p)
  BY <1>1, OwnStepFrame DEF OwnLabels, ObserveLabels, CreateLabels, DeleteLabels, Busy
<1>3. \A q \in Procs \ {p} : pc'[q] = "idle"
  BY <1>1, <1>2, OthersIdle
<1> USE DEF Continue
<1>4. CASE CreateDeployment(p, o)
  <2>1. ~deployment.exists /\ service' = service
    BY <1>1, <1>4 DEF CreateDeployment, StepInv
  <2> QED
    BY <1>1, <1>3, <1>4, <2>1, GotoStep DEF CreateDeployment, ServiceInv
<1>5. CASE CreateService(p, o)
  <2>1. deployment.exists /\ deployment' = deployment
    BY <1>5 DEF CreateService, CreatedInv
  <2>2. pc'[p] \in {"publishCreated", "updateStatus"}
    BY <1>1, <1>5, GotoStep DEF CreateService
  <2> QED
    BY <1>3, <2>1, <2>2 DEF ServiceInv
<1>6. CASE DeletePostgresService(p, o)
  <2>1. /\ deployment' = deployment
        /\ service' = IF Applied(o) THEN NoPort ELSE service
        /\ Goto(p, IF o = "ok" \/ Skipped(o) THEN "deleteDeployment" ELSE "updateStatus")
    BY <1>6 DEF DeletePostgresService
  <2>2. ~Skipped(o)
    BY DEF Skipped, Outcomes, CallOutcomes, ReadOutcomes, WriteOutcomes
  <2>3. /\ service' = service \/ service' = NoPort
        /\ \/ pc'[p] = "updateStatus"
           \/ pc'[p] = "deleteDeployment" /\ service' = NoPort
    <3>1. CASE o = "ok"
      BY <1>1, <2>1, <3>1, GotoStep DEF Applied
    <3>2. CASE o # "ok"
      BY <1>1, <2>1, <2>2, <3>2, GotoStep
    <3> QED
      BY <3>1, <3>2
  <2> QED
    BY <1>3, <2>1, <2>3 DEF ServiceInv
<1>7. CASE DeletePostgresDeployment(p, o)
  <2>1. /\ service = NoPort /\ service' = service
        /\ pc'[p] \in {"deleteClaim", "updateStatus"}
    BY <1>1, <1>7, GotoStep DEF DeletePostgresDeployment, ServiceInv
  <2> QED
    BY <1>3, <2>1 DEF ServiceInv
<1>8. CASE PublishObserved(p, o) \/ PublishCreated(p, o) \/ Update(p, o)
  <2>1. PICK endpoint \in BOOLEAN, pw \in Password \cup {NoPw},
             next \in {"addFinalizer", "updateStatus"} : Publish(p, o, endpoint, pw, next)
    BY <1>8 DEF PublishObserved, PublishCreated, Update, TypeOK, LocalTypeOK
  <2>2. /\ UNCHANGED <<service, deployment>>
        /\ pc'[p] \in {"addFinalizer", "updateStatus"}
    BY <1>1, <2>1, GotoStep DEF Publish
  <2> QED
    BY <1>3, <2>2 DEF ServiceInv
<1>9. CASE \/ Connect(p, o) \/ ObserveDeployment(p, o) \/ ObserveService(p, o)
           \/ CreateClaim(p, o) \/ ParseInputSecret(p, o) \/ GeneratePassword(p, o)
           \/ DeletePostgresPVC(p, o)
  BY <1>3, <1>9, QuietStep, <1>1 DEF ServiceInv
<1> QED
  BY <1>4, <1>5, <1>6, <1>7, <1>8, <1>9 DEF OwnStep

LEMMA ServiceInit == Init => ServiceInv
BY DEF Init, ManagedInit, ServiceInv

LEMMA ServiceNext ==
  ASSUME TypeOK, WorkInv, CredentialInv, ServiceInv, SoleWorker,
         "readFail" \notin Faults, "deployment" \notin Drift, [Next]_vars
  PROVE  ServiceInv'
<1>1. CASE \E p \in Procs, o \in Outcomes : OwnStep(p, o)
  BY <1>1, ServiceOwnStep DEF CredentialInv
<1>2. CASE \A p \in Procs, o \in Outcomes : ~OwnStep(p, o)
  BY <1>2, OtherStep DEF TurnsTo, ServiceInv
<1> QED
  BY <1>1, <1>2

-----------------------------------------------------------------------------
(* The defaults *)

(***************************************************************************)
(* Observe fills in the defaults before anything acts on them, and they    *)
(* stay in the copy; another process has a copy of its own.                *)
(***************************************************************************)
LEMMA DefaultsOwnStep ==
  ASSUME TypeOK, DefaultsInv, NEW p \in Procs, NEW o, OwnStep(p, o)
  PROVE  DefaultsInv'
<1> DEFINE Defaulted == {"observeService", "publishObserved", "addFinalizer"}
                          \cup CreateLabels
<1>1. ManagedTypeOK /\ port \in [Procs -> Port \cup {NoPort}]
  BY DEF TypeOK, LocalTypeOK
<1>2. /\ managed'[p].spec = managed[p].spec
      /\ \A q \in Procs \ {p} : pc'[q] = pc[q] /\ managed'[q] = managed[q]
  BY <1>1, OwnStepFrame
<1> USE DEF Continue
<1>3. CASE ObserveDeployment(p, o)
  <2>1. port' = [port EXCEPT ![p] = initializeDefaults(managed[p].spec).port]
    BY <1>3 DEF ObserveDeployment
  <2>2. /\ port'[p] = initializeDefaults(managed[p].spec).port
        /\ \A q \in Procs \ {p} : port'[q] = port[q]
    BY <1>1, <2>1
  <2> QED
    BY <1>2, <2>2 DEF DefaultsInv
<1>4. CASE \/ Connect(p, o) \/ DeletePostgresService(p, o)
           \/ DeletePostgresDeployment(p, o) \/ DeletePostgresPVC(p, o) \/ Update(p, o)
  <2>1. port' = port
    BY <1>4 DEF Connect, DeletePostgresService, DeletePostgresDeployment,
       DeletePostgresPVC, Update, Publish, localVars
  <2>2. pc'[p] \notin Defaulted
    <3>1. CASE Connect(p, o) \/ Update(p, o)
      BY <1>1, <3>1, GotoStep DEF Connect, Update, Publish, CreateLabels
    <3>2. CASE \/ DeletePostgresService(p, o) \/ DeletePostgresDeployment(p, o)
               \/ DeletePostgresPVC(p, o)
      BY <1>1, <3>2, GotoStep
         DEF DeletePostgresService, DeletePostgresDeployment, DeletePostgresPVC,
             DeleteOutcomes, CreateLabels
    <3> QED
      BY <1>4, <3>1, <3>2
  <2> QED
    BY <1>2, <2>1, <2>2 DEF DefaultsInv
<1>5. CASE \/ ObserveService(p, o) \/ PublishObserved(p, o) \/ PublishCreated(p, o)
           \/ CreateClaim(p, o) \/ ParseInputSecret(p, o) \/ GeneratePassword(p, o)
           \/ CreateDeployment(p, o) \/ CreateService(p, o)
  <2>1. port' = port
    BY <1>5 DEF ObserveService, PublishObserved, PublishCreated, Publish, CreateClaim,
       ParseInputSecret, GeneratePassword, CreateDeployment, CreateService, localVars
  <2>2. pc[p] \in Defaulted
    BY <1>5 DEF ObserveService, PublishObserved, PublishCreated, CreateClaim,
       ParseInputSecret, GeneratePassword, CreateDeployment, CreateService, CreateLabels
  <2> QED
    BY <1>2, <2>1, <2>2 DEF DefaultsInv
<1> QED
  BY <1>3, <1>4, <1>5 DEF OwnStep

LEMMA DefaultsInit == Init => DefaultsInv
BY DEF Init, ManagedInit, DefaultsInv, CreateLabels

LEMMA DefaultsNext ==
  ASSUME TypeOK, DefaultsInv, "deployment" \notin Drift, [Next]_vars
  PROVE  DefaultsInv'
<1>1. CASE \E p \in Procs, o \in Outcomes : OwnStep(p, o)
  BY <1>1, DefaultsOwnStep
<1>2. CASE \A p \in Procs, o \in Outcomes : ~OwnStep(p, o)
  BY <1>2, OtherStep DEF TurnsTo, Kept, DefaultsInv, CreateLabels
<1> QED
  BY <1>1, <1>2

-----------------------------------------------------------------------------
(* The published port *)

(***************************************************************************)
(* The Service stays or goes, the secret stays or loses what it holds, and *)
(* nobody enters the steps between the Service and its publication.        *)
(***************************************************************************)
LEMMA PortFrame ==
  ASSUME ClusterTypeOK, SecretInv, PortInv,
         service' = service \/ service' = NoPort,
         \/ secret' = secret \/ secret' = NoSecret
         \/ secret' = [secret EXCEPT !.stale = secret.exists],
         \A q \in Procs :
            \/ pc'[q] \notin {"createService", "publishCreated"}
            \/ pc'[q] = pc[q] /\ port'[q] = port[q]
  PROVE  PortInv'
<1>1. /\ secret'.pw = NoPw \/ secret'.pw = secret.pw
      /\ secret'.pw = NoPw \/ secret'.stale \/ ~secret.stale
      /\ secret'.port # NoPort => secret'.pw # NoPw /\ secret'.port = secret.port
      /\ secret'.port # NoPort /\ ~secret'.stale => ~secret.stale
  <2>1. CASE secret' = secret
    BY <2>1 DEF PortInv
  <2>2. CASE secret' = NoSecret
    BY <2>2 DEF NoSecret
  <2>3. CASE secret' = [secret EXCEPT !.stale = secret.exists]
    <3>1. secret' = [exists |-> secret.exists, stale |-> secret.exists,
                     endpoint |-> secret.endpoint, pw |-> secret.pw,
                     port |-> secret.port]
      BY <2>3 DEF ClusterTypeOK
    <3> QED
      BY <3>1 DEF SecretInv, PortInv
  <2> QED
    BY <2>1, <2>2, <2>3
<1>2. \A q \in Procs : pc'[q] \in {"createService", "publishCreated"} =>
         secret'.pw = NoPw \/ secret'.stale
  BY <1>1 DEF PortInv
<1>3. PublishedPortIsServed'
  BY <1>1 DEF PortInv, PublishedPortIsServed
<1> QED
  BY <1>1, <1>2, <1>3 DEF PortInv

LEMMA SmallModulo ==
  ASSUME NEW n \in Nat, NEW m \in Nat, n < m
  PROVE  n % m = n
OBVIOUS

(***************************************************************************)
(* A port that fits is the one the Service gets.                           *)
(***************************************************************************)
LEMMA PortKept ==
  ASSUME PortsFit, NEW spec \in Specs, NEW n, n = initializeDefaults(spec).port
  PROVE  IntValue(n) = n /\ MakeDefaultPostgresService(n) = n
<1>1. n \in Port
  BY DefaultsType
<1>2. n \in Nat /\ IntValue(n) = n
  BY <1>1, PostgresAssumption DEF IntValue
<1>3. n < Modulus
  BY DEF PortsFit
<1>4. Modulus \in Nat
  BY PostgresAssumption
<1> QED
  BY <1>2, <1>3, <1>4, SmallModulo DEF MakeDefaultPostgresService

(***************************************************************************)
(* The steps of Create and Delete, and the publications.                   *)
(***************************************************************************)
LEMMA PortOwnStep ==
  ASSUME TypeOK, SpecInv, WorkInv, CredentialInv, ServiceInv, DefaultsInv, PortInv,
         SoleWorker, PortsFit, NEW p \in Procs, NEW o \in Outcomes, OwnStep(p, o)
  PROVE  PortInv'
<1>1. /\ ManagedTypeOK /\ ClusterTypeOK /\ SecretInv /\ CreatedInv
      /\ ManagedInv /\ CopyInv(p) /\ StepInv(p)
  BY DEF TypeOK, WorkInv, ManagedInv, CredentialInv
<1>2. /\ managed'[p].spec = managed[p].spec
      /\ \A q \in Procs \ {p} : pc'[q] = pc[q]
      /\ Busy(p) /\ Engaged(p)
  BY <1>1, OwnStepFrame
     DEF OwnLabels, ObserveLabels, CreateLabels, DeleteLabels, Busy, Engaged
<1>3. \A q \in Procs \ {p} : pc'[q] = "idle"
  BY <1>1, <1>2, OthersIdle
<1> USE DEF Continue
<1>4. CASE CreateDeployment(p, o)
  <2>1. pc[p] = "createDeployment" /\ service' = service /\ secret' = secret
    BY <1>4 DEF CreateDeployment
  <2>2. ~deployment.exists /\ ~managed[p].deleting
    BY <1>1, <2>1 DEF StepInv, CreateLabels
  <2>3. service = NoPort /\ (secret.pw = NoPw \/ secret.stale)
    BY <1>1, <1>2, <2>2 DEF ServiceInv, SecretInv
  <2>4. pc'[p] \in {"createService", "updateStatus"}
    BY <1>1, <1>4, GotoStep DEF CreateDeployment
  <2> QED
    BY <1>3, <2>1, <2>3, <2>4 DEF PortInv, PublishedPortIsServed
<1>5. CASE CreateService(p, o)
  <2> DEFINE serves == MakeDefaultPostgresService(port[p])
  <2>1. /\ pc[p] = "createService" /\ service = NoPort
        /\ UNCHANGED <<deployment, secret, port>>
    BY <1>5 DEF CreateService, ServiceInv, localVars
  <2>2. deployment.exists /\ (secret.pw = NoPw \/ secret.stale)
    BY <1>1, <2>1 DEF CreatedInv, PortInv
  <2>3. service' = NoPort \/ service' = serves
    BY <1>5, <2>1 DEF CreateService
  <2> HIDE DEF serves
  <2>4. pc'[p] \in {"publishCreated", "updateStatus"}
    BY <1>1, <1>5, GotoStep DEF CreateService
  <2>5. PublishedPortIsServed'
    BY <2>1, <2>2 DEF PortInv, PublishedPortIsServed
  <2> QED
    BY <1>3, <2>1, <2>2, <2>3, <2>4, <2>5 DEF PortInv, serves
<1>6. CASE PublishObserved(p, o) \/ PublishCreated(p, o) \/ Update(p, o)
  <2>1. PICK endpoint \in BOOLEAN, pw \in Password \cup {NoPw},
             next \in {"addFinalizer", "updateStatus"} :
          /\ Publish(p, o, endpoint, pw, next)
          /\ pw # NoPw => pc[p] = "publishCreated"
    BY <1>6 DEF PublishObserved, PublishCreated, Update, TypeOK, LocalTypeOK
  <2>2. /\ UNCHANGED <<service, deployment>>
        /\ pc'[p] \in {"addFinalizer", "updateStatus"}
    BY <1>1, <2>1, GotoStep DEF Publish
  <2>3. CASE secret' = secret
    BY <1>3, <2>2, <2>3 DEF PortInv, PublishedPortIsServed
  <2>4. CASE secret' # secret
    <3> DEFINE published == IntValue(port[p])
               gone == managed[p].version = "gone"
    <3>1. secret.exists => secret.stale = gone
      BY <2>1, <2>4 DEF Publish
    <3>2. secret' = [exists |-> TRUE, stale |-> gone,
                     endpoint |-> endpoint \/ secret.endpoint,
                     pw |-> IF pw = NoPw THEN secret.pw ELSE pw,
                     port |-> IF pw = NoPw THEN secret.port ELSE published]
      BY <2>1, <2>4 DEF Publish
    <3>3. pw # NoPw /\ service # NoPort => published = service
      <4>1. managed[p].spec \in Specs
        BY <1>2 DEF SpecInv
      <4>2. pw # NoPw => port[p] = initializeDefaults(managed[p].spec).port
        BY <2>1 DEF DefaultsInv, CreateLabels
      <4> QED
        BY <2>1, <4>1, <4>2, PortKept DEF PortInv
    <3> HIDE DEF published, gone
    <3>4. secret'.port # NoPort => secret'.pw # NoPw
      BY <3>2 DEF PortInv
    <3>5. PublishedPortIsServed'
      <4>1. CASE pw = NoPw
        <5>1. secret'.port = secret.port /\ secret'.stale = gone
          BY <3>2, <4>1
        <5>2. secret.port # NoPort => secret.exists
          BY <1>1 DEF PortInv, SecretInv
        <5> QED
          BY <2>2, <3>1, <5>1, <5>2 DEF PortInv, PublishedPortIsServed
      <4>2. CASE pw # NoPw
        BY <2>2, <3>2, <3>3, <4>2 DEF PublishedPortIsServed
      <4> QED
        BY <4>1, <4>2
    <3> QED
      BY <1>3, <2>2, <3>4, <3>5 DEF PortInv
  <2> QED
    BY <2>3, <2>4
<1>7. CASE DeletePostgresService(p, o) \/ DeletePostgresDeployment(p, o)
  <2>1. /\ secret' = secret /\ (service' = service \/ service' = NoPort)
        /\ pc'[p] \in {"deleteDeployment", "deleteClaim", "updateStatus"}
    BY <1>1, <1>7, GotoStep DEF DeletePostgresService, DeletePostgresDeployment
  <2> QED
    BY <1>3, <2>1 DEF PortInv, PublishedPortIsServed
<1>8. CASE \/ Connect(p, o) \/ ObserveDeployment(p, o) \/ ObserveService(p, o)
           \/ CreateClaim(p, o) \/ ParseInputSecret(p, o) \/ GeneratePassword(p, o)
           \/ DeletePostgresPVC(p, o)
  BY <1>1, <1>3, <1>8, QuietStep DEF PortInv, PublishedPortIsServed
<1> QED
  BY <1>4, <1>5, <1>6, <1>7, <1>8 DEF OwnStep

LEMMA PortInit == Init => PortInv
BY DEF Init, ManagedInit, PortInv, PublishedPortIsServed, NoSecret

LEMMA PortNext ==
  ASSUME TypeOK, SpecInv, WorkInv, CredentialInv, ServiceInv, DefaultsInv, PortInv,
         SoleWorker, "deployment" \notin Drift, PortsFit, [Next]_vars
  PROVE  PortInv'
<1>1. CASE \E p \in Procs, o \in Outcomes : OwnStep(p, o)
  BY <1>1, PortOwnStep
<1>2. CASE \A p \in Procs, o \in Outcomes : ~OwnStep(p, o)
  <2>1. ClusterTypeOK /\ SecretInv
    BY DEF TypeOK, CredentialInv
  <2> QED
    BY <1>2, <2>1, OtherStep, PortFrame DEF TurnsTo, Kept
<1> QED
  BY <1>1, <1>2

(***************************************************************************)
(* While reads do not fail, a sole worker publishes the port the Service   *)
(* serves, whatever writes fail or lose their reply, whenever the process  *)
(* stops or loses the lease, and whatever port the next resource of the    *)
(* name asks for, as long as no port is cut to an int32 (postgres.go:187,  *)
(* 192; client postgres.go:111, 288).                                      *)
(***************************************************************************)
THEOREM PublishedPortCorrect ==
  ASSUME SoleWorker, "readFail" \notin Faults, "deployment" \notin Drift, PortsFit
  PROVE  Spec => []PublishedPortIsServed
<1> DEFINE Inv == /\ TypeOK /\ SpecInv /\ PasswordInv /\ WorkInv
                  /\ CredentialInv /\ ServiceInv /\ DefaultsInv /\ PortInv
<1>1. Init => Inv
  BY TypeInit, WorkInit, CredentialInit, ServiceInit, DefaultsInit, PortInit
<1>2. Inv /\ [Next]_vars => Inv'
  BY TypeNext, WorkNext, CredentialNext, ServiceNext, DefaultsNext, PortNext
<1>3. Inv => PublishedPortIsServed
  BY DEF PortInv
<1> QED
  BY <1>1, <1>2, <1>3, PTL DEF Spec

=============================================================================
