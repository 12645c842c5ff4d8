--------------------------- MODULE PostgresProofs ---------------------------
(***************************************************************************)
(* Proofs about Postgres, for every set of processes, specs and passwords, *)
(* every set of faults and every kind of drift the constants allow.        *)
(***************************************************************************)
EXTENDS PostgresInvariant, ManagedProofs

USE PostgresAssumption

-----------------------------------------------------------------------------
(* The steps of a reconcile that touch the copy at most in its ready field *)

OwnStep(p, o) ==
  \/ Connect(p, o) \/ ObserveDeployment(p, o) \/ ObserveService(p, o)
  \/ PublishObserved(p, o) \/ PublishCreated(p, o) \/ Update(p, o)
  \/ CreateClaim(p, o) \/ ParseInputSecret(p, o) \/ GeneratePassword(p, o)
  \/ CreateDeployment(p, o) \/ CreateService(p, o)
  \/ DeletePostgresService(p, o) \/ DeletePostgresDeployment(p, o)
  \/ DeletePostgresPVC(p, o)

OwnLabels == ObserveLabels \cup CreateLabels \cup DeleteLabels
               \cup {"publishObserved", "publishUpdated"}

(***************************************************************************)
(* Where such a step starts and where it can lead.                         *)
(***************************************************************************)
LEMMA OwnStepFrame ==
  ASSUME ManagedTypeOK, NEW p \in Procs, NEW o, OwnStep(p, o)
  PROVE  /\ ManagedTypeOK'
         /\ pc[p] \in OwnLabels
         /\ pc'[p] \in Labels \ {"idle"}
         /\ pc'[p] = "finalize" => managed[p].deleting
         /\ resource' = resource /\ leader' = leader
         /\ managed'[p].deleting = managed[p].deleting
         /\ managed'[p].finalizer = managed[p].finalizer
         /\ managed'[p].spec = managed[p].spec
         /\ managed'[p].version = managed[p].version
         /\ \A q \in Procs \ {p} : pc'[q] = pc[q] /\ managed'[q] = managed[q]
<1> USE DEF Labels, OwnLabels, ObserveLabels, CreateLabels, DeleteLabels, Continue
<1>1. CASE ObserveService(p, o)
  <2>1. /\ resource' = resource /\ leader' = leader
        /\ pc[p] = "observeService"
    BY <1>1 DEF ObserveService
  <2>2. PICK l \in {"updateStatus", "publishObserved", "finalize", "deleteService"} :
          Goto(p, l) /\ (l = "finalize" => managed[p].deleting)
    BY <1>1 DEF ObserveService, Observed
  <2>3. managed' = [managed EXCEPT ![p].ready = TRUE] \/ managed' = managed
    BY <1>1 DEF ObserveService
  <2>4. managed[p] \in Copy
    BY DEF ManagedTypeOK
  <2>5. CASE managed' = [managed EXCEPT ![p].ready = TRUE]
    <3> DEFINE copy == [managed[p] EXCEPT !.ready = TRUE]
    <3>1. copy = [deleting |-> managed[p].deleting, finalizer |-> managed[p].finalizer,
                  ready |-> TRUE, spec |-> managed[p].spec, version |-> managed[p].version]
      BY <2>4, ReadyCopyFields
    <3>2. managed' = [managed EXCEPT ![p] = copy]
      BY <2>5
    <3> HIDE DEF copy
    <3>3. copy \in Copy
      BY <2>4, <3>1, CopyFields DEF Copy
    <3>4. managed'[p] = copy /\ \A q \in Procs \ {p} : managed'[q] = managed[q]
      BY <3>2 DEF ManagedTypeOK
    <3>5. ManagedTypeOK'
      BY <2>1, <2>2, <3>2, <3>3, GotoStep DEF ManagedTypeOK
    <3> QED
      BY <2>1, <2>2, <3>1, <3>4, <3>5, GotoStep
  <2>6. CASE managed' = managed
    BY <2>1, <2>2, <2>6, GotoStep DEF ManagedTypeOK
  <2> QED
    BY <2>3, <2>5, <2>6
<1>2. CASE ~ObserveService(p, o)
  <2>1. UNCHANGED <<resource, managed, leader>>
    BY <1>2 DEF OwnStep, Connect, ObserveDeployment, PublishObserved, PublishCreated,
       Update, Publish, CreateClaim, ParseInputSecret, GeneratePassword,
       CreateDeployment, CreateService, DeletePostgresService,
       DeletePostgresDeployment, DeletePostgresPVC
  <2>2. /\ pc[p] \in OwnLabels
        /\ \E l \in Labels \ {"idle"} :
             Goto(p, l) /\ (l = "finalize" => managed[p].deleting)
    <3>1. CASE Connect(p, o) \/ ObserveDeployment(p, o)
      BY <3>1 DEF Connect, ObserveDeployment, Observed
    <3>2. CASE PublishObserved(p, o) \/ PublishCreated(p, o) \/ Update(p, o)
      BY <3>2 DEF PublishObserved, PublishCreated, Update, Publish
    <3>3. CASE CreateClaim(p, o) \/ ParseInputSecret(p, o) \/ GeneratePassword(p, o)
      BY <3>3 DEF CreateClaim, ParseInputSecret, GeneratePassword
    <3>4. CASE CreateDeployment(p, o) \/ CreateService(p, o)
      BY <3>4 DEF CreateDeployment, CreateService
    <3>5. CASE \/ DeletePostgresService(p, o) \/ DeletePostgresDeployment(p, o)
               \/ DeletePostgresPVC(p, o)
      BY <3>5 DEF DeletePostgresService, DeletePostgresDeployment, DeletePostgresPVC,
         DeleteOutcomes
    <3> QED
      BY <1>2, <3>1, <3>2, <3>3, <3>4, <3>5 DEF OwnStep
  <2> QED
    BY <2>1, <2>2, GotoStep DEF ManagedTypeOK
<1> QED
  BY <1>1, <1>2

-----------------------------------------------------------------------------
(* Type correctness *)

LEMMA TypeInit == Init => TypeOK /\ SpecInv /\ PasswordInv
<1> SUFFICES ASSUME Init PROVE TypeOK /\ SpecInv /\ PasswordInv
  OBVIOUS
<1>1. ManagedTypeOK
  BY NoCopyType DEF Init, ManagedInit, ManagedTypeOK
<1>2. pc \in [Procs -> Labels]
  BY DEF Init, ManagedInit, Labels
<1>3. ClusterTypeOK /\ LocalTypeOK
  BY DEF Init, ClusterTypeOK, LocalTypeOK, NoDeployment, NoSecret
<1>4. SpecInv
  BY DEF Init, ManagedInit, SpecInv, Busy, NoResource
<1>5. PasswordInv
  BY DEF Init, ManagedInit, PasswordInv, NeverPasswordless, NoDeployment
<1> QED
  BY <1>1, <1>2, <1>3, <1>4, <1>5 DEF TypeOK

LEMMA DefaultsType ==
  ASSUME NEW spec \in Specs
  PROVE  initializeDefaults(spec).port \in Port
BY PostgresAssumption DEF initializeDefaults, PostgresSpec

LEMMA PublishType ==
  ASSUME ClusterTypeOK, LocalTypeOK, NEW p \in Procs, NEW o, NEW endpoint \in BOOLEAN,
         NEW pw \in Password \cup {NoPw}, NEW next, Publish(p, o, endpoint, pw, next)
  PROVE  ClusterTypeOK'
<1>1. IntValue(port[p]) \in Port \cup {0}
  BY DEF LocalTypeOK, IntValue
<1> QED
  BY <1>1 DEF Publish, ClusterTypeOK, localVars

(***************************************************************************)
(* The own steps of the controller keep the cluster's objects well typed   *)
(* and no Deployment without a password.                                   *)
(***************************************************************************)
LEMMA OwnType ==
  ASSUME TypeOK, SpecInv, PasswordInv, NEW p \in Procs, NEW o, OwnStep(p, o)
  PROVE  ClusterTypeOK' /\ LocalTypeOK' /\ PasswordInv'
<1>1. ClusterTypeOK /\ LocalTypeOK /\ ManagedTypeOK
  BY DEF TypeOK
<1>2. \A q \in Procs \ {p} : pc'[q] = pc[q]
  BY <1>1, OwnStepFrame
<1> USE DEF Continue, clusterVars, localVars
<1>3. CASE UNCHANGED <<clusterVars, password>> /\ pc'[p] # "createDeployment"
           /\ observed' \in [Procs -> {"unknown", "absent", "progressing", "ready"}]
           /\ port' \in [Procs -> Port \cup {NoPort}]
  BY <1>1, <1>2, <1>3
     DEF ClusterTypeOK, LocalTypeOK, PasswordInv, NeverPasswordless
<1>4. CASE Connect(p, o)
  BY <1>1, <1>3, <1>4, GotoStep DEF Connect, LocalTypeOK
<1>5. CASE ObserveDeployment(p, o)
  <2>1. initializeDefaults(managed[p].spec).port \in Port
    BY <1>5, DefaultsType DEF ObserveDeployment, SpecInv, Busy
  <2>2. port' \in [Procs -> Port \cup {NoPort}]
    BY <1>1, <1>5, <2>1 DEF ObserveDeployment, LocalTypeOK
  <2> QED
    BY <1>1, <1>3, <1>5, <2>2, GotoStep DEF ObserveDeployment, Observed, LocalTypeOK
<1>6. CASE ObserveService(p, o)
  BY <1>1, <1>3, <1>6, GotoStep DEF ObserveService, Observed, LocalTypeOK
<1>7. CASE PublishObserved(p, o) \/ PublishCreated(p, o) \/ Update(p, o)
  <2>1. PICK endpoint \in BOOLEAN, pw \in Password \cup {NoPw},
             next \in {"addFinalizer", "updateStatus"} : Publish(p, o, endpoint, pw, next)
    BY <1>1, <1>7 DEF PublishObserved, PublishCreated, Update, LocalTypeOK
  <2>2. ClusterTypeOK'
    BY <1>1, <2>1, PublishType
  <2>3. pc'[p] # "createDeployment" /\ UNCHANGED <<deployment, localVars>>
    BY <1>1, <2>1, GotoStep DEF Publish
  <2> QED
    BY <1>1, <1>2, <2>2, <2>3 DEF LocalTypeOK, PasswordInv, NeverPasswordless
<1>8. CASE CreateClaim(p, o)
  <2>1. pc'[p] # "createDeployment" /\ UNCHANGED <<deployment, service, secret, localVars>>
    BY <1>1, <1>8, GotoStep DEF CreateClaim
  <2>2. claim' \in {"absent", "bound", "terminating"}
    BY <1>1, <1>8 DEF CreateClaim, ClusterTypeOK
  <2> QED
    BY <1>1, <1>2, <2>1, <2>2
       DEF ClusterTypeOK, LocalTypeOK, PasswordInv, NeverPasswordless
<1>9. CASE ParseInputSecret(p, o)
  <2> DEFINE given == IF o = "ok" THEN managed[p].spec.password ELSE NoPw
  <2>1. given \in Password \cup {NoPw}
    <3>1. managed[p].spec \in Specs
      BY <1>9 DEF ParseInputSecret, SpecInv, Busy
    <3> QED
      BY <3>1 DEF Password, PostgresSpec
  <2>2. /\ password' = [password EXCEPT ![p] = given]
        /\ Goto(p, IF given = NoPw THEN "generatePassword" ELSE "createDeployment")
        /\ UNCHANGED <<clusterVars, observed, port>>
    BY <1>9 DEF ParseInputSecret
  <2> HIDE DEF given
  <2>3. pc'[p] = "createDeployment" => password'[p] # NoPw
    BY <1>1, <2>2, GotoStep DEF LocalTypeOK
  <2> QED
    BY <1>1, <1>2, <2>1, <2>2, <2>3
       DEF ClusterTypeOK, LocalTypeOK, PasswordInv, NeverPasswordless
<1>10. CASE GeneratePassword(p, o)
  <2>1. UNCHANGED <<clusterVars, observed, port>>
    BY <1>10 DEF GeneratePassword
  <2>2. CASE o = "ok"
    <3>1. PICK pw \in Generated : password' = [password EXCEPT ![p] = pw]
      BY <1>10, <2>2 DEF GeneratePassword
    <3>2. pw \in Password /\ pw # NoPw
      BY DEF Password
    <3> QED
      BY <1>1, <1>2, <2>1, <3>1, <3>2
         DEF ClusterTypeOK, LocalTypeOK, PasswordInv, NeverPasswordless
  <2>3. CASE o # "ok"
    BY <1>1, <1>3, <1>10, <2>3, GotoStep DEF GeneratePassword, LocalTypeOK
  <2> QED
    BY <2>2, <2>3
<1>11. CASE CreateDeployment(p, o)
  <2>1. pc[p] = "createDeployment" /\ pc'[p] # "createDeployment"
        /\ UNCHANGED <<service, claim, secret, localVars>>
    BY <1>1, <1>11, GotoStep DEF CreateDeployment
  <2>2. \/ deployment' = deployment
        \/ deployment' = [exists |-> TRUE, available |-> FALSE, pw |-> password[p]]
    BY <1>11 DEF CreateDeployment, MakePostgresDeployment
  <2>3. password[p] \in Password
    BY <1>1, <2>1 DEF LocalTypeOK, PasswordInv
  <2>4. deployment' \in [exists : BOOLEAN, available : BOOLEAN,
                        pw : Password \cup {NoPw}]
    <3>1. [exists |-> TRUE, available |-> FALSE, pw |-> password[p]] \in
            [exists : BOOLEAN, available : BOOLEAN, pw : Password \cup {NoPw}]
      BY <2>3
    <3> QED
      BY <1>1, <2>2, <3>1 DEF ClusterTypeOK
  <2>5. NeverPasswordless'
    BY <2>2, <2>3 DEF PasswordInv, NeverPasswordless
  <2> QED
    BY <1>1, <1>2, <2>1, <2>4, <2>5 DEF ClusterTypeOK, LocalTypeOK, PasswordInv
<1>12. CASE CreateService(p, o) \/ DeletePostgresService(p, o) \/ DeletePostgresPVC(p, o)
  <2>1. /\ pc'[p] # "createDeployment"
        /\ UNCHANGED <<deployment, secret, localVars>>
    BY <1>1, <1>12, GotoStep
       DEF CreateService, DeletePostgresService, DeletePostgresPVC, DeleteOutcomes
  <2>2. claim' \in {"absent", "bound", "terminating"}
    BY <1>1, <1>12
       DEF CreateService, DeletePostgresService, DeletePostgresPVC, ClusterTypeOK
  <2>3. service' \in Servable \cup {NoPort}
    BY <1>1, <1>12
       DEF CreateService, DeletePostgresService, DeletePostgresPVC, ClusterTypeOK
  <2> QED
    BY <1>1, <1>2, <2>1, <2>2, <2>3
       DEF ClusterTypeOK, LocalTypeOK, PasswordInv, NeverPasswordless
<1>13. CASE DeletePostgresDeployment(p, o)
  <2>1. /\ pc'[p] # "createDeployment"
        /\ UNCHANGED <<service, claim, secret, localVars>>
    BY <1>1, <1>13, GotoStep DEF DeletePostgresDeployment
  <2>2. deployment' = NoDeployment \/ deployment' = deployment
    BY <1>13 DEF DeletePostgresDeployment
  <2>3. deployment' \in [exists : BOOLEAN, available : BOOLEAN,
                        pw : Password \cup {NoPw}]
    <3>1. NoDeployment \in
            [exists : BOOLEAN, available : BOOLEAN, pw : Password \cup {NoPw}]
      BY DEF NoDeployment
    <3> QED
      BY <1>1, <2>2, <3>1 DEF ClusterTypeOK
  <2>4. NeverPasswordless'
    BY <2>2 DEF PasswordInv, NeverPasswordless, NoDeployment
  <2> QED
    BY <1>1, <1>2, <2>1, <2>3, <2>4 DEF ClusterTypeOK, LocalTypeOK, PasswordInv
<1> QED
  BY <1>4, <1>5, <1>6, <1>7, <1>8, <1>9, <1>10, <1>11, <1>12, <1>13 DEF OwnStep


(***************************************************************************)
(* What happens to the objects without a reconcile changes no password.    *)
(***************************************************************************)
LEMMA KubernetesStep ==
  ASSUME ClusterTypeOK, BecomeAvailable \/ ReleaseClaim \/ CollectSecret \/ Interfere
  PROVE  /\ ClusterTypeOK'
         /\ UNCHANGED <<managedVars, localVars>>
         /\ deployment'.exists => deployment.exists /\ deployment'.pw = deployment.pw
         /\ "deployment" \notin Drift => deployment'.exists = deployment.exists
<1> DEFINE Typed(d) == d \in [exists : BOOLEAN, available : BOOLEAN,
                              pw : Password \cup {NoPw}]
<1>1. ASSUME NEW b \in BOOLEAN
      PROVE  [deployment EXCEPT !.available = b] =
               [exists |-> deployment.exists, available |-> b, pw |-> deployment.pw]
  BY DEF ClusterTypeOK
<1>2. CASE BecomeAvailable
  <2>1. deployment' = [deployment EXCEPT !.available = TRUE]
        /\ UNCHANGED <<managedVars, service, claim, secret, localVars>>
    BY <1>2 DEF BecomeAvailable
  <2>2. deployment' =
          [exists |-> deployment.exists, available |-> TRUE, pw |-> deployment.pw]
    BY <1>1, <2>1
  <2> QED
    BY <2>1, <2>2 DEF ClusterTypeOK
<1>3. CASE ReleaseClaim
  BY <1>3 DEF ReleaseClaim, ClusterTypeOK
<1>4. CASE CollectSecret
  BY <1>4 DEF CollectSecret, NoSecret, ClusterTypeOK
<1>5. CASE Interfere
  <2>1. UNCHANGED <<managedVars, claim, secret, localVars>>
    BY <1>5 DEF Interfere
  <2>2. \/ deployment' = [deployment EXCEPT !.available = FALSE] /\ service' = service
        \/ /\ deployment' = NoDeployment /\ service' = service
           /\ "deployment" \in Drift
        \/ deployment' = deployment /\ service' = NoPort
    BY <1>5 DEF Interfere
  <2>3. CASE deployment' = [deployment EXCEPT !.available = FALSE] /\ service' = service
    <3>1. deployment' =
            [exists |-> deployment.exists, available |-> FALSE, pw |-> deployment.pw]
      BY <1>1, <2>3
    <3> QED
      BY <2>1, <2>3, <3>1 DEF ClusterTypeOK
  <2>4. CASE deployment' = NoDeployment /\ service' = service /\ "deployment" \in Drift
    BY <2>1, <2>4 DEF ClusterTypeOK, NoDeployment
  <2>5. CASE deployment' = deployment /\ service' = NoPort
    BY <2>1, <2>5 DEF ClusterTypeOK
  <2> QED
    BY <2>2, <2>3, <2>4, <2>5
<1> QED
  BY <1>2, <1>3, <1>4, <1>5

(***************************************************************************)
(* Every step keeps the types, and the invariants that need no SoleWorker. *)
(***************************************************************************)
LEMMA TypeNext ==
  ASSUME TypeOK, SpecInv, PasswordInv, [Next]_vars
  PROVE  TypeOK' /\ SpecInv' /\ PasswordInv'
<1>1. ManagedTypeOK /\ pc \in [Procs -> Labels] /\ ClusterTypeOK /\ LocalTypeOK
  BY DEF TypeOK
<1>2. "idle" \in Labels /\ "updateStatus" \in Labels /\ "connect" \in Labels
      /\ "finalize" \in Labels
  BY DEF Labels
<1>3. ASSUME NEW p \in Procs, NEW o \in Outcomes, OwnStep(p, o)
      PROVE  TypeOK' /\ SpecInv' /\ PasswordInv'
  <2>1. ManagedTypeOK' /\ pc' \in [Procs -> Labels]
    BY <1>1, <1>3, OwnStepFrame DEF ManagedTypeOK
  <2>2. SpecInv'
    BY <1>1, <1>3, OwnStepFrame
       DEF SpecInv, Busy, OwnLabels, ObserveLabels, CreateLabels, DeleteLabels
  <2> QED
    BY <1>3, <2>1, <2>2, OwnType DEF TypeOK
<1>4. ASSUME NEW p \in Procs, NEW o \in Outcomes, Finalizer(p, o)
      PROVE  TypeOK' /\ SpecInv' /\ PasswordInv'
  <2>1. PICK next \in {"createClaim", "publishUpdated", "updateStatus"} :
          AddFinalizer(p, o, next)
    BY <1>4 DEF Finalizer
  <2>2. UNCHANGED <<clusterVars, localVars>>
    BY <1>4 DEF Finalizer
  <2>3. next \in Labels /\ next # "createDeployment"
    BY DEF Labels, CreateLabels
  <2>4. ManagedTypeOK' /\ pc' \in [Procs -> Labels]
    BY <1>1, <1>2, <2>1, <2>3, AddFinalizerStep DEF ManagedTypeOK
  <2>5. SpecInv'
    BY <1>1, <2>1, ManagedSpec
  <2>6. PasswordInv'
    BY <1>1, <2>1, <2>2, <2>3, AddFinalizerStep
       DEF PasswordInv, NeverPasswordless, clusterVars, localVars
  <2> QED
    BY <1>1, <2>2, <2>4, <2>5, <2>6
       DEF TypeOK, ClusterTypeOK, LocalTypeOK, clusterVars, localVars
<1>5. ASSUME NEW p \in Procs, Forget(p), UNCHANGED deployment, ClusterTypeOK',
             ManagedTypeOK', pc'[p] \in {"idle", "updateStatus"},
             \A q \in Procs \ {p} : pc'[q] = pc[q],
             SpecInv'
      PROVE  TypeOK' /\ SpecInv' /\ PasswordInv'
  <2>1. LocalTypeOK'
    BY <1>1, <1>5 DEF Forget, LocalTypeOK
  <2>2. pc' \in [Procs -> Labels]
    BY <1>1, <1>2, <1>5 DEF ManagedTypeOK
  <2>3. PasswordInv'
    BY <1>1, <1>5 DEF PasswordInv, NeverPasswordless, Forget, LocalTypeOK
  <2> QED
    BY <1>5, <2>1, <2>2, <2>3 DEF TypeOK
<1>6. ASSUME NEW p \in Procs, NEW o \in Outcomes, Finalize(p, o)
      PROVE  TypeOK' /\ SpecInv' /\ PasswordInv'
  <2>1. /\ RemoveFinalizer(p, o) /\ Disown /\ Forget(p)
        /\ UNCHANGED <<deployment, service, claim>>
    BY <1>6 DEF Finalize
  <2>2. ClusterTypeOK'
    BY <1>1, <2>1 DEF Disown, ClusterTypeOK
  <2>3. SpecInv'
    BY <1>1, <2>1, ManagedSpec
  <2> QED
    BY <1>1, <1>5, <2>1, <2>2, <2>3, RemoveFinalizerStep
<1>7. ASSUME NEW p \in Procs, NEW o \in Outcomes, Report(p, o)
      PROVE  TypeOK' /\ SpecInv' /\ PasswordInv'
  <2>1. UpdateStatus(p, o) /\ Forget(p) /\ UNCHANGED clusterVars
    BY <1>7 DEF Report
  <2>2. ClusterTypeOK' /\ UNCHANGED deployment
    BY <1>1, <2>1 DEF clusterVars, ClusterTypeOK
  <2>3. SpecInv'
    BY <1>1, <2>1, ManagedSpec
  <2> QED
    BY <1>1, <1>5, <2>1, <2>2, <2>3, UpdateStatusStep
<1>8. ASSUME NEW p \in Procs, Exit(p)
      PROVE  TypeOK' /\ SpecInv' /\ PasswordInv'
  <2>1. Stop(p) /\ Forget(p) /\ UNCHANGED clusterVars
    BY <1>8 DEF Exit
  <2>2. ClusterTypeOK' /\ UNCHANGED deployment
    BY <1>1, <2>1 DEF clusterVars, ClusterTypeOK
  <2>3. SpecInv'
    BY <1>1, <2>1, ManagedSpec
  <2> QED
    BY <1>1, <1>5, <2>1, <2>2, <2>3, StopStep
<1>9. ASSUME NEW p \in Procs, Begin(p)
      PROVE  TypeOK' /\ SpecInv' /\ PasswordInv'
  <2>1. Start(p) /\ UNCHANGED <<clusterVars, localVars>>
    BY <1>9 DEF Begin
  <2>2. ManagedTypeOK' /\ pc' \in [Procs -> Labels]
    BY <1>1, <1>2, <2>1, StartStep DEF ManagedTypeOK
  <2>3. SpecInv'
    BY <1>1, <2>1, ManagedSpec
  <2>4. PasswordInv'
    BY <1>1, <2>1, StartStep DEF PasswordInv, NeverPasswordless, clusterVars, localVars
  <2> QED
    BY <1>1, <2>1, <2>2, <2>3, <2>4
       DEF TypeOK, ClusterTypeOK, LocalTypeOK, clusterVars, localVars
<1>10. ASSUME UNCHANGED <<pc, deployment, localVars>>, ManagedTypeOK', ClusterTypeOK',
              SpecInv'
       PROVE  TypeOK' /\ SpecInv' /\ PasswordInv'
  BY <1>1, <1>10 DEF TypeOK, LocalTypeOK, PasswordInv, NeverPasswordless, localVars
<1>11. ASSUME NEW p \in Procs, Elect(p), UNCHANGED <<clusterVars, localVars>>
       PROVE  TypeOK' /\ SpecInv' /\ PasswordInv'
  <2>1. SpecInv'
    BY <1>1, <1>11, ManagedSpec
  <2> QED
    BY <1>1, <1>10, <1>11, <2>1 DEF Elect, ManagedTypeOK, ClusterTypeOK, clusterVars
<1>12. CASE User
  <2>1. CASE UserCreate /\ UNCHANGED <<clusterVars, localVars>>
    <3>1. SpecInv'
      BY <1>1, <2>1, UserSpec
    <3> QED
      BY <1>1, <1>10, <2>1, <3>1, UserCreateStep DEF ClusterTypeOK, clusterVars
  <2>2. CASE UserDelete /\ Disown /\ UNCHANGED <<deployment, service, claim, localVars>>
    <3>1. SpecInv'
      BY <1>1, <2>2, UserSpec
    <3>2. ClusterTypeOK'
      BY <1>1, <2>2 DEF ClusterTypeOK, Disown
    <3> QED
      BY <1>1, <1>10, <2>2, <3>1, <3>2, UserDeleteStep
  <2> QED
    BY <1>12, <2>1, <2>2 DEF User
<1>13. ASSUME UNCHANGED <<managedVars, localVars>>, ClusterTypeOK',
              deployment'.exists => deployment.exists /\ deployment'.pw = deployment.pw
       PROVE  TypeOK' /\ SpecInv' /\ PasswordInv'
  BY <1>1, <1>13
     DEF TypeOK, ManagedTypeOK, LocalTypeOK, SpecInv, Busy, PasswordInv, NeverPasswordless,
         managedVars, localVars
<1>14. CASE BecomeAvailable \/ ReleaseClaim \/ CollectSecret \/ Interfere
  BY <1>1, <1>13, <1>14, KubernetesStep
<1>15. CASE UNCHANGED vars
  BY <1>1, <1>13, <1>15 DEF vars, clusterVars, ClusterTypeOK
<1> QED
  BY <1>3, <1>4, <1>6, <1>7, <1>8, <1>9, <1>11, <1>12, <1>14, <1>15
     DEF Next, Reconcile, OwnStep

(***************************************************************************)
(* The types hold in every behaviour, whatever processes run side by side, *)
(* whatever calls fail and whenever a process stops.                       *)
(***************************************************************************)
THEOREM TypeCorrect == Spec => []TypeOK
<1> DEFINE Inv == TypeOK /\ SpecInv /\ PasswordInv
<1>1. Init => Inv
  BY TypeInit
<1>2. Inv /\ [Next]_vars => Inv'
  BY TypeNext
<1> QED
  BY <1>1, <1>2, PTL DEF Spec

(***************************************************************************)
(* No Deployment is ever created without a password (postgres.go:176):     *)
(* this needs neither leader election nor a single replica.                *)
(***************************************************************************)
THEOREM PasswordAlwaysSet == Spec => []NeverPasswordless
<1> DEFINE Inv == TypeOK /\ SpecInv /\ PasswordInv
<1>1. Init => Inv
  BY TypeInit
<1>2. Inv /\ [Next]_vars => Inv'
  BY TypeNext
<1>3. Inv => NeverPasswordless
  BY DEF PasswordInv
<1> QED
  BY <1>1, <1>2, <1>3, PTL DEF Spec

-----------------------------------------------------------------------------
(* The inductive invariant *)

LEMMA IdleStep ==
  ASSUME NEW q, pc'[q] \in {"idle", "updateStatus"}
  PROVE  StepInv(q)'
BY DEF StepInv, ObserveLabels, CreateLabels, DeleteLabels

(***************************************************************************)
(* The steps of the environment only ever make a Deployment disappear, and *)
(* leave what a reconcile knows of its own copy.                           *)
(***************************************************************************)
LEMMA EnvironmentStep ==
  ASSUME UNCHANGED <<pc, observed>>,
         deployment'.exists => deployment.exists,
         NEW q,
         managed'[q].deleting = managed[q].deleting,
         managed'[q].finalizer = managed[q].finalizer,
         managed'[q].spec = managed[q].spec,
         StepInv(q)
  PROVE  StepInv(q)'
BY DEF StepInv

(***************************************************************************)
(* What p knows at its next step follows from what it knew at this one.    *)
(***************************************************************************)
LEMMA OwnStepInv ==
  ASSUME TypeOK, NEW p \in Procs, NEW o, OwnStep(p, o), StepInv(p), CopyInv(p)
  PROVE  StepInv(p)'
<1>1. ManagedTypeOK /\ LocalTypeOK
  BY DEF TypeOK
<1>2. /\ managed'[p].deleting = managed[p].deleting
      /\ managed'[p].finalizer = managed[p].finalizer
      /\ managed'[p].spec = managed[p].spec
  BY <1>1, OwnStepFrame
<1> USE DEF Continue, ObserveLabels, CreateLabels, DeleteLabels, clusterVars, localVars
<1>3. CASE pc'[p] = "updateStatus"
  BY <1>3, IdleStep
<1>4. CASE Connect(p, o)
  BY <1>1, <1>2, <1>4, GotoStep DEF Connect, StepInv
<1>5. CASE ObserveDeployment(p, o)
  <2>1. pc[p] = "observeDeployment" /\ deployment' = deployment
    BY <1>5 DEF ObserveDeployment
  <2>2. CASE ~deployment.exists /\ Observed(p, "absent")
    BY <1>1, <1>2, <2>1, <2>2, GotoStep DEF Observed, StepInv, LocalTypeOK
  <2>3. CASE Observed(p, "progressing")
    BY <1>1, <1>2, <2>1, <2>3, GotoStep DEF Observed, StepInv, LocalTypeOK
  <2>4. CASE Goto(p, "observeService")
    BY <1>1, <1>2, <2>1, <2>4, GotoStep DEF StepInv
  <2>5. CASE Goto(p, "updateStatus")
    BY <1>1, <1>3, <2>5, GotoStep
  <2> QED
    BY <1>5, <2>2, <2>3, <2>4, <2>5 DEF ObserveDeployment
<1>6. CASE ObserveService(p, o)
  <2>1. pc[p] = "observeService" /\ deployment' = deployment
    BY <1>6 DEF ObserveService
  <2>2. CASE Observed(p, "ready")
    BY <1>1, <1>2, <2>1, <2>2, GotoStep DEF Observed, StepInv, LocalTypeOK
  <2>3. CASE Goto(p, "updateStatus")
    BY <1>1, <1>3, <2>3, GotoStep
  <2> QED
    BY <1>6, <2>2, <2>3 DEF ObserveService
<1>7. CASE PublishObserved(p, o)
  BY <1>1, <1>2, <1>7, GotoStep DEF PublishObserved, Publish, StepInv
<1>8. CASE PublishCreated(p, o) \/ Update(p, o) \/ DeletePostgresPVC(p, o)
  BY <1>1, <1>3, <1>8, GotoStep DEF PublishCreated, Update, Publish, DeletePostgresPVC
<1>9. CASE CreateClaim(p, o) \/ ParseInputSecret(p, o) \/ GeneratePassword(p, o)
  <2>1. /\ pc[p] \in {"createClaim", "parseInputSecret", "generatePassword"}
        /\ deployment' = deployment
    BY <1>9 DEF CreateClaim, ParseInputSecret, GeneratePassword
  <2>2. pc'[p] \in {"parseInputSecret", "generatePassword", "createDeployment",
                    "updateStatus"}
    BY <1>1, <1>9, GotoStep DEF CreateClaim, ParseInputSecret, GeneratePassword
  <2> QED
    BY <1>2, <2>1, <2>2 DEF StepInv
<1>10. CASE CreateDeployment(p, o) \/ CreateService(p, o)
  <2>1. pc[p] \in {"createDeployment", "createService"}
    BY <1>10 DEF CreateDeployment, CreateService
  <2>2. pc'[p] \in {"createService", "publishCreated", "updateStatus"}
    BY <1>1, <1>10, GotoStep DEF CreateDeployment, CreateService
  <2> QED
    BY <1>2, <2>1, <2>2 DEF StepInv
<1>11. CASE DeletePostgresService(p, o) \/ DeletePostgresDeployment(p, o)
  <2>1. pc[p] \in {"deleteService", "deleteDeployment"}
    BY <1>11 DEF DeletePostgresService, DeletePostgresDeployment
  <2>2. pc'[p] \in {"deleteDeployment", "deleteClaim", "updateStatus"}
    BY <1>1, <1>11, GotoStep DEF DeletePostgresService, DeletePostgresDeployment
  <2> QED
    BY <1>2, <2>1, <2>2 DEF StepInv
<1> QED
  BY <1>4, <1>5, <1>6, <1>7, <1>8, <1>9, <1>10, <1>11 DEF OwnStep

WorkInv == ManagedInv /\ \A p \in Procs : StepInv(p)

LEMMA WorkInit == Init => WorkInv
<1> SUFFICES ASSUME Init PROVE WorkInv
  OBVIOUS
<1>1. \A p \in Procs : pc[p] = "idle" /\ managed[p] = NoCopy
  BY DEF Init, ManagedInit
<1>2. \A p \in Procs : CopyInv(p)
  BY <1>1, NoCopyInv
<1>3. \A p \in Procs : StepInv(p)
  BY <1>1 DEF StepInv, ObserveLabels, CreateLabels, DeleteLabels
<1>4. ResourceInv /\ LeaderInv
  BY <1>1 DEF Init, ManagedInit, ResourceInv, LeaderInv, NoResource, Busy
<1> QED
  BY <1>2, <1>3, <1>4 DEF WorkInv, ManagedInv

(***************************************************************************)
(* Every step keeps the invariant of a sole worker.                        *)
(***************************************************************************)
LEMMA WorkNext ==
  ASSUME TypeOK, SpecInv, WorkInv, SoleWorker, [Next]_vars
  PROVE  WorkInv'
<1>1. ManagedTypeOK /\ ManagedInv /\ \A q \in Procs : CopyInv(q) /\ StepInv(q)
  BY DEF TypeOK, WorkInv, ManagedInv
<1>2. ASSUME NEW p \in Procs, Busy(p) \/ MayWork(p), ManagedInv', StepInv(p)',
             \A q \in Procs \ {p} : pc'[q] = pc[q]
      PROVE  WorkInv'
  <2>1. \A q \in Procs \ {p} : StepInv(q)'
    BY <1>1, <1>2, OthersIdle, IdleStep
  <2> QED
    BY <1>2, <2>1 DEF WorkInv
<1>3. ASSUME NEW p \in Procs, NEW o \in Outcomes, OwnStep(p, o)
      PROVE  WorkInv'
  <2>1. Busy(p) /\ Engaged(p)
    BY <1>1, <1>3, OwnStepFrame
       DEF Busy, Engaged, OwnLabels, ObserveLabels, CreateLabels, DeleteLabels
  <2>2. ManagedInv'
    BY <1>1, <1>3, <2>1, OwnStepFrame, LocalInv
  <2> QED
    BY <1>1, <1>2, <1>3, <2>1, <2>2, OwnStepFrame, OwnStepInv
<1>4. ASSUME NEW p \in Procs, NEW o \in Outcomes, Finalizer(p, o)
      PROVE  WorkInv'
  <2>1. PICK next \in {"createClaim", "publishUpdated", "updateStatus"} :
          /\ AddFinalizer(p, o, next)
          /\ next = "createClaim" => observed[p] = "absent"
    BY <1>4 DEF Finalizer
  <2>2. deployment' = deployment /\ observed' = observed
    BY <1>4 DEF Finalizer, clusterVars, localVars
  <2>3. pc[p] = "addFinalizer" /\ Busy(p)
    BY <2>1 DEF AddFinalizer, Busy
  <2>4. ManagedInv'
    BY <1>1, <2>1, AddFinalizerInv
  <2>5. StepInv(p)'
    <3>1. CASE pc'[p] = "updateStatus"
      BY <3>1, IdleStep
    <3>2. CASE pc'[p] = next /\ managed'[p].finalizer
      <4>1. /\ ~managed'[p].deleting
            /\ next = "createClaim" => ~deployment'.exists
        BY <1>1, <2>1, <2>2, <2>3, AddFinalizerStep DEF StepInv
      <4> QED
        BY <3>2, <4>1 DEF StepInv, ObserveLabels, CreateLabels, DeleteLabels
    <3> QED
      BY <1>1, <2>1, <3>1, <3>2, AddFinalizerStep
  <2> QED
    BY <1>1, <1>2, <2>1, <2>3, <2>4, <2>5, AddFinalizerStep
<1>5. ASSUME NEW p \in Procs, NEW o \in Outcomes, Finalize(p, o) \/ Report(p, o)
      PROVE  WorkInv'
  <2>1. RemoveFinalizer(p, o) \/ UpdateStatus(p, o)
    BY <1>5 DEF Finalize, Report
  <2>2. Busy(p) /\ ManagedInv'
    BY <1>1, <2>1, RemoveFinalizerStep, UpdateStatusStep, RemoveFinalizerInv,
       UpdateStatusInv DEF Busy
  <2>3. StepInv(p)' /\ \A q \in Procs \ {p} : pc'[q] = pc[q]
    BY <1>1, <2>1, RemoveFinalizerStep, UpdateStatusStep, IdleStep
  <2> QED
    BY <1>2, <2>2, <2>3
<1>6. ASSUME NEW p \in Procs, Begin(p)
      PROVE  WorkInv'
  <2>1. Start(p) /\ MayWork(p)
    BY <1>6 DEF Begin, Start
  <2>2. ManagedInv'
    BY <1>1, <2>1, StartInv
  <2>3. StepInv(p)'
    <3>1. resource.exists
      BY <2>1 DEF Start
    <3>2. resource.spec.policy \in {"Delete", "Orphan"}
      BY <3>1, ManagedAssumption DEF SpecInv
    <3>3. /\ managed'[p].deleting = resource.deleting
          /\ managed'[p].spec = resource.spec
          /\ pc'[p] = IF resource.deleting /\ resource.spec.policy = "Orphan"
                      THEN "finalize" ELSE "connect"
      BY <1>1, <2>1, StartStep
    <3>4. CASE pc'[p] = "finalize"
      BY <3>3, <3>4 DEF StepInv, ObserveLabels, CreateLabels, DeleteLabels
    <3>5. CASE pc'[p] = "connect"
      BY <3>2, <3>3, <3>5 DEF StepInv, ObserveLabels, CreateLabels, DeleteLabels
    <3> QED
      BY <3>3, <3>4, <3>5
  <2> QED
    BY <1>1, <1>2, <2>1, <2>2, <2>3, StartStep
<1>7. ASSUME NEW p \in Procs, Exit(p)
      PROVE  WorkInv'
  <2>1. Stop(p) /\ Forget(p) /\ deployment' = deployment
    BY <1>7 DEF Exit, clusterVars
  <2>2. ManagedInv'
    BY <1>1, <2>1, StopInv
  <2>3. StepInv(p)'
    BY <1>1, <2>1, StopStep, IdleStep
  <2>4. ASSUME NEW q \in Procs \ {p} PROVE StepInv(q)'
    <3>1. pc'[q] = pc[q] /\ managed'[q] = managed[q]
      BY <1>1, <2>1, StopStep
    <3>2. observed'[q] = observed[q]
      BY <2>1 DEF Forget, TypeOK, LocalTypeOK
    <3> QED
      BY <1>1, <2>1, <3>1, <3>2 DEF StepInv
  <2> QED
    BY <2>2, <2>3, <2>4 DEF WorkInv
<1>8. ASSUME NEW p \in Procs, Elect(p), UNCHANGED <<clusterVars, localVars>>
      PROVE  WorkInv'
  <2>1. ManagedInv'
    BY <1>1, <1>8, ElectInv
  <2>2. UNCHANGED <<pc, managed, deployment, observed>>
    BY <1>8 DEF Elect, clusterVars, localVars
  <2> QED
    BY <1>1, <2>1, <2>2, EnvironmentStep DEF WorkInv
<1>9. CASE User
  <2>1. (UserCreate \/ UserDelete) /\ UNCHANGED <<deployment, observed>>
    BY <1>9 DEF User, clusterVars, localVars
  <2>2. ManagedInv'
    BY <1>1, <2>1, UserInv
  <2>3. pc' = pc /\ \A q \in Procs : managed'[q] = Seen(q)
    BY <1>1, <2>1, UserCreateStep, UserDeleteStep
  <2>4. \A q \in Procs : StepInv(q)'
    BY <1>1, <2>1, <2>3, SeenFields, EnvironmentStep
  <2> QED
    BY <2>2, <2>4 DEF WorkInv
<1>10. CASE BecomeAvailable \/ ReleaseClaim \/ CollectSecret \/ Interfere
  <2>1. /\ UNCHANGED <<managedVars, localVars>>
        /\ deployment'.exists => deployment.exists
    BY <1>10, KubernetesStep DEF TypeOK
  <2>2. ManagedInv'
    BY <1>1, <2>1 DEF managedVars, ManagedInv, ResourceInv, LeaderInv, CopyInv, Busy, Engaged
  <2> QED
    BY <1>1, <2>1, <2>2, EnvironmentStep DEF WorkInv, managedVars, localVars
<1>11. CASE UNCHANGED vars
  <2>1. UNCHANGED <<managedVars, localVars, deployment>>
    BY <1>11 DEF vars, clusterVars
  <2>2. ManagedInv'
    BY <1>1, <2>1 DEF managedVars, ManagedInv, ResourceInv, LeaderInv, CopyInv, Busy, Engaged
  <2> QED
    BY <1>1, <2>1, <2>2, EnvironmentStep DEF WorkInv, managedVars, localVars
<1> QED
  BY <1>3, <1>4, <1>5, <1>6, <1>7, <1>8, <1>9, <1>10, <1>11 DEF Next, Reconcile, OwnStep

(***************************************************************************)
(* The inductive invariant of a sole worker.                               *)
(***************************************************************************)
THEOREM Invariant ==
  ASSUME SoleWorker
  PROVE  Spec => []IInv
<1> DEFINE Inv == TypeOK /\ SpecInv /\ PasswordInv /\ WorkInv
<1>1. Init => Inv
  BY TypeInit, WorkInit
<1>2. Inv /\ [Next]_vars => Inv'
  BY TypeNext, WorkNext
<1>3. Inv => IInv
  BY DEF IInv, WorkInv
<1> QED
  BY <1>1, <1>2, <1>3, PTL DEF Spec

-----------------------------------------------------------------------------
(* The life cycle *)

Frame == UNCHANGED <<resource.exists, resource.deleting, resource.finalizer, resource.spec,
                     deployment.exists>>

LEMMA FrameStutters == Frame => UNCHANGED LC!vars
BY DEF Frame, LC!vars

(***************************************************************************)
(* Every step of the controller is a step of the life cycle or none.       *)
(***************************************************************************)
LEMMA LifecycleStep ==
  ASSUME TypeOK, SpecInv, WorkInv, [Next]_vars
  PROVE  [LC!Next]_(LC!vars)
<1>1. /\ ManagedTypeOK /\ ClusterTypeOK /\ ResourceInv
      /\ \A q \in Procs : CopyInv(q) /\ StepInv(q)
  BY DEF TypeOK, WorkInv, ManagedInv
<1>2. resource.exists => resource.spec.policy \in {"Delete", "Orphan"}
  BY ManagedAssumption DEF SpecInv
<1>3. ASSUME NEW p \in Procs, NEW o \in Outcomes, OwnStep(p, o)
      PROVE  [LC!Next]_(LC!vars)
  <2>1. resource' = resource
    BY <1>1, <1>3, OwnStepFrame
  <2>2. CASE CreateDeployment(p, o)
    <3>1. pc[p] = "createDeployment" /\ managed[p].finalizer /\ ~deployment.exists
      BY <1>1, <2>2 DEF CreateDeployment, StepInv, CreateLabels
    <3>2. resource.exists /\ resource.finalizer
      BY <1>1, <3>1 DEF CopyInv, Engaged, ResourceInv
    <3>3. deployment' = deployment \/ deployment'.exists
      BY <2>2 DEF CreateDeployment, MakePostgresDeployment
    <3>4. deployment'.exists \in BOOLEAN
      BY <1>1, <2>2, <3>3 DEF CreateDeployment, MakePostgresDeployment, ClusterTypeOK
    <3>5. CASE deployment' = deployment
      BY <2>1, <3>5, FrameStutters DEF Frame
    <3>6. CASE deployment'.exists
      BY <2>1, <3>1, <3>2, <3>4, <3>6 DEF LC!Next, LC!Provision
    <3> QED
      BY <3>3, <3>5, <3>6
  <2>3. CASE DeletePostgresDeployment(p, o)
    <3>1. /\ pc[p] = "deleteDeployment"
          /\ managed[p].deleting /\ managed[p].spec.policy = "Delete"
      BY <1>1, <2>3 DEF DeletePostgresDeployment, StepInv, DeleteLabels
    <3>2. /\ resource.exists /\ resource.deleting /\ resource.finalizer
          /\ resource.spec.policy = "Delete"
      BY <1>1, <3>1 DEF CopyInv, Engaged, ResourceInv
    <3>3. deployment' = deployment \/ deployment' = NoDeployment
      BY <2>3 DEF DeletePostgresDeployment
    <3>4. CASE deployment'.exists = deployment.exists
      BY <2>1, <3>4, FrameStutters DEF Frame
    <3>5. CASE deployment'.exists # deployment.exists
      <4>1. deployment.exists \in BOOLEAN
        BY <1>1 DEF ClusterTypeOK
      <4>2. deployment' = NoDeployment
        BY <3>3, <3>5
      <4>3. deployment'.exists = FALSE
        BY <4>2 DEF NoDeployment
      <4>4. deployment.exists = TRUE
        BY <3>5, <4>1, <4>3
      <4> QED
        BY <2>1, <3>2, <4>3, <4>4 DEF LC!Next, LC!Withdraw
    <3> QED
      BY <3>4, <3>5
  <2>4. CASE ~CreateDeployment(p, o) /\ ~DeletePostgresDeployment(p, o)
    <3>1. deployment' = deployment
      BY <1>3, <2>4 DEF OwnStep, Connect, ObserveDeployment, ObserveService,
         PublishObserved, PublishCreated, Update, Publish, CreateClaim,
         ParseInputSecret, GeneratePassword, CreateService, DeletePostgresService,
         DeletePostgresPVC, clusterVars
    <3> QED
      BY <2>1, <3>1, FrameStutters DEF Frame
  <2> QED
    BY <2>2, <2>3, <2>4
<1>4. ASSUME NEW p \in Procs, NEW o \in Outcomes, Finalizer(p, o)
      PROVE  [LC!Next]_(LC!vars)
  <2>1. PICK next : AddFinalizer(p, o, next)
    BY <1>4 DEF Finalizer
  <2>2. deployment' = deployment
    BY <1>4 DEF Finalizer, clusterVars
  <2>3. CASE resource' = resource
    BY <2>2, <2>3, FrameStutters DEF Frame
  <2>4. CASE Current(p) /\ ~managed[p].finalizer /\ resource'.finalizer
    <3>1. resource.exists /\ ~resource.deleting /\ resource.finalizer = FALSE
      <4>1. resource.finalizer \in BOOLEAN /\ managed[p].finalizer \in BOOLEAN
        BY <1>1, ResourceFields, CopyFields DEF ManagedTypeOK
      <4> QED
        BY <1>1, <2>4, <4>1 DEF CopyInv, Current
    <3>2. resource'.finalizer = TRUE
      BY <1>1, <2>1, <2>4, AddFinalizerStep, ResourceFields DEF ManagedTypeOK
    <3>3. /\ resource'.exists = resource.exists /\ resource'.deleting = resource.deleting
          /\ resource'.spec = resource.spec
      BY <1>1, <2>1, AddFinalizerStep
    <3> QED
      BY <2>2, <3>1, <3>2, <3>3 DEF LC!Next, LC!Hold
  <2> QED
    BY <1>1, <2>1, <2>3, <2>4, AddFinalizerStep
<1>5. ASSUME NEW p \in Procs, NEW o \in Outcomes, Finalize(p, o)
      PROVE  [LC!Next]_(LC!vars)
  <2>1. RemoveFinalizer(p, o) /\ deployment' = deployment
    BY <1>5 DEF Finalize
  <2>2. CASE resource' = resource
    BY <2>1, <2>2, FrameStutters DEF Frame
  <2>3. CASE Current(p) /\ resource' = NoResource
    <3>1. pc[p] = "finalize" /\ managed[p].deleting
      BY <1>1, <2>1, RemoveFinalizerStep DEF CopyInv
    <3>2. /\ resource.exists /\ resource.deleting /\ resource.finalizer
          /\ managed[p].spec = resource.spec
      BY <1>1, <3>1 DEF CopyInv, Engaged, ResourceInv
    <3>3. resource.spec.policy = "Delete" => ~deployment.exists
      BY <1>1, <3>1, <3>2 DEF StepInv
    <3> QED
      BY <2>1, <2>3, <3>2, <3>3 DEF LC!Next, LC!Release, NoResource
  <2> QED
    BY <1>1, <2>1, <2>2, <2>3, RemoveFinalizerStep
<1>6. ASSUME NEW p \in Procs, NEW o \in Outcomes, Report(p, o)
      PROVE  [LC!Next]_(LC!vars)
  <2>1. UpdateStatus(p, o) /\ deployment' = deployment
    BY <1>6 DEF Report, clusterVars
  <2> QED
    BY <1>1, <2>1, UpdateStatusStep, FrameStutters DEF Frame
<1>7. ASSUME NEW p \in Procs,
             \/ Begin(p) \/ Exit(p)
             \/ Elect(p) /\ UNCHANGED <<clusterVars, localVars>>
      PROVE  [LC!Next]_(LC!vars)
  BY <1>7, FrameStutters DEF Begin, Start, Exit, Stop, Elect, clusterVars, Frame
<1>8. CASE User
  <2>1. CASE UserCreate /\ deployment' = deployment
    <3>1. resource'.spec.policy \in {"Delete", "Orphan"}
      BY <1>1, <2>1, UserCreateStep, ManagedAssumption
    <3>2. resource.finalizer = FALSE /\ resource'.finalizer = FALSE
      BY <1>1, <2>1, UserCreateStep, ResourceFields DEF ManagedTypeOK, ResourceInv
    <3> QED
      BY <1>1, <2>1, <3>1, <3>2, UserCreateStep DEF LC!Next, LC!Request
  <2>2. CASE UserDelete /\ deployment' = deployment
    <3>1. resource.finalizer \in BOOLEAN /\ resource'.finalizer \in BOOLEAN
      BY <1>1, <2>2, UserDeleteStep, ResourceFields DEF ManagedTypeOK
    <3> QED
      BY <1>1, <2>2, <3>1, UserDeleteStep DEF LC!Next, LC!RequestDeletion, NoResource
  <2> QED
    BY <1>8, <2>1, <2>2 DEF User, clusterVars
<1>9. CASE BecomeAvailable \/ ReleaseClaim \/ CollectSecret \/ Interfere
  <2>1. /\ resource' = resource
        /\ deployment'.exists => deployment.exists
        /\ "deployment" \notin Drift => deployment'.exists = deployment.exists
    BY <1>1, <1>9, KubernetesStep DEF managedVars
  <2>2. deployment'.exists \in BOOLEAN /\ deployment.exists \in BOOLEAN
    BY <1>1, <1>9, KubernetesStep DEF ClusterTypeOK
  <2>3. CASE deployment'.exists = deployment.exists
    BY <2>1, <2>3, FrameStutters DEF Frame
  <2>4. CASE deployment'.exists # deployment.exists
    <3>1. deployment.exists = TRUE /\ deployment'.exists = FALSE /\ "deployment" \in Drift
      BY <2>1, <2>2, <2>4
    <3> QED
      BY <2>1, <3>1 DEF LC!Next, LC!Lose
  <2> QED
    BY <2>3, <2>4
<1>10. CASE UNCHANGED vars
  BY <1>10, FrameStutters DEF vars, managedVars, clusterVars, Frame
<1> QED
  BY <1>3, <1>4, <1>5, <1>6, <1>7, <1>8, <1>9, <1>10 DEF Next, Reconcile, OwnStep

(***************************************************************************)
(* A sole worker implements the life cycle of a managed resource: it       *)
(* creates the Deployment only under the finalizer, takes it away only on  *)
(* request, and lets no resource with policy Delete go before it is gone   *)
(* (postgres.go:113-160, 162-200, 210-224).                                *)
(***************************************************************************)
THEOREM LifecycleImplemented ==
  ASSUME SoleWorker
  PROVE  Spec => ImplementsLifecycle
<1> DEFINE Inv == TypeOK /\ SpecInv /\ PasswordInv /\ WorkInv
<1>1. Init => Inv
  BY TypeInit, WorkInit
<1>2. Inv /\ [Next]_vars => Inv'
  BY TypeNext, WorkNext
<1>3. Init => LC!Init
  BY DEF Init, ManagedInit, NoResource, NoDeployment, LC!Init
<1>4. Inv /\ [Next]_vars => [LC!Next]_(LC!vars)
  BY LifecycleStep
<1> QED
  BY <1>1, <1>2, <1>3, <1>4, PTL DEF Spec, ImplementsLifecycle, LC!Spec

=============================================================================
