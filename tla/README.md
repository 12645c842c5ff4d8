# TLA+ models and proofs of provider-in-cluster

provider-in-cluster is a Crossplane provider: a process whose controllers turn
*managed resources* (`Postgres`, `Operator`) into objects of a cluster. This
directory models its control flow in TLA+, checks it with TLC on small
instances, and proves the main results with TLAPS for every value of the
constants. Line numbers refer to the Go files of the repository.

## The system

| component | state | operations | modelled |
|---|---|---|---|
| managed reconciler (crossplane-runtime, wired by `SetupPostgres`, `SetupOperator`) | the managed resource: deletion mark, finalizer, Ready condition, spec; the copy a reconcile works on; the connection secret | read, observe, publish, add finalizer, create / update / delete, remove finalizer, update status | `Managed`, external |
| Postgres controller and client (`pkg/controller/database/postgres`, `pkg/client/database/postgres`) | Deployment, Service, PersistentVolumeClaim, and the password, a local variable of `Create` | `Connect`, `Observe`, `Create`, `Update`, `Delete` and the client calls they make | `Postgres` |
| Operator controller and OLM client (`pkg/controller/olm/operator`, `pkg/client/olm/operator`) | Subscription, ClusterServiceVersion, PackageManifest | the same five, over OLM | `Operator` |
| credentials (`pkg/client/client.go`) | none: ProviderConfig and secret to `rest.Config` | `GetProviderConfigRC`, `restConfigFromAPIConfig` | `Credentials`, `InCluster` |
| ProviderConfig controller (`pkg/controller/config`) | ProviderConfig, its usages, its finalizer | a library reconciler | `InCluster`, external |
| process (`cmd/provider/main.go`, `pkg/controller/in-cluster.go`) | the lease | leader election, start, exit, panic, controllers side by side | `Managed`, `InCluster` |
| API types (`apis`), utilities (`pkg/controller/utils`) | none | `IntValue` | the fields and values that control flow depends on |
| generated code, packaging | none | | no |

The parts interact through the API server only: a controller's reconcile is a
sequence of API calls, and users, Kubernetes (scheduler, garbage collector,
claim protection), other clients and other provider processes act between any
two of them. Every call may fail; a write may take effect and lose its reply; a
process may stop at any point and come back with an empty memory. The three
Postgres objects carry no owner reference, so only this controller removes
them; they have the name of the managed resource, so two incarnations of one
resource meet in them.

What makes the Postgres controller correct, and hard to test:

- `Observe` judges existence by the Deployment alone, while `Create` makes four
  and `Delete` removes three objects, each of which can fail halfway;
- the generated password exists in a local variable until it is published;
- what a reconcile read at its start may be outdated when it writes;
- two processes may work at once, as leader election is off by default;
- the port is published from the copy and served by a Service that is written by
  another step, keeps what it has, and may be refused.

What makes the Operator controller correct, and hard to test:

- it subscribes to an OLM package and keeps no record of the CSV
  (ClusterServiceVersion) that OLM installs: `Observe` and `Delete` ask the
  catalog for the current one, while OLM upgrades at its own pace;
- any error of the read of the CSV counts as "no CSV", and the CSV alone decides
  existence, while the Subscription is what makes OLM act, and is deleted last.

What makes the credentials and the ProviderConfig correct, and hard to test:

- every kubeconfig, whatever it lacks, must give the configuration it leads to
  or an error; a missing context ends in a nil pointer, and a panic ends the
  process with all its controllers;
- `Connect` reads the ProviderConfig, then the secret under the key it had, and
  users edit both meanwhile; it comes first also in a deletion;
- a ProviderConfig is kept while it has usages, though no `Connect` records one.

PROJECT.json lists the hazards line by line.

## Modules

| module | what it is |
|---|---|
| `Lifecycle` | abstract specification: what any managed resource promises about its external resource. The external resource is created only under the hold of the finalizer, removed only once the deletion of a resource with policy Delete was requested, and such a resource does not go before it |
| `Managed` | the managed reconciler's state and the steps every controller shares |
| `Postgres` | EXTENDS `Managed`: the Postgres controller, Kubernetes, users, the specification, the fairness and the properties; instantiates `Lifecycle` through a refinement mapping |
| `Operator` | EXTENDS `Managed`: the Operator controller, OLM, the catalog, users, the specification, the fairness and the properties; instantiates `Lifecycle` weakened |
| `Credentials` | pure: kubeconfigs, secrets and what `client.go` makes of them, and a reference definition of where a kubeconfig leads |
| `InCluster` | the composition: EXTENDS `Credentials`, instantiates `Operator`, and puts `Connect` in full, the ProviderConfig with its controller, the secret, users who edit both, and panics around it; shown to implement `Operator` |
| `PostgresInvariant`, `OperatorInvariant` | the inductive invariants, which runs check and theorems state |
| `MCPostgres`, `MCOperator`, `MCInCluster` | the values TLC gives the constants |
| `ManagedProofs` | lemmas on the shared steps and the part of the invariant they keep, for every controller |
| `PostgresProofs` | type correctness, the invariant, the refinement |
| `CredentialProofs` | the password and the data |
| `PortProofs` | the life of the Service and the published port |
| `CalmProofs` | what `Create` and `Delete` leave, and what Ready means, without faults |
| `OperatorProofs` | type correctness, the invariant, the life cycle of the Subscription and of the CSVs |
| `KubeconfigProofs` | what `restConfigFromAPIConfig` returns for every kubeconfig |
| `InClusterProofs` | type correctness, the refinement of `Operator`, what that carries over, and when `Connect` panics |

`Lifecycle` has two constants that weaken it. `Unattended` lets others remove
the external resource: `Postgres` sets it where `Drift` contains "deployment".
`Abandons` lets a resource go before its external resource: `Postgres` never
sets it, `Operator` does, because its controller does not keep that part.

### Managed

`resource` is the stored resource; its spec is abstracted to what control flow
depends on: the deletion policy, the password its secret reference leads to
(`NoPw`: no reference, or an empty value), the port, and whether the size
parses (`PostgresSpec`); for `InCluster`, whether it names a ProviderConfig.
`managed[p]` is the copy of process p with the
standing of its resourceVersion: "latest", "outdated", or "gone" when the
incarnation it was read from no longer exists. The server takes an update only
from a copy of the latest version (`Write`). `pc[p]` is the next call of the
reconcile of p; the work queue of a process never runs one resource twice at
once, so one program counter per process is enough. `leader` is the lease.

*What one step is.* A step is one call to the API server, or a read and the
write that directly follows it: `CreateOrUpdate` of the Postgres client (Get,
then Create or nothing), the three `DeletePostgres*` and `DeleteCSV` (Get, then
Delete), and the library's publication of a connection secret (Get, then Create
or Patch). Such a pair is one step because all the code does with what it read is
to choose the write. The API server takes or refuses the write by the state at
that moment, so the step is placed at the write, or at the read when no write
follows. Where the object changes between the two, the outcome differs from what
an undivided step would give, in two ways: the Create finds an object that
another process made (AlreadyExists), or the Delete one that another client or
process removed (NotFound). Both are errors without an effect. They are the
outcome "conflict", which exists where two processes may work at once (`Raced`)
and, for a Delete, where `Drift` lets others remove the object. A claim that is
released between the read and the Delete gives such an error too, at the last
call of a reconcile that ends either way. The last calls
of the Operator's `Delete` need no such outcome: `DeleteSubscription` ends the
reconcile whatever it returns, and `DeleteCSV` returns an error of its Get too, so
that a CSV that others remove in between is like one that was not there.

The reconciler itself is a library outside the repository; its steps are marked
external in the map and modelled from what the controllers rely on: read,
`Connect`, `Observe`; a deleted resource goes to `Delete` or, if nothing exists
any more, to the removal of its finalizer; otherwise the observed details are
published, the finalizer is added, then `Create` or `Update` runs and its
details are published; every path ends with a status update, and every error
leads there. A deleted resource with policy Orphan skips all of it.

Losing the lease and exiting is one step (`Stop`): `mgr.Start` returns, and
`main` ends. That no API call of the old leader is still in flight when the next
one starts is an assumption on the timing of leases which the model makes and
the library cannot guarantee.

### Postgres

| action | code |
|---|---|
| `Connect` | controller 80-104 and what it reads of the ProviderConfig |
| `ObserveDeployment`, `ObserveService` | `Observe` 113-143, with the defaults of 226-248 put into the copy at 120, and 145-160; `Observed` is the reconciler's branch on the result |
| `PublishObserved`, `PublishCreated` | the connection details of `Observe` 157-159 and `Create` 192-199 |
| `Finalizer` | the reconciler adds its finalizer and branches to `Create` or `Update` |
| `CreateClaim`, `ParseInputSecret`, `GeneratePassword`, `CreateDeployment`, `CreateService` | `Create` 162-200 and the client calls in it |
| `Update` | 202-208: nothing, and its empty details are published |
| `DeletePostgresService`, `DeletePostgresDeployment`, `DeletePostgresPVC` | `Delete` 210-224, client 69-103: an error of the Get counts as gone |
| `Finalize`, `Report` | the last call of a reconcile |
| `Begin`, `Exit`, `Elect` | the start of a reconcile, the stop and the election of a process |
| `User` | creation and deletion of the resource, any number of times |
| `BecomeAvailable`, `ReleaseClaim`, `CollectSecret` | Kubernetes |
| `Interfere` | another client removes Deployment or Service, or the pod stops being ready (constant `Drift`) |

The secret keeps the keys a publication does not mention, belongs to one
incarnation (`stale` when that one is gone) and is refused to another. The
user name and the database are published together with the password, so `pw`
stands for all three. `writeConnectionSecretToRef` is taken to be set.

`service` is the port of the Service, `NoPort` when there is none. `port[p]` is
the port in the copy of p once `Observe` has filled in what the spec leaves open
(120, `initializeDefaults` 226-248); what `Create` does later reads that copy,
and `DefaultsInv` says that it finds the defaults there. The update that adds the
finalizer may store the defaults or not, which changes nothing, as every
`Observe` fills them in again. The port is the field of these that control flow
depends on. `MakeDefaultPostgresService` (client 276-295) cuts it to an int32
(`Modulus`), the API server refuses a Service beyond `MaxPort`, and the secret
publishes the port as it was (196); in both, `IntValue` (utils 134-140) makes an
unset port 0.

### Operator

| state | code |
|---|---|
| `subscription` | the Subscription of the Operator's name, and the version OLM installed for it last |
| `phase[v]` | the CSV of version v: absent, installing, succeeded |
| `catalog` | whether the PackageManifest is there, with or without the channel, and the version the channel is at |
| `csv[p]` | the local variable `csv` of `Observe` and `Delete` |

| action | code |
|---|---|
| `Connect` | controller 66-84 |
| `ObserveManifest`, `CheckCSV` | `Observe` 91-111 and its rest, client 86-109; `Observed` is the reconciler's branch |
| `Publish` | the empty connection details of `Observe`, `Create` and `Update` |
| `Finalizer` | the reconciler adds its finalizer and branches to `Create` or `Update` |
| `CreateOperator` | `Create` 126-135, client 73-84: an existing Subscription is no error and stays |
| `DeleteManifest`, `DeleteCSV`, `DeleteSubscription` | `Delete` 145-164, client 111-133: an error of the manifest is ignored, an error of the CSV ends `Delete` |
| `Install`, `Succeed`, `Replace`, `Release` | OLM and its catalog, external |
| `Interfere` | the package leaves the catalog or comes back, with the channel or without; another client removes the Subscription (constant `Drift`) |

The connection details are empty, so their secret is left out. OLM is modelled
from what the controller waits for: it installs the version the channel is at
once per Subscription and does not install again a CSV that was deleted; a
version that has succeeded replaces the earlier ones. A Subscription is fixed by
the spec, so only its existence counts.

### Credentials and InCluster

| state | code |
|---|---|
| `config` | the ProviderConfig: whether it exists and is being deleted, its finalizer, its credentials (source, and the key of the secret reference) |
| `secret` | the secret: whether it exists, and what it holds under which key |
| `connecting[p]` | where p is in `Connect`, and the key it took from the ProviderConfig |
| `accounting[p]` | p's reconcile of the ProviderConfig, and whether its copy is of the latest version |

| action or operator | code |
|---|---|
| `GetProviderConfig` | `GetProviderConfigRC` 117-142; `CredentialsFrom` is its switch; the identity of a pod is there only in a pod (`InPod`), else an error (132-135) |
| `GetCredentials` | 143-156; `FromSecret`, `GetSecretData` 104-114, `NewRestConfig` 48-55, `restConfigFromAPIConfig` 68-102 |
| `NewClient` | OLM client 51-70: the clients ask the server what it serves |
| `Panic` | client 72-73: nothing recovers, so the process ends in the middle of both controllers' work |
| `CountUsages`, `Settle` | config 31-48: the library's reconciler reads the ProviderConfig and its usages, then keeps or removes the finalizer; `ProviderConfigUsages` is empty, as no code creates one |
| `UserConfig`, `UserDeleteConfig`, `UserSecret` | users |
| `O!Work`, `Around` | every other step of `Operator`, unchanged |

A kubeconfig is its current context and three partial functions: contexts to a
cluster and a user, clusters to servers, users to identities; any name may be
missing. The certificates and tokens of a `rest.Config` go with the identity.

Towards `Operator` all of this is a `Connect` that may fail and a process that
may crash: `ImplementsOperator` states it, with "readFail" and "crash" added to
the faults and all of InCluster's own state hidden. Whatever `op_faults` shows
of `Operator` therefore holds beside a ProviderConfig that users edit.

## Runs

Runs of `MCPostgres` have one process, or two where processes race; specs with a
generated password, a given one, policy Orphan, a size that does not parse and
four ports; three or four generated passwords, one more than can be held at once
(Deployment, secret, one local variable per process), so that a new password is
always available and differs from those in use. Ports are small numbers: 2 is
the default, 3 the last one that may be served, 5 is refused, and 9 comes out as
1 when it is cut to three bits. The resource is created and deleted for ever:
nothing else is bounded, and state spaces are finite because all state is.
Generated passwords are interchangeable, hence the symmetry sets of the safety
runs; runs with liveness have none. In `pg_replicas` the two processes are
interchangeable as well.

Runs of `MCOperator` have one or two processes, both policies or the default
one, and up to two versions of the channel, so that an upgrade can happen
before, during and after a deletion. Runs of `MCInCluster` have one process that
may lose its lease, two versions, and a secret with one key whose content is a
whole kubeconfig or one without its context; `v_kubeconfig_panic` has a secret
for every way to be incomplete, and a provider that runs outside of a pod. `KubeconfigsUnderstood`, an
assumption TLC evaluates before each of these runs, enumerates the kubeconfigs
over two names, enough for a name to be found in one map and missing
in another, and for the current context and its cluster to have each other's
names.

| run | question | result |
|---|---|---|
| `pg_faults` | two processes under leader election, failing and lost calls, crashes and losses of the lease between any two calls, failing pods, Services removed by others, all specs | types; the inductive invariant `IInv`; where a published password comes from (`CredentialInv`); the published password is that of the database (`PublishedPasswordIsRunning`); no database without a password, whatever reads fail (`NeverPasswordless`); the life cycle is implemented; the claim is deleted only on request (`DataKept`) |
| `pg_replicas` | two processes without leader election, failed reads, lost replies, creations that the other process wins, Deployments removed by others | no database without a password (`NeverPasswordless`), and none that is given another (`PasswordFixed`) |
| `pg_calm` | no faults, fairness, ports that can be served | Ready comes with credentials, the published port is the one served, nothing is left behind, the given password is used; the inductive invariant `CalmInv`; the resource becomes Ready or is deleted or has lost its claim; deletions end |
| `op_faults` | two processes under leader election, all faults, upgrades, all of `Drift` | types; the inductive invariant `IInv`; the provider subscribes only under the finalizer and unsubscribes only on request (`SubscribesOnRequest`); a CSV goes only on request or after a later version succeeded (`CSVKept`) |
| `in_cluster` | both controllers in one process, losses of the lease, panics, upgrades, ProviderConfig and secret edited and deleted at any time, fairness | types; `Operator` is implemented; an Operator becomes Ready, its deletion ends, the deletion of a ProviderConfig ends |
| `v_crash_credentials` | a crash during `Create` | a Ready resource without credentials, for ever |
| `v_left_behind` | a resource that was set up (`NothingLeftOnceReady`), and a `Delete` whose last call fails | the claim is left, the resource gone |
| `v_given_password` | a failed read of the password secret | another password is used |
| `v_stuck_deletion` | a port that the API server refuses, no fault at all | the resource cannot be deleted once its pod runs |
| `v_operator_leak` | an Operator deleted before its CSV appears, no fault at all | it goes without its Subscription |
| `v_config_in_use` | a ProviderConfig deleted under its Operator, no fault at all | it goes, and the Operator cannot be deleted any more |
| `v_kubeconfig_panic` | a current context that is missing | the process exits in the middle of `Connect` |

The seven `v_` runs are disagreements of the code with the documentation, listed
as findings in PROJECT.json with the lines they quote. The four of Postgres
state properties that hold in `pg_calm` (`NothingLeftOnceReady` as a part of
`NothingLeftBehind`), so the difference is exactly what the run allows: a crash,
a failed write, a failed read, a port out of range. `NothingLeftBehind` itself
fails on a shorter path too: a `Create` that fails after the claim and before the
Deployment, and a user who then deletes the resource; `Delete` never runs, as
nothing exists by the Deployment. `NothingLeftOnceReady` excludes it, so that
the run shows line 223. A
Service whose creation failed for another reason blocks the deletion likewise.

The liveness properties have escapes, each a state the code does not leave
by itself.
`ClaimLost`: a resource created again while the old claim is terminating takes
that claim for its own, and waits for ever once it is gone. `Spent`: a
Subscription left by a `Delete` that stopped after the CSV makes OLM install
nothing any more, and the next Operator takes it for its own. `Configured`:
credentials that stop being usable stop everything, a deletion included, as
`Connect` comes first. `Panicking`: a process that ends on one controller's
kubeconfig may never get to the other controller's work. What an escape or a
bound excuses is not counted among what the property covers; the hazards in
PROJECT.json say so one by one.

`in_cluster` has one usable combination of ProviderConfig and secret. With two
(say, the identity of the pod as well) `EventuallyReady` does not hold: a user
who goes back and forth between them, always between the read of the
ProviderConfig and that of the secret, keeps every `Connect` from succeeding
while each combination by itself is usable.

Four behaviours met on the way have no property of their own, since the
repository promises nothing about them.
Ready is never withdrawn (155 is the only condition ever set). A Deployment left
by a resource with policy Orphan is adopted by the next one of the name without
credentials. With a package that is withdrawn from the catalog, every `Observe`
of an Operator ends in an error (101), so that a deletion is never completed;
`in_cluster` keeps the package listed. A port that does not fit into an int32 is
served cut and published whole; `pg_calm` has none.

### Fairness

`FairSpec` assumes of the code: a process with a resource in its queue starts a
reconcile and each reconcile goes on (the queue hands out every resource again,
after success at the sync period and after errors with back-off). Of
Kubernetes: a Deployment whose claim is there becomes available, a terminating
claim is released once no pod uses it, an ownerless secret is collected. Of the
faults: `FaultsCease`, from some point on calls succeed; without it an API
server that fails for ever refutes any liveness. Nothing is assumed of users,
crashes, leases or interference.

`InCluster` assumes the same of both its queues, that a free lease is taken, and
that OLM resolves a Subscription and finishes an installation. Its `FaultsCease`
says that from some point on the process stops only by a panic: panics are the
code's own doing and go on as long as the kubeconfig causes them. One strong
fairness is assumed: a reconcile of the ProviderConfig that again and again
could write from a copy of the latest version does so in the end. Edits cost it
attempts (a conflict, then a retry with back-off), but not every one of them for
ever. `Operator` by itself is checked for safety only.

## Proofs

TLAPS checks these for every set of processes, specs, passwords, ports, versions
and faults, and for every kind of drift, except where the column "assumes" says
otherwise.

| module | theorem | assumes | states |
|---|---|---|---|
| `PostgresProofs` | `TypeCorrect` | | `[]TypeOK` |
| | `PasswordAlwaysSet` | | `[]NeverPasswordless` |
| | `Invariant` | `SoleWorker` | `[]IInv` |
| | `LifecycleImplemented` | `SoleWorker` | `ImplementsLifecycle` |
| `CredentialProofs` | `PasswordNeverChanges` | | `PasswordFixed` |
| | `DataIsKept` | `SoleWorker` | `DataKept` |
| | `PublishedPasswordCorrect` | `SoleWorker`, nobody removes the Deployment | `[]PublishedPasswordIsRunning` |
| | `CredentialsKept` | the same | `[]CredentialInv` |
| | `GivenPasswordRuns` | `SoleWorker`, reads do not fail | `GivenPasswordUsed` |
| `PortProofs` | `PublishedPortCorrect` | `SoleWorker`, reads do not fail, nobody removes the Deployment, `PortsFit` | `[]PublishedPortIsServed` |
| `CalmProofs` | `NothingIsLeftBehind` | `Calm` | `NothingLeftBehind` |
| | `CalmInvariant` | `Calm`, `AllDeleted`, `PortsFit` | `[]CalmInv` |
| | `ReadyMeansCredentials` | `Calm`, `AllDeleted` | `[]ReadyHasCredentials` |
| `OperatorProofs` | `TypeCorrect` | | `[]TypeOK` |
| | `Invariant` | `SoleWorker` | `[]IInv` |
| | `SubscriptionFollowsRequest` | `SoleWorker` | `SubscribesOnRequest` |
| | `CSVKeptUntilRequested` | `SoleWorker` | `CSVKept` |
| `KubeconfigProofs` | `EveryKubeconfigUnderstood` | contexts name a cluster and a user | `Understood(k)`, for a kubeconfig `k` over any names |
| | `PanicsOnDanglingOnly` | | `restConfigFromAPIConfig` panics exactly on a current context that is named and missing |
| `InClusterProofs` | `TypeCorrect` | | `[]TypeOK` |
| | `OperatorImplemented` | | `ImplementsOperator` |
| | `OperatorKept` | `SoleWorker` | `CSVKept` and `SubscribesOnRequest`, of the composition |
| | `ConnectReturnsUnlessDangling` | | a process that leaves `Connect` by ending stopped (`Exit`), or the secret holds a dangling kubeconfig |

### What is assumed, and why

Each assumption names something the code does not guarantee, and most have a
`v_` run that shows what goes wrong without it.

`SoleWorker`: there is one process, or leader election is on. Without it two
processes both find no Deployment, both generate a password, one creates the
Deployment with its own and the other, which finds it there, publishes a
password nobody runs with. What needs no `SoleWorker` is proved without.

*Reads do not fail*: `Delete` takes an object that it cannot read for one that
is gone and goes on, so that a Service can outlive its Deployment and give its
port to the next resource of the name; a password secret that cannot be read
counts as none (`v_given_password`). Writes may fail and lose their replies,
and processes may stop, in `GivenPasswordRuns` and in `PublishedPortCorrect`.

*Nobody removes the Deployment*: when another client does, `Create` makes one
with another password while the secret still holds the first.

`PortsFit`: no port of a spec loses anything when it becomes an int32.

`Calm`: one process without leader election, no faults, and nobody removes the
Deployment; pods still fail, Services are still removed, and ports may still be
refused. One failed write leaves the claim behind (`v_left_behind`), one crash
leaves a Ready resource without credentials (`v_crash_credentials`).

`AllDeleted`: every spec has policy Delete. An orphaned Deployment is adopted by
the next resource of its name, which becomes Ready and never has credentials.

### The arguments

*Postgres.* `TypeOK`, `SpecInv` (a stored spec is one a user wrote) and
`PasswordInv` (past `ParseInputSecret`, `Create` holds a password) are inductive
by themselves. `IInv` adds what a reconcile knows: `ManagedInv` says that idle
processes hold no copy, that only the leader works, and that a copy which
carries the finalizer pins the incarnation it was read from. `StepInv` says
what holds at each label: during `Create` no Deployment exists until this
reconcile makes one, during `Delete` the deletion was requested with policy
Delete, at the removal of the finalizer the Deployment is gone. Neither is
enough alone: `DataKept` and the refinement need the pinned finalizer to carry
a fact about the copy over to the stored resource after any interleaving.
`CredentialInv` adds where a published password comes from: a secret that holds
one while there is no Deployment belongs to a resource in deletion, whose
reconciles do not create. `GivenInv` follows the password of the spec through
`Create`; that the spec is still the stored one when the Deployment is made is
again the pinned finalizer.

*The port.* `DefaultsInv` says that the port in the copy is that of the spec
with its defaults from `Observe` to the end of `Create`. `ServiceInv` says that the Service lives within the life of the
Deployment: `Create` makes it after, `Delete` removes it before. So a `Create`
that is about to make a Service finds none from an earlier resource, and with
`SecretInv` the secret holds nothing of another one. `PortInv` carries that
from the Service to its publication, two steps later.

*The calm provider.* Every call succeeds but one (`CalmOutcome`): the deletion of
a Service that others remove first. `ClaimInv` is where a claim can be without a Deployment:
only in the middle of a `Create` or of a `Delete`. It is what a single fault
destroys. `NothingLeftBehind` follows from it and `ServiceInv` at the step that
removes the finalizer (`GoneStep`). `ReadyInv` has to say what a copy knows
that is about to be written back: a copy that is Ready and not deleted comes
with a complete secret, unless its incarnation is gone, in which case the
server refuses it. Two of its parts are about the resource created again under
the same name: a stale secret means that no Deployment exists, and a copy of a
gone incarnation carries no finalizer.

*Operator.* The same shared lemmas, and a shorter `StepInv`, as the controller
knows less: an `Observe` that finds no CSV tells nothing about the Subscription.
`CSVInv` says that a CSV is only asked for by a version that was read.

*The composition.* `InClusterProofs` takes `OperatorProofs` as an instance, with
"readFail" and "crash" added to the faults and no drift, and discharges its
assumptions from those of `InCluster` (`Constants`). `ConnectStep` shows that
the pieces of `Connect` are a stutter, a failure, a crash or a success of
`Operator`'s; `WorkStep` and `AroundStep` that everything else is unchanged but
for having fewer faults. `OperatorImplemented` follows, and through it the
theorems about `Operator` hold of the composition (`OperatorKept`), and half of
`TypeCorrect`. `ConnectReturnsUnlessDangling` uses `PanicsOnDanglingOnly`; it is
the complement of the run `v_kubeconfig_panic`.

`ManagedProofs` treats the shared steps once, with no mention of a controller;
both controllers' proofs cite its lemmas.

### What is only model-checked

- The liveness properties (`EventuallyReadyOrClaimLost`, `DeletionCompletes` of
  `Postgres`; `EventuallyReady`, `DeletionCompletes`, `ConfigDeletionCompletes`
  of `InCluster`): fairness and ENABLED are outside what the provers do.
- `KubeconfigsUnderstood`, which is the theorem `EveryKubeconfigUnderstood` over
  two names, kept as a check of the definitions.
- The violations that the `v_` runs show, which are behaviours and not theorems.

## Not modelled

- The contents of the created objects other than the password and the port.
- The Synced condition, events and back-off of the reconciler, the resolution of
  references, and the retry of a connection secret's publication inside the
  library.
- Several managed resources at once. Two Postgres share no object: all of theirs
  carry the name of the resource, which is cluster-scoped, and a connection secret
  that both name is refused to the second. Two Operators do when
  they name one package: the CSV is named by the catalog and, like every Operator,
  lives in the namespace "default" (operator.go 166-173), so that each counts the
  other's CSV as its own and the deletion of one takes it from both. What the
  runs and theorems say of a CSV is for one Operator of a package.
- Users who edit the spec of an existing managed resource, which the API types
  mark immutable, or its finalizers.
- Several clusters: credentials of an existing resource that start to lead to
  another cluster make the controller create there what it has here, and forget
  the first; nothing in the repository says what should happen.
- Of `pkg/controller/utils`: the pointer helpers that only wrap a value, and
  command execution in pods, which no controller calls.
- Generated code, packaging, and the registration of types.

## Plan

Done: `Managed`, `Lifecycle`, `Postgres`, `Operator`, `Credentials` and
`InCluster` with their runs, and a theorem for every safety property that a
passing run checks. What is left:

1. The weakest assumptions: `NothingLeftBehind` with failing pods and refused
   ports holds under `Calm` already, but a crash outside `Create` and `Delete`
   does no harm either; a theorem that says at which labels it does would show
   the two findings to be the only ones.
2. The life cycle of `Operator` in full, under an assumption on OLM's timing that
   excludes `v_operator_leak`.
3. Invariants of the ProviderConfig's reconcile (a finalizer is never written
   back after the deletion), now only implied by the run with liveness.
