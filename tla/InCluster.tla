----------------------------- MODULE InCluster -----------------------------
(***************************************************************************)
(* The provider as pkg/controller puts it together: the controller of      *)
(* ProviderConfigs beside a controller that connects through one, in the   *)
(* same process.  The second is that of module Operator, whose Connect is  *)
(* spelled out here: it reads the ProviderConfig, then the secret the      *)
(* ProviderConfig refers to, then builds the clients, while users edit     *)
(* both.  A kubeconfig may make it panic, which ends the whole process.    *)
(*                                                                         *)
(* The reconciler of ProviderConfigs is a library: it keeps a finalizer on *)
(* a ProviderConfig as long as ProviderConfigUsages name it.               *)
(***************************************************************************)
EXTENDS Naturals, FiniteSets, Credentials

CONSTANTS
  Procs, Specs, NoSpec, Faults, LeaderElection, NoProc, MaxVersion,
  Credentials, \* what the spec of the ProviderConfig may say of credentials
  Secrets      \* what users may make of the secret

VARIABLES
  resource, managed, pc, leader, subscription, phase, catalog, observed, csv,
  config,       \* the ProviderConfig the resource names
  secret,       \* the secret that holds kubeconfigs
  connecting,   \* connecting[p]: where p is in Connect
  accounting    \* accounting[p]: p's reconcile of the ProviderConfig

(* What others do to the Subscription and to the catalog is left to Operator. *)
O == INSTANCE Operator WITH Drift <- {}

managedVars    == <<resource, managed, pc, leader>>
clusterVars    == <<subscription, phase, catalog>>
localVars      == <<observed, csv>>
operatorVars   == <<managedVars, clusterVars, localVars>>
credentialVars == <<config, secret>>
processVars    == <<connecting, accounting>>
ownVars        == <<credentialVars, processVars>>
vars           == <<operatorVars, ownVars>>

Keys == {c.key : c \in Credentials} \cup {NoKey}

NoCredentials == [source |-> "None", key |-> NoKey]

(***************************************************************************)
(* The spec of an Operator may lack the reference to a ProviderConfig.     *)
(***************************************************************************)
OperatorSpec == [policy : {"Delete", "Orphan"}, configRef : BOOLEAN]

ASSUME InClusterAssumption ==
  /\ Specs \subseteq OperatorSpec
  /\ \A c \in Credentials : c.source \in {"InjectedIdentity", "Secret", "None"}
  /\ NoCredentials \in Credentials
  /\ InPod \in BOOLEAN
  /\ IsFiniteSet(Procs)
  /\ Faults \subseteq O!FaultKinds
  /\ LeaderElection \in BOOLEAN
  /\ NoSpec \notin Specs
  /\ NoProc \notin Procs
  /\ MaxVersion \in Nat \ {0}

ProviderConfig == [exists : BOOLEAN, deleting : BOOLEAN, finalizer : BOOLEAN,
                   credentials : Credentials]

NoConfig == [exists |-> FALSE, deleting |-> FALSE, finalizer |-> FALSE,
             credentials |-> NoCredentials]

(***************************************************************************)
(* Connect reads the ProviderConfig, then the secret under the key the     *)
(* ProviderConfig had, then asks the server for its API when it builds the *)
(* clients.                                                                *)
(***************************************************************************)
Connecting == [next : {"config", "secret", "clients"}, key : Keys]

NotConnecting == [next |-> "config", key |-> NoKey]

(***************************************************************************)
(* A reconcile of the ProviderConfig, and whether the copy it works on is  *)
(* still of the latest version.                                            *)
(***************************************************************************)
Accounting == {"idle", "latest", "outdated"}

TypeOK ==
  /\ O!TypeOK
  /\ config \in ProviderConfig
  /\ secret \in Secrets \cup {NoSecret}
  /\ connecting \in [Procs -> Connecting]
  /\ accounting \in [Procs -> Accounting]

Init ==
  /\ O!Init
  /\ config = NoConfig
  /\ secret = NoSecret
  /\ connecting = [p \in Procs |-> NotConnecting]
  /\ accounting = [p \in Procs |-> "idle"]

-----------------------------------------------------------------------------
(* Connect *)

Proceed(p, next, key) ==
  /\ connecting' = [connecting EXCEPT ![p] = [next |-> next, key |-> key]]
  /\ UNCHANGED operatorVars

(* An error of Connect ends the reconcile, also that of a deletion. *)
Disconnect(p) ==
  /\ connecting' = [connecting EXCEPT ![p] = NotConnecting]
  /\ O!Goto(p, "updateStatus")
  /\ UNCHANGED <<resource, managed, leader, clusterVars, localVars>>

(* Faulty: a deleted resource does without a ProviderConfig that is gone. *)
GetProviderConfigLenient(p, o) ==
  /\ pc[p] = "connect" /\ connecting[p].next = "config"
  /\ o \in O!ReadOutcomes
  /\ IF managed[p].deleting /\ ~config.exists
     THEN /\ O!Goto(p, "finalize")
          /\ UNCHANGED <<resource, managed, leader, clusterVars, localVars, connecting>>
     ELSE IF o = "ok" /\ config.exists /\ managed[p].spec.configRef
     THEN Proceed(p, "clients", NoKey) ELSE Disconnect(p)
  /\ UNCHANGED <<credentialVars, accounting>>

GetProviderConfig(p, o) ==
  LET found == o = "ok" /\ managed[p].spec.configRef /\ config.exists
      from  == CredentialsFrom(config.credentials)
  IN /\ pc[p] = "connect" /\ connecting[p].next = "config"
     /\ o \in O!ReadOutcomes
     /\ \/ found /\ from = "pod" /\ Proceed(p, "clients", NoKey)
        \/ found /\ from = "secret" /\ Proceed(p, "secret", config.credentials.key)
        \/ (~found \/ from = "error") /\ Disconnect(p)
     /\ UNCHANGED <<credentialVars, accounting>>

(***************************************************************************)
(* The process ends in the middle of what its controllers do.              *)
(***************************************************************************)
Restart(p) ==
  /\ connecting' = [connecting EXCEPT ![p] = NotConnecting]
  /\ accounting' = [accounting EXCEPT ![p] = "idle"]
  /\ UNCHANGED credentialVars

(***************************************************************************)
(* Nothing recovers from a panic in Connect: the process exits.            *)
(***************************************************************************)
Panic(p) ==
  /\ O!Goto(p, "idle")
  /\ managed' = [managed EXCEPT ![p] = O!NoCopy]
  /\ leader' = IF leader = p THEN NoProc ELSE leader
  /\ O!Forget(p)
  /\ UNCHANGED <<resource, clusterVars>>
  /\ Restart(p)

GetCredentials(p, o) ==
  LET result == IF o = "ok" THEN FromSecret(secret, connecting[p].key) ELSE Fails
  IN /\ pc[p] = "connect" /\ connecting[p].next = "secret"
     /\ o \in O!ReadOutcomes
     /\ \/ result.outcome = "panic" /\ Panic(p)
        \/ /\ result.outcome = "config" /\ Proceed(p, "clients", NoKey)
           /\ UNCHANGED <<credentialVars, accounting>>
        \/ /\ result.outcome = "error" /\ Disconnect(p)
           /\ UNCHANGED <<credentialVars, accounting>>

(***************************************************************************)
(* The clients are built for the server of the configuration, which here   *)
(* is always the same cluster, and ask it what it serves.                  *)
(***************************************************************************)
NewClient(p, o) ==
  /\ connecting[p].next = "clients"
  /\ O!Connect(p, o)
  /\ connecting' = [connecting EXCEPT ![p] = NotConnecting]
  /\ UNCHANGED <<credentialVars, accounting>>

-----------------------------------------------------------------------------
(* The controller of ProviderConfigs *)

(***************************************************************************)
(* The usages of the ProviderConfig.  Nothing in the provider ever creates *)
(* one: the connectors read the ProviderConfig and leave it at that.       *)
(***************************************************************************)
ProviderConfigUsages == {}

CountUsages(p) ==
  /\ accounting[p] = "idle"
  /\ config.exists
  /\ O!MayWork(p)
  /\ accounting' = [accounting EXCEPT ![p] = "latest"]
  /\ UNCHANGED <<operatorVars, credentialVars, connecting>>

(***************************************************************************)
(* Every change of the ProviderConfig gives it a new version.              *)
(***************************************************************************)
Outdate(q) == IF accounting[q] = "latest" /\ config' # config THEN "outdated"
              ELSE accounting[q]

(* Faulty: a deleted ProviderConfig gets its finalizer like any other. *)
SettleAlways(p, o) ==
  /\ accounting[p] # "idle"
  /\ o \in O!WriteOutcomes
  /\ config' = IF accounting[p] = "latest" /\ O!Applied(o)
               THEN [config EXCEPT !.finalizer = TRUE] ELSE config
  /\ accounting' = [q \in Procs |-> IF q = p THEN "idle" ELSE Outdate(q)]
  /\ UNCHANGED <<operatorVars, secret, connecting>>

(***************************************************************************)
(* A ProviderConfig is given the finalizer; a deleted one loses it, and    *)
(* goes, unless it has usages.  The server takes the update only from a    *)
(* copy of the latest version.                                             *)
(***************************************************************************)
Settle(p, o) ==
  LET kept == ~config.deleting \/ ProviderConfigUsages # {}
  IN /\ accounting[p] # "idle"
     /\ o \in O!WriteOutcomes
     /\ config' = IF accounting[p] = "outdated" \/ ~O!Applied(o) THEN config
                  ELSE IF kept THEN [config EXCEPT !.finalizer = TRUE]
                  ELSE NoConfig
     /\ accounting' = [q \in Procs |-> IF q = p THEN "idle" ELSE Outdate(q)]
     /\ UNCHANGED <<operatorVars, secret, connecting>>

-----------------------------------------------------------------------------
(* Users *)

UserConfig ==
  /\ \E c \in Credentials :
       config' = [config EXCEPT !.exists = TRUE, !.credentials = c]
  /\ accounting' = [q \in Procs |-> Outdate(q)]
  /\ UNCHANGED <<operatorVars, secret, connecting>>

UserDeleteConfig ==
  /\ config.exists /\ ~config.deleting
  /\ config' = IF config.finalizer THEN [config EXCEPT !.deleting = TRUE] ELSE NoConfig
  /\ accounting' = [q \in Procs |-> Outdate(q)]
  /\ UNCHANGED <<operatorVars, secret, connecting>>

UserSecret ==
  /\ secret' \in Secrets
  /\ UNCHANGED <<operatorVars, config, processVars>>

-----------------------------------------------------------------------------
(* The processes *)

Reconcile(p, o) ==
  \/ GetProviderConfig(p, o)
  \/ GetCredentials(p, o)
  \/ NewClient(p, o)
  \/ O!Work(p, o) /\ UNCHANGED <<credentialVars, processVars>>

Exit(p) == O!Exit(p) /\ Restart(p)

Elect(p) == O!Elect(p) /\ UNCHANGED <<clusterVars, localVars, ownVars>>

(***************************************************************************)
(* The rest of the model of Operator: reconciles that start, users, OLM    *)
(* and its catalog.                                                        *)
(***************************************************************************)
Around ==
  /\ \/ \E p \in Procs : O!Begin(p)
     \/ O!User
     \/ O!Install
     \/ \E v \in O!Versions : O!Succeed(v) \/ O!Replace(v)
     \/ O!Release
  /\ UNCHANGED ownVars

Next ==
  \/ \E p \in Procs, o \in O!Outcomes : Reconcile(p, o) \/ Settle(p, o)
  \/ \E p \in Procs : CountUsages(p) \/ Exit(p) \/ Elect(p)
  \/ Around
  \/ UserConfig \/ UserDeleteConfig \/ UserSecret

Spec == Init /\ [][Next]_vars

(***************************************************************************)
(* Both work queues go on, a free lease is taken, and OLM does its part.   *)
(* Processes stop losing the lease, but not panicking.  A reconcile of the *)
(* ProviderConfig that meets no conflict again and again is not beaten by  *)
(* an edit every time.  Nothing is assumed of users.                       *)
(***************************************************************************)
FaultsCease == <>[][\A p \in Procs : Exit(p) => GetCredentials(p, "ok")]_vars

Fairness ==
  /\ WF_vars(\E p \in Procs : O!Begin(p) /\ UNCHANGED ownVars)
  /\ WF_vars(\E p \in Procs : Reconcile(p, "ok"))
  /\ WF_vars(\E p \in Procs : Elect(p))
  /\ WF_vars(O!Install /\ UNCHANGED ownVars)
  /\ WF_vars(\E v \in O!Versions : O!Succeed(v) /\ UNCHANGED ownVars)
  /\ WF_vars(\E p \in Procs : CountUsages(p))
  /\ WF_vars(\E p \in Procs : Settle(p, "ok"))
  /\ SF_vars(\E p \in Procs : accounting[p] = "latest" /\ Settle(p, "ok"))
  /\ FaultsCease

FairSpec == Spec /\ Fairness

-----------------------------------------------------------------------------
(* Properties *)

(***************************************************************************)
(* To the controller of module Operator, all of this is a Connect that may *)
(* fail and a process that may stop: whatever users do to the              *)
(* ProviderConfig and its secret, no other step of its reconcile is added  *)
(* or left out, so that what holds of Operator holds here (client.go:117). *)
(***************************************************************************)
OperatorWithFaults == INSTANCE Operator WITH
                        Faults <- Faults \cup {"readFail", "crash"}, Drift <- {}

ImplementsOperator == OperatorWithFaults!Spec

(***************************************************************************)
(* An Operator becomes Ready unless the user deletes it, its credentials   *)
(* stop being usable, or it finds a Subscription that is spent: left by a  *)
(* Delete that stopped after the CSV, it makes OLM install nothing any     *)
(* more.  That holds across changes of the credentials, of the leader and  *)
(* of the channel (client.go:117, operator.go:91).                         *)
(***************************************************************************)
Configured ==
  /\ resource.spec.configRef
  /\ config.exists /\ Usable(config.credentials, secret)

Wanted == resource.exists /\ ~resource.deleting

Spent ==
  /\ subscription.installed # O!None
  /\ phase[subscription.installed] = "absent"

EventuallyReady == Wanted ~> (resource.ready \/ ~Wanted \/ ~Configured \/ Spent)

(***************************************************************************)
(* A deletion that was requested is completed unless the credentials stop  *)
(* being usable meanwhile (operator.go:145).                               *)
(***************************************************************************)
DeletionCompletes == resource.deleting ~> (~resource.deleting \/ ~Configured)

(***************************************************************************)
(* A ProviderConfig that the user deletes goes in the end, however its     *)
(* reconcile races with edits of it, unless some kubeconfig makes the      *)
(* process panic before it gets to that (config.go:44).                    *)
(***************************************************************************)
Panicking == \E k \in DOMAIN secret.data : Dangling(secret.data[k])

ConfigDeletionCompletes == config.deleting ~> (~config.deleting \/ Panicking)

(***************************************************************************)
(* Connect returns, a client or an error: without crashes and without a    *)
(* lease to lose the process does not exit in the middle of it             *)
(* (client.go:48, 116).                                                    *)
(***************************************************************************)
ConnectReturns == [][\A p \in Procs : pc[p] = "connect" => pc'[p] # "idle"]_vars

(***************************************************************************)
(* A ProviderConfig stays as long as a resource that was set up through it *)
(* is there (config.go:32).                                                *)
(***************************************************************************)
KeptWhileUsed ==
  [][config.finalizer /\ ~config'.exists => ~resource.finalizer]_vars

=============================================================================
