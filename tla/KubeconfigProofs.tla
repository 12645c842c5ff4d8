-------------------------- MODULE KubeconfigProofs --------------------------
(***************************************************************************)
(* That client.go understands every kubeconfig, whatever names are in it.  *)
(***************************************************************************)
EXTENDS Credentials, TLAPS

(***************************************************************************)
(* The contexts of a kubeconfig name a cluster and a user.                 *)
(***************************************************************************)
NamesIn(k, Name) ==
  \A n \in DOMAIN k.contexts : k.contexts[n] \in [cluster : Name, user : Name]

-----------------------------------------------------------------------------
(***************************************************************************)
(* The configuration is the one the current context leads to, and the only *)
(* inputs without a configuration are those that lead nowhere              *)
(* (client.go:68): what a run checks of the kubeconfigs over two names.    *)
(***************************************************************************)
THEOREM EveryKubeconfigUnderstood ==
  ASSUME NEW k, NEW Name, k # Unparsable, NamesIn(k, Name)
  PROVE  Understood(k)
<1> DEFINE result  == NewRestConfig(k)
           context == k.contexts[k.current]
<1> DEFINE named == k.current # NoName /\ k.current \in DOMAIN k.contexts
           held  == context.cluster \in DOMAIN k.clusters /\ context.user \in DOMAIN k.users
<1>1. result = restConfigFromAPIConfig(k)
  BY DEF NewRestConfig
<1>2. CASE ~named
  <2>1. ~WellFormed(k)
    BY <1>2 DEF WellFormed, Targets
  <2>2. result.outcome # "config"
    BY <1>1, <1>2 DEF restConfigFromAPIConfig, Fails, Panics
  <2> QED
    BY <2>1, <2>2 DEF Understood
<1>3. CASE named /\ held
  <2>1. result = Returns(k.clusters[context.cluster], k.users[context.user])
    BY <1>1, <1>3 DEF restConfigFromAPIConfig
  <2>2. context \in [cluster : DOMAIN k.clusters, user : DOMAIN k.users]
    BY <1>3 DEF NamesIn
  <2>3. result \in Targets(k)
    BY <1>3, <2>1, <2>2 DEF Targets
  <2> QED
    BY <2>3 DEF Understood, WellFormed
<1>4. CASE named /\ ~held
  <2>1. ~WellFormed(k)
    BY <1>4 DEF WellFormed, Targets
  <2>2. result = Fails
    BY <1>1, <1>4 DEF restConfigFromAPIConfig
  <2> QED
    BY <2>1, <2>2 DEF Understood, Fails
<1> QED
  BY <1>2, <1>3, <1>4

(***************************************************************************)
(* The only kubeconfig that panics is one whose current context is named   *)
(* and missing (client.go:72).                                             *)
(***************************************************************************)
THEOREM PanicsOnDanglingOnly ==
  ASSUME NEW k, k # Unparsable
  PROVE  NewRestConfig(k).outcome = "panic" <=> Dangling(k)
<1>1. NewRestConfig(k) = restConfigFromAPIConfig(k)
  BY DEF NewRestConfig
<1>2. CASE Dangling(k)
  BY <1>1, <1>2 DEF Dangling, restConfigFromAPIConfig, Panics
<1>3. CASE ~Dangling(k)
  BY <1>1, <1>3 DEF Dangling, restConfigFromAPIConfig, Fails, Returns
<1> QED
  BY <1>2, <1>3

=============================================================================
