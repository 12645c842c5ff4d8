---------------------------- MODULE Credentials ----------------------------
(***************************************************************************)
(* pkg/client/client.go: how the credentials of a ProviderConfig become    *)
(* the configuration of a client.  Every function here is pure; the reads  *)
(* of the ProviderConfig and of its secret are steps of module InCluster.  *)
(*                                                                         *)
(* A kubeconfig names a current context; contexts maps names to a cluster  *)
(* and a user, clusters maps names to servers, users maps names to         *)
(* identities.                                                             *)
(***************************************************************************)
CONSTANTS
  Unparsable,   \* the content of a secret that is not a kubeconfig
  NoName,       \* the empty string, where a name is expected
  NoKey,        \* no reference to a secret
  InPod         \* does the provider run in a pod, with a service account?

(***************************************************************************)
(* What one of the functions returns: a configuration, or an error, or it  *)
(* does not return because it dereferences a nil pointer.                  *)
(***************************************************************************)
Returns(server, identity) ==
  [outcome |-> "config", server |-> server, identity |-> identity]

Fails == [outcome |-> "error", server |-> NoName, identity |-> NoName]

Panics == [outcome |-> "panic", server |-> NoName, identity |-> NoName]

(***************************************************************************)
(* A missing cluster or user is an error; a missing context is a nil       *)
(* pointer in c.Contexts, and the next line takes its Cluster.             *)
(***************************************************************************)
restConfigFromAPIConfig(k) ==
  CASE k.current = NoName -> Fails
    [] k.current # NoName /\ k.current \notin DOMAIN k.contexts -> Panics
    [] OTHER ->
         LET context == k.contexts[k.current]
         IN IF context.cluster \in DOMAIN k.clusters /\ context.user \in DOMAIN k.users
            THEN Returns(k.clusters[context.cluster], k.users[context.user])
            ELSE Fails

NewRestConfig(content) ==
  IF content = Unparsable THEN Fails ELSE restConfigFromAPIConfig(content)

(***************************************************************************)
(* A secret and the keys of its data, none when the data is nil.           *)
(***************************************************************************)
Secret(data) == [exists |-> TRUE, data |-> data]

NoData == [k \in {} |-> Unparsable]

NoSecret == [exists |-> FALSE, data |-> NoData]

(* Can the data be had at all? *)
GetSecretData(secret) == secret.exists /\ DOMAIN secret.data # {}

(***************************************************************************)
(* The part of GetProviderConfigRC after the ProviderConfig was read: what *)
(* its credentials call for next.  Outside a pod there is no injected      *)
(* identity, which is an error.                                            *)
(***************************************************************************)
CredentialsFrom(credentials) ==
  CASE credentials.source = "InjectedIdentity" /\ InPod -> "pod"
    [] credentials.source = "Secret" /\ credentials.key # NoKey -> "secret"
    [] OTHER -> "error"

(* And the part after the secret was read. *)
FromSecret(secret, key) ==
  IF GetSecretData(secret) /\ key \in DOMAIN secret.data
  THEN NewRestConfig(secret.data[key])
  ELSE Fails

-----------------------------------------------------------------------------
(***************************************************************************)
(* Where a kubeconfig leads, said without the code: to the server and the  *)
(* identity that its current context names, when it has all three.         *)
(***************************************************************************)
Targets(k) ==
  LET current == {k.contexts[n] : n \in DOMAIN k.contexts \cap ({k.current} \ {NoName})}
      whole   == [cluster : DOMAIN k.clusters, user : DOMAIN k.users]
  IN {Returns(k.clusters[c.cluster], k.users[c.user]) : c \in current \cap whole}

WellFormed(k) == Targets(k) # {}

(* A kubeconfig whose current context is named and missing. *)
Dangling(content) ==
  /\ content # Unparsable
  /\ content.current \notin {NoName} \cup DOMAIN content.contexts

Usable(credentials, secret) ==
  \/ credentials.source = "InjectedIdentity" /\ InPod
  \/ /\ credentials.source = "Secret"
     /\ secret.exists /\ credentials.key \in DOMAIN secret.data
     /\ secret.data[credentials.key] # Unparsable
     /\ WellFormed(secret.data[credentials.key])

(***************************************************************************)
(* A kubeconfig is understood: it gives the configuration it leads to, and *)
(* none when it leads nowhere (client.go:68).                              *)
(***************************************************************************)
Understood(k) ==
  LET result == NewRestConfig(k)
  IN IF WellFormed(k) THEN result \in Targets(k) ELSE result.outcome # "config"

=============================================================================
