---------------------------- MODULE MCInCluster ----------------------------
(***************************************************************************)
(* Small instances of InCluster for TLC.                                   *)
(***************************************************************************)
EXTENDS InCluster

CONSTANTS p1, p2, key, ctx, cluster, user

OneProc  == {p1}
TwoProcs == {p1, p2}

Injected == [source |-> "InjectedIdentity", key |-> NoKey]
Keyed    == [source |-> "Secret", key |-> key]
Keyless  == [source |-> "Secret", key |-> NoKey]

AllCredentials == {NoCredentials, Injected, Keyed, Keyless}
KeyedOrNone    == {NoCredentials, Keyed}

Referring == {[policy |-> "Delete", configRef |-> TRUE]}
AllSpecs  == Referring \cup {[policy |-> "Delete", configRef |-> FALSE]}

(***************************************************************************)
(* A kubeconfig that is complete, and one for each thing it may lack.      *)
(***************************************************************************)
Complete ==
  [current  |-> ctx,
   contexts |-> [c \in {ctx} |-> [cluster |-> cluster, user |-> user]],
   clusters |-> [c \in {cluster} |-> "server"],
   users    |-> [u \in {user} |-> "identity"]]

Undirected == [Complete EXCEPT !.current = NoName]
Severed    == [Complete EXCEPT !.contexts = [c \in {} |-> NoName]]
Serverless == [Complete EXCEPT !.clusters = [c \in {} |-> NoName]]
Anonymous  == [Complete EXCEPT !.users = [u \in {} |-> NoName]]

Holding(content) == [k \in {key} |-> content]

FewSecrets == {Secret(Holding(Complete)), Secret(Holding(Severed))}
AllSecrets == {NoSecret, Secret(NoData)} \cup
              {Secret(Holding(k)) : k \in {Unparsable, Complete, Undirected, Severed,
                                            Serverless, Anonymous}}

(***************************************************************************)
(* The kubeconfigs over two names, where a context may name a cluster or a *)
(* user that is missing, and the current one may be missing itself.        *)
(***************************************************************************)
Names == {ctx, cluster}

Some(values) == UNION {[names -> values] : names \in SUBSET Names}

Kubeconfigs ==
  [current  : Names \cup {NoName},
   contexts : Some([cluster : Names, user : Names]),
   clusters : Some({"server", "other server"}),
   users    : Some({"identity"})]

(***************************************************************************)
(* Every kubeconfig is understood, whatever it lacks: the server and the   *)
(* identity are those of the current context, and never those of another   *)
(* context or of an entry that has its name (client.go:68).                *)
(***************************************************************************)
ASSUME KubeconfigsUnderstood ==
  \A k \in Kubeconfigs : Understood(k)

=============================================================================
