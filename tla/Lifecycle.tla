----------------------------- MODULE Lifecycle -----------------------------
(***************************************************************************)
(* What a managed resource promises about its external resource, whatever  *)
(* controller is behind it: the external resource is created only under    *)
(* the hold of the finalizer, taken away only once the deletion of a       *)
(* resource with policy "Delete" was requested, and a resource with that   *)
(* policy does not go before its external resource is gone.                *)
(*                                                                         *)
(* No process, call, fault or crash appears here: a controller implements  *)
(* this specification when each of its steps is one of these or none.      *)
(* The constants weaken the promise for controllers that keep a part of it *)
(* only.                                                                   *)
(***************************************************************************)
CONSTANTS
  Unattended,   \* may others remove the external resource
  Abandons      \* may a resource go before its external resource

VARIABLES
  object,     \* the managed resource
  policy,     \* its deletion policy
  held,       \* does it carry the finalizer
  external    \* does the external resource exist

vars == <<object, policy, held, external>>

TypeOK ==
  /\ object \in {"absent", "live", "deleting"}
  /\ policy \in {"none", "Delete", "Orphan"}
  /\ held \in BOOLEAN
  /\ external \in BOOLEAN

Init ==
  /\ object = "absent"
  /\ policy = "none"
  /\ ~held
  /\ ~external

Request ==
  /\ object = "absent"
  /\ object' = "live"
  /\ policy' \in {"Delete", "Orphan"}
  /\ UNCHANGED <<held, external>>

Hold ==
  /\ object = "live" /\ ~held
  /\ held' = TRUE
  /\ UNCHANGED <<object, policy, external>>

(***************************************************************************)
(* A creation under way when the deletion is requested may still land.     *)
(***************************************************************************)
Provision ==
  /\ object # "absent" /\ held
  /\ ~external
  /\ external' = TRUE
  /\ UNCHANGED <<object, policy, held>>

RequestDeletion ==
  /\ object = "live"
  /\ IF held THEN object' = "deleting" /\ UNCHANGED policy
             ELSE object' = "absent" /\ policy' = "none"
  /\ UNCHANGED <<held, external>>

Withdraw ==
  /\ object = "deleting" /\ held /\ policy = "Delete"
  /\ external
  /\ external' = FALSE
  /\ UNCHANGED <<object, policy, held>>

Release ==
  /\ object = "deleting" /\ held
  /\ policy = "Delete" => ~external \/ Abandons
  /\ object' = "absent"
  /\ policy' = "none"
  /\ held' = FALSE
  /\ UNCHANGED external

Lose ==
  /\ Unattended
  /\ external
  /\ external' = FALSE
  /\ UNCHANGED <<object, policy, held>>

Next ==
  \/ Request
  \/ Hold
  \/ Provision
  \/ RequestDeletion
  \/ Withdraw
  \/ Release
  \/ Lose

Spec == Init /\ [][Next]_vars

=============================================================================
