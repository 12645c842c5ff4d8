----------------------------- MODULE MCOperator -----------------------------
(***************************************************************************)
(* Small instances of Operator for TLC.                                    *)
(***************************************************************************)
EXTENDS OperatorInvariant

CONSTANTS p1, p2

OneProc  == {p1}
TwoProcs == {p1, p2}

DeletePolicy == {[policy |-> "Delete"]}
BothPolicies == {[policy |-> "Delete"], [policy |-> "Orphan"]}

=============================================================================
