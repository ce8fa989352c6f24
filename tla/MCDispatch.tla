------------------------------ MODULE MCDispatch ------------------------------
(***************************************************************************)
(* TLC instances of Dispatch: a battery charge of medium risk, a grid buy  *)
(* of high risk, both commanding one asset, and a maintenance advice.      *)
(***************************************************************************)
EXTENDS Dispatch, TLC

CONSTANTS charge, buy, advice, battery, grid, ann, bob, n1, n2, n3, n4

MCTarget == [a \in Actions |-> battery]
MCRisk == [a \in Actions |-> CASE a = charge -> "medium" [] a = buy -> "high" [] OTHER -> "low"]

(* One policy per way of routing: by approval, unattended for low risk     *)
(* only, unattended up to a medium risk.                                   *)
Approve == [mode |-> "APPROVAL_REQUIRED", max_action_risk |-> "low", safety_case_ref |-> FALSE]
BoundedLow == [mode |-> "AUTONOMOUS_BOUNDED", max_action_risk |-> "low", safety_case_ref |-> TRUE]
BoundedMedium == [BoundedLow EXCEPT !.max_action_risk = "medium"]
UnattendedPolicies == {BoundedLow, BoundedMedium}
ApprovalPolicies == {Approve}

Symmetry == Permutations(Nonces) \cup Permutations(Deciders)
=============================================================================
