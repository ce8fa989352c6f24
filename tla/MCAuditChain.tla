----------------------------- MODULE MCAuditChain -----------------------------
(***************************************************************************)
(* TLC instances of AuditChain on its own, for what it does not promise.   *)
(***************************************************************************)
EXTENDS AuditChain, TLC

CONSTANTS acme, zeta, w1, w2, decided, dispatched

Symmetry == Permutations(Writers) \cup Permutations(Tenants) \cup Permutations(Bodies)
=============================================================================
