----------------------------- MODULE MCApiRecords -----------------------------
(***************************************************************************)
(* TLC instance of ApiRecords: two transactions on the logs of two         *)
(* tenants; a database table that gates the optimizer and a meter feed     *)
(* that does not, the feed created exempt from maker and checker, with two *)
(* operators of whom neither is a platform admin.                          *)
(***************************************************************************)
EXTENDS ApiRecords, TLC

CONSTANTS acme, zeta, w1, w2, decided, dispatched,
          feed, table, alice, bob

MCKind == [c \in Connectors |-> IF c = table THEN "database" ELSE "iot"]
Symmetry == Permutations(Writers) \cup Permutations(Tenants) \cup Permutations(Bodies)
              \cup Permutations(Users)
=============================================================================
