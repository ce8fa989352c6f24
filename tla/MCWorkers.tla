------------------------------ MODULE MCWorkers ------------------------------
(* The optimizer worker with two tenants, batches smaller than the stream  *)
(* and one crash; the agent worker with two decisions in one batch, three  *)
(* agents and three requests for an evaluation of one case.                *)
EXTENDS Workers

CONSTANTS t1, t2, d1, d2
MCTenants == {t1, t2}
MCDecisions == {d1, d2}
=============================================================================
