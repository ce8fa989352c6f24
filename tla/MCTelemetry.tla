------------------------------ MODULE MCTelemetry ------------------------------
(***************************************************************************)
(* TLC instance of TelemetryPipeline on its own, for what it does not      *)
(* promise: two readings that are both fit to be stored.                   *)
(***************************************************************************)
EXTENDS TelemetryPipeline

MCGood == {[key |-> "k1", value |-> 1, fate |-> "good"],
           [key |-> "k2", value |-> 1, fate |-> "good"]}
=============================================================================
