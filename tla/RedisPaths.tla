------------------------------ MODULE RedisPaths ------------------------------
(***************************************************************************)
(* Two paths on which every command to Redis may fail on its own: that of  *)
(* a reading from the stream to the database, and that of a model call     *)
(* past the limiter and the breaker.  They use different keys and share no *)
(* row, so that a behaviour here is one of one path, and the other stands  *)
(* still.                                                                  *)
(***************************************************************************)
EXTENDS TelemetryPipeline, ModelGateway

VARIABLE path           \* the path this behaviour is one of

pathVars == <<path, vars, gatewayVars>>

PathsInit == path \in {"telemetry", "models"} /\ Init /\ GatewayInit

PathsNext ==
  /\ UNCHANGED path
  /\ \/ path = "telemetry" /\ Next /\ UNCHANGED gatewayVars
     \/ path = "models" /\ GatewayNext /\ UNCHANGED vars

(* The fairness of each path, as its module states it.                     *)
ConsumerStep ==
  path = "telemetry" /\ (Consumer \/ CommitFails) /\ UNCHANGED <<path, gatewayVars>>
WaiterStep ==
  path = "telemetry" /\ (WaitDone \/ WaitTimeout) /\ UNCHANGED <<path, gatewayVars>>
CallerStep(c) == path = "models" /\ Own(c) /\ UNCHANGED <<path, vars>>

PathsSpec ==
  /\ PathsInit /\ [][PathsNext]_pathVars
  /\ WF_pathVars(ConsumerStep) /\ WF_pathVars(WaiterStep)
  /\ \A c \in Callers : WF_pathVars(CallerStep(c))
=============================================================================
