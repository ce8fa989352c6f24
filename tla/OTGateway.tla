------------------------------ MODULE OTGateway ------------------------------
(***************************************************************************)
(* The OT command gateway (guardrails/ot-gateway-sim/main.py): a separate  *)
(* service that receives prepare and commit requests over HTTP, validates  *)
(* each against state it reads itself, and executes a command by writing   *)
(* a telemetry row.  A dispatch attempt is identified by its nonce.        *)
(*                                                                         *)
(* Everything the gateway reads about a target asset (live outage          *)
(* scenario, registry row, freshness and quality of its last reading,      *)
(* battery state of charge) is abstracted to one bit, "the asset may be    *)
(* commanded now", that the environment changes at any time.               *)
(***************************************************************************)
EXTENDS Naturals, FiniteSets

CONSTANTS
    Nonces,         \* dispatch attempts; their number bounds the dispatches of a run
    Actions,        \* dispatchable or advisory actions of all decisions
    Assets,         \* commandable assets
    Target,         \* the asset each action commands
    AdvisoryOnly,   \* the actions of an advisory type (maintenance_advice)
    OverEnvelope,   \* the actions whose setpoint exceeds their envelope's max_kw
    MaxTime,        \* bound on the clock
    NoRequest       \* a nonce that no request carries yet

ASSUME GatewayAssumption ==
    /\ Target \in [Actions -> Assets]
    /\ AdvisoryOnly \subseteq Actions
    /\ OverEnvelope \subseteq Actions
    /\ MaxTime \in Nat

VARIABLES
    clock,          \* wall-clock time, in units of the approval window
    estop,          \* the tenant's e-stop key in Redis
    commandable,    \* assets whose fresh state the gateway would trust
    request,        \* request[n]: the body of the requests carrying nonce n
    gw              \* gw[n]: where the gateway stands with nonce n

gatewayVars == <<clock, estop, commandable, request, gw>>

(* CommandRequest: the fields the gateway's decisions depend on.           *)
CommandRequest == [action : Actions, validity_end : Nat]

(* "preparing" and "committing": the request is at the gateway, unanswered.*)
(* "cleared": the commit handler passed its own check and sleeps through   *)
(* the dispatch latency.  "executed": the telemetry row is written.        *)
GatewayStates == {"none", "preparing", "ready", "refused",
                  "committing", "cleared", "nacked", "executed", "crashed"}

GatewayTypeOK ==
    /\ clock \in 0..MaxTime
    /\ estop \in BOOLEAN
    /\ commandable \in SUBSET Assets
    /\ request \in [Nonces -> CommandRequest \cup {NoRequest}]
    /\ gw \in [Nonces -> GatewayStates]

GatewayInit ==
    /\ clock = 0
    /\ estop = FALSE
    /\ commandable = Assets
    /\ request = [n \in Nonces |-> NoRequest]
    /\ gw = [n \in Nonces |-> "none"]

-----------------------------------------------------------------------------
(* Mutant: the e-stop is forgotten.                                        *)
ValidateIgnoringEstop(n) ==
    /\ request[n].action \notin AdvisoryOnly
    /\ clock <= request[n].validity_end
    /\ request[n].action \notin OverEnvelope
    /\ Target[request[n].action] \in commandable

(* _independent_validate: run on prepare and again on commit.              *)
IndependentValidate(n) ==
    /\ request[n].action \notin AdvisoryOnly
    /\ ~estop
    /\ clock <= request[n].validity_end
    /\ request[n].action \notin OverEnvelope
    /\ Target[request[n].action] \in commandable

(* POST /commands/prepare: answers, and changes nothing else.              *)
Prepare(n) ==
    /\ gw[n] = "preparing"
    /\ gw' = [gw EXCEPT ![n] = IF IndependentValidate(n) THEN "ready" ELSE "refused"]
    /\ UNCHANGED <<clock, estop, commandable, request>>

(* Mutant: commit trusts the answer prepare gave.                          *)
CommitTrusting(n) ==
    /\ gw[n] = "committing"
    /\ gw' = [gw EXCEPT ![n] = "cleared"]
    /\ UNCHANGED <<clock, estop, commandable, request>>

(* POST /commands/commit up to its sleep: the same check, run again.       *)
CommitCheck(n) ==
    /\ gw[n] = "committing"
    /\ gw' = [gw EXCEPT ![n] = IF IndependentValidate(n) THEN "cleared" ELSE "nacked"]
    /\ UNCHANGED <<clock, estop, commandable, request>>

(* After the sleep: the simulated acknowledgement failure ...              *)
ScadaFault(n) ==
    /\ gw[n] = "cleared"
    /\ gw' = [gw EXCEPT ![n] = "nacked"]
    /\ UNCHANGED <<clock, estop, commandable, request>>

(* ... or the execution.  Nothing is validated again after the sleep, and  *)
(* neither the nonce nor the idempotency key of the request is looked at.  *)
Execute(n) ==
    /\ gw[n] = "cleared"
    /\ gw' = [gw EXCEPT ![n] = "executed"]
    /\ UNCHANGED <<clock, estop, commandable, request>>

(* The gateway never answers: the request is not delivered, or its handler *)
(* raises or dies before it executes.                                      *)
GatewayCrash(n) ==
    /\ gw[n] \in {"preparing", "committing", "cleared"}
    /\ gw' = [gw EXCEPT ![n] = "crashed"]
    /\ UNCHANGED <<clock, estop, commandable, request>>

(* POST /estop on the gateway, and POST /governance/e-stop on the api: both*)
(* set or delete the same key.                                             *)
SetEstop(active) ==
    /\ estop' = active
    /\ UNCHANGED <<clock, commandable, request, gw>>

-----------------------------------------------------------------------------
(* The environment: time, and the state of the assets.                     *)
Tick ==
    /\ clock < MaxTime
    /\ clock' = clock + 1
    /\ UNCHANGED <<estop, commandable, request, gw>>

AssetStateChanges ==
    /\ commandable' \in SUBSET Assets
    /\ UNCHANGED <<clock, estop, request, gw>>

GatewayStep(n) ==
    Prepare(n) \/ CommitCheck(n) \/ ScadaFault(n) \/ Execute(n) \/ GatewayCrash(n)

GatewayNext ==
    \/ \E n \in Nonces : GatewayStep(n)
    \/ \E active \in BOOLEAN : SetEstop(active)
    \/ Tick
    \/ AssetStateChanges

(* What the rest of the system may know of a nonce's fate.                 *)
Executed(n) == gw[n] = "executed"
InFlight == {n \in Nonces : gw[n] = "cleared"}
=============================================================================
