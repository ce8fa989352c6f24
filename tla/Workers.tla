------------------------------- MODULE Workers -------------------------------
(***************************************************************************)
(* The two workers that take their work from a stream: the optimizer worker*)
(* and the agent worker, each a process of its own.  What one hands to the *)
(* other, a decision to explain, the agent worker takes in any order and at*)
(* any time (Announce), so that neither tells the other anything more: a   *)
(* behaviour here is one of one worker, and the other stands still.        *)
(***************************************************************************)
EXTENDS OptimizerWorker, AgentWorker

VARIABLE worker         \* the worker this behaviour is one of

workerVars == <<worker, vars, agentVars>>

WorkersInit == worker \in {"optimizer", "agents"} /\ Init /\ AgentInit

WorkersNext ==
  /\ UNCHANGED worker
  /\ \/ worker = "optimizer" /\ Next /\ UNCHANGED agentVars
     \/ worker = "agents" /\ AgentNext /\ UNCHANGED vars

(* The fairness of each worker, as its module states it.                   *)
OptimizerStep == worker = "optimizer" /\ Worker /\ UNCHANGED <<worker, agentVars>>
TimeStep == worker = "optimizer" /\ Tick /\ UNCHANGED <<worker, agentVars>>
AgentStep == worker = "agents" /\ AgentLoop /\ UNCHANGED <<worker, vars>>

WorkersSpec ==
  /\ WorkersInit /\ [][WorkersNext]_workerVars
  /\ WF_workerVars(OptimizerStep) /\ WF_workerVars(TimeStep) /\ WF_workerVars(AgentStep)
=============================================================================
