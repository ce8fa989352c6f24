------------------------------- MODULE AgentWorker -------------------------------
(***************************************************************************)
(* The agent worker (agent/worker.py): it explains every decision the      *)
(* optimizer announces and runs the evaluations that model admins request  *)
(* (backend/app/routers/observability.py).                                 *)
(*                                                                         *)
(* One loop serves two streams in turn, new entries only, and acknowledges *)
(* whatever became of them.  A pass asks its agents one after the other    *)
(* and commits its findings and the status at its end.                     *)
(* An evaluation is kept single by a marker in Redis that the api sets and *)
(* the worker deletes, and that expires on its own.                        *)
(*                                                                         *)
(* Abstractions: one tenant; a model call is answered or fails closed      *)
(* (ModelGateway says when); agents are numbered in the order they are     *)
(* asked, the last but one being governance and the last the explanation.  *)
(***************************************************************************)
EXTENDS Integers, Sequences, FiniteSets

CONSTANTS Decisions,
          Agents,        \* model calls of a pass
          Cases,         \* model calls of an evaluation
          AgentBatch,    \* the count of xreadgroup
          MaxEvals,      \* bound: requests for an evaluation
          MaxExpiries, MaxFaults  \* bounds

ASSUME AgentAssumption ==
  /\ Agents \in Nat /\ Agents >= 2 /\ Cases \in Nat \ {0} /\ AgentBatch \in Nat \ {0}
  /\ {MaxEvals, MaxExpiries, MaxFaults} \subseteq Nat

VARIABLES status,      \* Decision.status, "none" before the decision exists
          answers,     \* Decision.reasoning: the agents that answered
          ready,       \* stream reo.decision.ready
          requests,    \* number of entries of stream reo.eval.request
          at,          \* where the loop stands
          hand,        \* decisions in hand
          evals,       \* evaluations in hand
          step,        \* model calls made in this pass or evaluation
          found,       \* the agents that answered in this pass
          proposed,    \* the session has set the status to "proposed"
          marker,      \* the in-flight marker is set
          api,         \* a request for an evaluation between marker and stream
          lost,        \* history: decisions whose pass failed or died
          expiries,    \* history: markers that expired under an evaluation
          struck,      \* history: since the marker was last set, Redis or the
                       \*   process failed where a marker could be left behind
          asked, faults

decisionRows == <<status, answers>>
streams == <<ready, requests>>
work == <<hand, evals, step, found, proposed>>
evalGuard == <<marker, api>>
agentVars == <<decisionRows, streams, at, work, evalGuard, lost, expiries, struck, asked, faults>>

Unexplained == {0}
Governance == Agents - 1
Idle == hand = <<>> /\ evals = 0
Fault == faults < MaxFaults /\ faults' = faults + 1

AgentInit ==
  /\ status = [d \in Decisions |-> "none"]
  /\ answers = [d \in Decisions |-> Unexplained]
  /\ ready = <<>> /\ requests = 0
  /\ at = "decisions" /\ hand = <<>> /\ evals = 0
  /\ step = 0 /\ found = {} /\ proposed = FALSE
  /\ marker = FALSE /\ api = "idle"
  /\ lost = {} /\ expiries = 0 /\ struck = FALSE /\ asked = 0 /\ faults = 0

-----------------------------------------------------------------------------
(* run_cycle commits a decision and announces it; the announcement may     *)
(* fail on its own.                                                        *)
Announce(d, s) ==
  /\ status[d] = "none"
  /\ status' = [status EXCEPT ![d] = s]
  /\ ready' = Append(ready, d)
  /\ UNCHANGED <<answers, requests, at, work, evalGuard, lost, expiries, struck, asked, faults>>

AnnounceFails(d, s) ==
  /\ status[d] = "none"
  /\ Fault
  /\ status' = [status EXCEPT ![d] = s]
  /\ lost' = lost \union {d}
  /\ UNCHANGED <<answers, streams, at, work, evalGuard, expiries, struck, asked>>

-----------------------------------------------------------------------------
(* trigger_eval_run: SET NX, then publish.                                 *)
(* Mutant: the marker is set whether or not it was.                        *)
RequestAnyway ==
  /\ api = "idle" /\ asked < MaxEvals
  /\ asked' = asked + 1
  /\ marker' = TRUE /\ api' = "marked" /\ struck' = FALSE
  /\ UNCHANGED <<decisionRows, streams, at, work, lost, expiries, faults>>

RequestEval ==
  /\ api = "idle" /\ ~marker /\ asked < MaxEvals
  /\ asked' = asked + 1
  /\ marker' = TRUE /\ api' = "marked" /\ struck' = FALSE
  /\ UNCHANGED <<decisionRows, streams, at, work, lost, expiries, faults>>

QueueEval ==
  /\ api = "marked"
  /\ api' = "idle"
  /\ requests' = requests + 1
  /\ UNCHANGED <<decisionRows, ready, at, work, marker, lost, expiries, struck, asked, faults>>

(* The publish raises, or the api dies: the marker stays.                  *)
QueueEvalFails ==
  /\ api = "marked"
  /\ Fault
  /\ api' = "idle" /\ struck' = TRUE
  /\ UNCHANGED <<decisionRows, streams, at, work, marker, lost, expiries, asked>>

(* Evaluations that are about to be queued, queued or in hand.             *)
Pending == requests + evals + (IF api = "marked" THEN 1 ELSE 0)

MarkerExpires ==
  /\ marker /\ marker' = FALSE
  /\ \/ Pending = 0 /\ UNCHANGED expiries
     \/ Pending > 0 /\ expiries < MaxExpiries /\ expiries' = expiries + 1
  /\ UNCHANGED <<decisionRows, streams, at, work, api, lost, struck, asked, faults>>

-----------------------------------------------------------------------------
(* The loop, first half: a batch of decisions.                             *)
ConsumeDecisions ==
  /\ at = "decisions" /\ Idle
  /\ LET n == IF Len(ready) < AgentBatch THEN Len(ready) ELSE AgentBatch IN
       /\ hand' = SubSeq(ready, 1, n)
       /\ ready' = SubSeq(ready, n + 1, Len(ready))
       /\ at' = IF n = 0 THEN "evals" ELSE "pass"
  /\ UNCHANGED <<decisionRows, requests, evals, step, found, proposed, evalGuard, lost,
                 expiries, struck, asked, faults>>

(* Mutant: governance's status is committed at once.                       *)
AskAndWrite ==
  /\ at = "pass" /\ step < Agents
  /\ step' = step + 1
  /\ \E answered, approval \in BOOLEAN :
       /\ approval => answered /\ step' = Governance
       /\ found' = IF answered THEN found \union {step'} ELSE found
       /\ status' = IF approval THEN [status EXCEPT ![Head(hand)] = "proposed"] ELSE status
  /\ UNCHANGED <<answers, streams, at, hand, evals, proposed, evalGuard, lost,
                 expiries, struck, asked, faults>>

(* The next agent is asked; if it fails closed the pass goes on.           *)
AskAgent ==
  /\ at = "pass" /\ step < Agents
  /\ step' = step + 1
  /\ \E answered, approval \in BOOLEAN :
       /\ approval => answered /\ step' = Governance
       /\ found' = IF answered THEN found \union {step'} ELSE found
       /\ proposed' = (proposed \/ approval)
  /\ UNCHANGED <<decisionRows, streams, at, hand, evals, evalGuard, lost,
                 expiries, struck, asked, faults>>

NextDecision ==
  /\ hand' = Tail(hand)
  /\ at' = IF Len(hand) = 1 THEN "evals" ELSE "pass"
  /\ step' = 0 /\ found' = {} /\ proposed' = FALSE
  /\ UNCHANGED evals

CommitPass ==
  /\ at = "pass" /\ step = Agents
  /\ answers' = [answers EXCEPT ![Head(hand)] = found]
  /\ status' = IF proposed THEN [status EXCEPT ![Head(hand)] = "proposed"] ELSE status
  /\ NextDecision
  /\ UNCHANGED <<streams, evalGuard, lost, expiries, struck, asked, faults>>

(* Mutant: an exception ends the batch.                                    *)
PassFailsBatch ==
  /\ at = "pass"
  /\ Fault
  /\ lost' = lost \union {Head(hand)}
  /\ hand' = <<>> /\ at' = "evals" /\ step' = 0 /\ found' = {} /\ proposed' = FALSE
  /\ UNCHANGED <<decisionRows, streams, evals, evalGuard, expiries, struck, asked>>

(* An exception that is no GatewayError, or a commit that fails: rolled    *)
(* back, acknowledged, not retried.                                        *)
PassFails ==
  /\ at = "pass"
  /\ Fault
  /\ lost' = lost \union {Head(hand)}
  /\ NextDecision
  /\ UNCHANGED <<decisionRows, streams, evalGuard, expiries, struck, asked>>

-----------------------------------------------------------------------------
(* Second half: a batch of evaluations.                                    *)
ConsumeEvals ==
  /\ at = "evals" /\ Idle
  /\ LET n == IF requests < AgentBatch THEN requests ELSE AgentBatch IN
       /\ evals' = n /\ requests' = requests - n
       /\ at' = IF n = 0 THEN "decisions" ELSE "eval"
  /\ UNCHANGED <<decisionRows, ready, hand, step, found, proposed, evalGuard, lost,
                 expiries, struck, asked, faults>>

RunCase ==
  /\ at = "eval" /\ step < Cases
  /\ step' = step + 1
  /\ UNCHANGED <<decisionRows, streams, at, hand, evals, found, proposed, evalGuard, lost,
                 expiries, struck, asked, faults>>

(* The request is acknowledged, and the next one of the batch is taken.    *)
EvalOver ==
  /\ evals' = evals - 1
  /\ at' = IF evals = 1 THEN "decisions" ELSE "eval"
  /\ step' = 0
  /\ UNCHANGED <<decisionRows, streams, hand, found, proposed, lost, expiries, asked>>

CommitEval ==
  /\ at = "eval" /\ step = Cases
  /\ step' = 0 /\ at' = "clearing"
  /\ UNCHANGED <<decisionRows, streams, hand, evals, found, proposed, evalGuard, lost,
                 expiries, struck, asked, faults>>

(* Mutant: the marker is cleared at the end of the try, not in a finally.  *)
EvalFailsOut ==
  /\ at = "eval"
  /\ EvalOver
  /\ UNCHANGED <<evalGuard, struck, faults>>

(* An exception in a case or at the commit: raised on, past the finally.   *)
EvalFails ==
  /\ at = "eval"
  /\ step' = 0 /\ at' = "clearing"
  /\ UNCHANGED <<decisionRows, streams, hand, evals, found, proposed, evalGuard, lost,
                 expiries, struck, asked, faults>>

(* An exception before the try: the gateway or the session is not made.    *)
EvalNotStarted ==
  /\ at = "eval" /\ step = 0
  /\ Fault
  /\ EvalOver
  /\ struck' = TRUE
  /\ UNCHANGED evalGuard

(* finally: the marker is deleted, whoever set it.                         *)
ClearMarker ==
  /\ at = "clearing"
  /\ EvalOver
  /\ marker' = FALSE
  /\ UNCHANGED <<api, struck, faults>>

ClearMarkerFails ==
  /\ at = "clearing"
  /\ Fault
  /\ EvalOver
  /\ struck' = TRUE
  /\ UNCHANGED evalGuard

-----------------------------------------------------------------------------
(* The process dies and is restarted; what it had in hand is never handed  *)
(* out again.                                                              *)
AgentCrash ==
  /\ at # "down"
  /\ Fault
  /\ at' = "down"
  /\ lost' = lost \union {hand[i] : i \in DOMAIN hand}
  /\ hand' = <<>> /\ evals' = 0 /\ step' = 0 /\ found' = {} /\ proposed' = FALSE
  /\ struck' = TRUE
  /\ UNCHANGED <<decisionRows, streams, evalGuard, expiries, asked>>

AgentRestart ==
  /\ at = "down" /\ at' = "decisions"
  /\ UNCHANGED <<decisionRows, streams, work, evalGuard, lost, expiries, struck, asked, faults>>

AgentLoop ==
  \/ ConsumeDecisions \/ AskAgent \/ CommitPass
  \/ ConsumeEvals \/ RunCase \/ CommitEval \/ ClearMarker \/ AgentRestart

AgentNext ==
  \/ \E d \in Decisions, s \in {"proposed", "failed"} : Announce(d, s) \/ AnnounceFails(d, s)
  \/ RequestEval \/ QueueEval \/ QueueEvalFails \/ MarkerExpires
  \/ AgentLoop \/ PassFails \/ EvalFails \/ EvalNotStarted \/ ClearMarkerFails \/ AgentCrash

AgentSpec == AgentInit /\ [][AgentNext]_agentVars
(* The loop runs and is restarted by its supervisor.                       *)
AgentFairSpec == AgentSpec /\ WF_agentVars(AgentLoop)

-----------------------------------------------------------------------------
(* events.py: "at most one evaluation run per tenant is queued or          *)
(* running".  True as long as the marker does not expire under a run that  *)
(* waits behind decisions; every expiry lets in one more at most, although *)
(* each run deletes the marker of whichever run set it.                    *)
EvalsBounded == Pending <= 1 + expiries

(* The dashboard can start an evaluation again as soon as the last one has *)
(* ended, by its commit or by an exception of a model or of the database:  *)
(* a marker stays behind, until it expires, only where since it was set    *)
(* its request was not queued, the worker died, an evaluation could not    *)
(* even start or Redis did not take the delete.                            *)
MarkerReleased == marker /\ Pending = 0 => struck

(* A reader of a decision sees no half-written pass: governance's status   *)
(* comes with the explanation, and an explanation is written once.         *)
PassAtomic ==
  [][\A d \in Decisions :
       /\ answers[d] # Unexplained => answers'[d] = answers[d] /\ status'[d] = status[d]
       /\ status[d] # "none" /\ status'[d] # status[d] => answers'[d] # Unexplained]_agentVars

(* Every decision is explained, in full or by the agents that answered,    *)
(* whatever happens to the decisions before it in the batch; only the pass *)
(* a fault hit is not, since nothing is retried.                           *)
ExplainedOrLost ==
  \A d \in Decisions :
    status[d] # "none" ~> answers[d] # Unexplained \/ d \in lost
=============================================================================
