---------------------------- MODULE Workers_proofs ----------------------------
(***************************************************************************)
(* Proofs about the two workers, for any number of tenants, decisions,     *)
(* agents, requests and faults, and any cadence: a decision earns its      *)
(* tenant the full cadence, evaluations stay bounded and their marker is   *)
(* released, and a pass of the agents is seen whole or not at all; and     *)
(* that the composition of the two is a behaviour of each.                 *)
(***************************************************************************)
EXTENDS Workers, TLAPS, SequenceTheorems

-----------------------------------------------------------------------------
(* The optimizer worker.  The loop keeps one due time for all tenants.  The*)
(* invariant relates it to what it stands for: no tenant's cadence outlasts*)
(* the due time, and while a sweep is under way, when the due time is past,*)
(* the tenants it has still to visit have no cadence left and those with   *)
(* one left were planned for in this sweep.                                *)

(* The typing the argument needs.                                          *)
Typed ==
  /\ running \subseteq Tenants /\ sweep \subseteq Tenants
  /\ pc \in {"consume", "on_demand", "sweep", "down"}
  /\ due \in Nat /\ planned \in BOOLEAN
  /\ quiet \in [Tenants -> 0..Cycle]

(* Before a sweep the due time covers every cadence.                       *)
Covered == pc \in {"consume", "on_demand"} => \A t \in Tenants : quiet[t] <= due

(* In a sweep the tenants to come are free, and a cadence means planned.   *)
Sweeping ==
  pc = "sweep" =>
    /\ due = 0
    /\ \A t \in sweep : quiet[t] = 0
    /\ \A t \in Tenants : quiet[t] > 0 => planned

CadenceInv == Typed /\ Covered /\ Sweeping

(* A decision on demand resets both the due time and the cadence of its    *)
(* tenant; what came to nothing resets neither.                            *)
LEMMA RequestKeeps ==
  ASSUME CadenceInv, ServeRequest
  PROVE  CadenceInv'
<1> USE WorkerAssumption
<1>1. /\ pc = "on_demand" /\ pc' = pc
      /\ UNCHANGED <<running, sweep, planned>>
  BY DEF ServeRequest, Serve
<1> DEFINE h == Head(batch)
<1>2. PICK decided \in BOOLEAN :
        /\ quiet' = IF decided THEN [quiet EXCEPT ![h] = Cycle] ELSE quiet
        /\ due' = IF decided THEN Cycle ELSE due
  BY DEF ServeRequest, Serve
<1> HIDE DEF h
<1>3. CASE decided
  <2>1. quiet' = [quiet EXCEPT ![h] = Cycle] /\ due' = Cycle
    BY <1>2, <1>3
  <2>2. quiet' \in [Tenants -> 0..Cycle]
    <3>1. quiet' = [t \in Tenants |-> IF t = h THEN Cycle ELSE quiet[t]]
      BY <2>1 DEF CadenceInv, Typed
    <3>2. \A t \in Tenants : quiet[t] \in 0..Cycle
      BY DEF CadenceInv, Typed
    <3>3. Cycle \in 0..Cycle
      OBVIOUS
    <3> QED
      BY <3>1, <3>2, <3>3
  <2>3. \A t \in Tenants : quiet'[t] <= due'
    BY <2>1, <2>2
  <2> QED
    BY <1>1, <2>1, <2>2, <2>3 DEF CadenceInv, Typed, Covered, Sweeping
<1>4. CASE ~decided
  <2>1. quiet' = quiet /\ due' = due
    BY <1>2, <1>4
  <2> QED
    BY <1>1, <2>1 DEF CadenceInv, Typed, Covered, Sweeping
<1> QED
  BY <1>3, <1>4

(* A tenant that was visited leaves the list, so that its new cadence does *)
(* not touch those to come.                                                *)
LEMMA ScheduledKeeps ==
  ASSUME CadenceInv, NEW t \in Tenants, ServeScheduled(t)
  PROVE  CadenceInv'
<1> USE WorkerAssumption
<1>1. /\ pc = "sweep" /\ pc' = pc /\ t \in sweep /\ sweep' = sweep \ {t}
      /\ UNCHANGED <<running, due>>
  BY DEF ServeScheduled, Serve
<1>2. PICK decided \in BOOLEAN :
        /\ quiet' = IF decided THEN [quiet EXCEPT ![t] = Cycle] ELSE quiet
        /\ planned' = (planned \/ decided)
  BY DEF ServeScheduled, Serve
<1>3. CASE decided
  <2>1. quiet' = [quiet EXCEPT ![t] = Cycle] /\ planned' = TRUE
    BY <1>2, <1>3
  <2>2. quiet' \in [Tenants -> 0..Cycle]
    BY <2>1 DEF CadenceInv, Typed
  <2>3. \A u \in sweep' : quiet'[u] = 0
    BY <1>1, <2>1 DEF CadenceInv, Typed, Sweeping
  <2> QED
    BY <1>1, <2>1, <2>2, <2>3 DEF CadenceInv, Typed, Covered, Sweeping
<1>4. CASE ~decided
  <2>1. quiet' = quiet /\ planned' = planned
    BY <1>2, <1>4 DEF CadenceInv, Typed
  <2> QED
    BY <1>1, <2>1 DEF CadenceInv, Typed, Covered, Sweeping
<1> QED
  BY <1>3, <1>4

(* Due time and cadences run down together.                                *)
LEMMA TickKeeps ==
  ASSUME CadenceInv, Tick
  PROVE  CadenceInv'
<1> USE WorkerAssumption
<1>1. /\ due' = IF due > 0 THEN due - 1 ELSE 0
      /\ quiet' = [t \in Tenants |-> IF quiet[t] > 0 THEN quiet[t] - 1 ELSE 0]
      /\ UNCHANGED <<running, sweep, planned, pc>>
  BY DEF Tick, loop
<1>2. due \in Nat /\ \A t \in Tenants : quiet[t] \in 0..Cycle
  BY DEF CadenceInv, Typed
<1>3. due' \in Nat /\ (due = 0 => due' = 0)
  BY <1>1, <1>2
<1>4. quiet' \in [Tenants -> 0..Cycle]
  BY <1>1, <1>2
<1>5. ASSUME NEW t \in Tenants
      PROVE  /\ quiet[t] = 0 => quiet'[t] = 0
             /\ quiet'[t] > 0 => quiet[t] > 0
             /\ quiet[t] <= due => quiet'[t] <= due'
  BY <1>1, <1>2
<1> QED
  BY <1>1, <1>3, <1>4, <1>5 DEF CadenceInv, Typed, Covered, Sweeping

(* The end of a sweep earns the full cadence if any tenant has one left.   *)
LEMMA SweepDoneKeeps ==
  ASSUME CadenceInv, SweepDone
  PROVE  CadenceInv'
<1> USE WorkerAssumption
<1>1. /\ pc = "sweep" /\ pc' = "consume" /\ due' = IF planned THEN Cycle ELSE Retry
      /\ planned' = FALSE
      /\ UNCHANGED <<running, sweep, quiet>>
  BY DEF SweepDone
<1>2. \A t \in Tenants : quiet[t] \in 0..Cycle /\ (quiet[t] > 0 => planned)
  BY <1>1 DEF CadenceInv, Typed, Sweeping
<1>3. due' \in Nat /\ \A t \in Tenants : quiet[t] <= due'
  <2>1. CASE planned
    BY <1>1, <1>2, <2>1
  <2>2. CASE ~planned
    BY <1>1, <1>2, <2>2
  <2> QED
    BY <2>1, <2>2
<1>4. planned' \in BOOLEAN
  BY <1>1
<1> QED
  BY <1>1, <1>3, <1>4 DEF CadenceInv, Typed, Covered, Sweeping

(* The initial states satisfy the invariant.                               *)
LEMMA CadenceInit == Init => CadenceInv
<1> SUFFICES ASSUME Init PROVE CadenceInv
  OBVIOUS
<1>1. /\ running = {} /\ sweep = {} /\ pc = "consume" /\ due = 0 /\ planned = FALSE
      /\ quiet = [t \in Tenants |-> 0]
  BY DEF Init
<1>2. 0 \in 0..Cycle
  BY WorkerAssumption
<1>3. Typed
  <2>1. quiet \in [Tenants -> 0..Cycle]
    BY <1>1, <1>2
  <2> QED
    BY <1>1, <2>1 DEF Typed
<1>4. Covered /\ Sweeping
  BY <1>1 DEF Covered, Sweeping
<1> QED
  BY <1>3, <1>4 DEF CadenceInv

(* Every step keeps the invariant.                                         *)
LEMMA CadenceStep == CadenceInv /\ [Next]_vars => CadenceInv'
<1> SUFFICES ASSUME CadenceInv, [Next]_vars PROVE CadenceInv'
  OBVIOUS
<1> USE WorkerAssumption DEF CadenceInv, Typed, Covered, Sweeping
<1>1. ASSUME NEW t \in Tenants, StartTenant(t) \/ StopTenant(t) \/ RequestCycle(t)
      PROVE  CadenceInv'
  BY <1>1 DEF StartTenant, StopTenant, RequestCycle, loop
<1>2. CASE Tick
  BY <1>2, TickKeeps
<1>3. CASE Consume
  BY <1>3 DEF Consume
<1>4. CASE ServeRequest
  BY <1>4, RequestKeeps
<1>5. CASE BatchDone
  <2>1. CASE due = 0
    <3>1. /\ pc = "on_demand" /\ pc' = "sweep" /\ sweep' = running /\ planned' = FALSE
          /\ UNCHANGED <<running, due, quiet>>
      BY <1>5, <2>1 DEF BatchDone
    <3>2. \A t \in Tenants : quiet[t] \in 0..Cycle /\ quiet[t] <= 0
      BY <2>1, <3>1
    <3>3. \A t \in Tenants : quiet[t] = 0
      BY <3>2
    <3>4. Typed'
      <4>1. planned' \in BOOLEAN
        BY <3>1
      <4> QED
        BY <3>1, <4>1
    <3>5. Covered' /\ Sweeping'
      BY <2>1, <3>1, <3>3
    <3> QED
      BY <3>4, <3>5
  <2>2. CASE due # 0
    BY <1>5, <2>2 DEF BatchDone
  <2> QED
    BY <2>1, <2>2
<1>6. CASE SweepDone
  BY <1>6, SweepDoneKeeps
<1>7. ASSUME NEW t \in Tenants, ServeScheduled(t)
      PROVE  CadenceInv'
  BY <1>7, ScheduledKeeps
<1>8. CASE Crash
  BY <1>8 DEF Crash
<1>9. CASE Restart
  BY <1>9 DEF Restart
<1>10. CASE UNCHANGED vars
  BY <1>10 DEF vars, loop
<1> QED
  BY <1>1, <1>2, <1>3, <1>4, <1>5, <1>6, <1>7, <1>8, <1>9, <1>10 DEF Next, Worker

(* Only a sweep serves a tenant as scheduled, and only one of its list.    *)
LEMMA ScheduledOnlyInSweep ==
  ASSUME [Next]_vars, served'.how = "scheduled", served' # served
  PROVE  \E t \in Tenants : pc = "sweep" /\ t \in sweep /\ served'.tenant = t
<1>1. CASE served' = Nothing
  BY <1>1 DEF Nothing
<1>2. CASE ServeRequest
  BY <1>2 DEF ServeRequest, Serve
<1>3. ASSUME NEW t \in Tenants, ServeScheduled(t)
      PROVE  pc = "sweep" /\ t \in sweep /\ served'.tenant = t
  BY <1>3 DEF ServeScheduled, Serve
<1> QED
  BY <1>1, <1>2, <1>3
     DEF Next, Worker, vars, StartTenant, StopTenant, RequestCycle, Tick, Consume, BatchDone,
         SweepDone, Restart, Crash

(* For any number of tenants and whichever of them fail: a decision of a   *)
(* tenant keeps the schedule from planning for it again before its cadence *)
(* has passed, unless the process restarts.                                *)
THEOREM FullCadenceCorrect == Spec => FullCadence
<1>1. CadenceInv /\ [Next]_vars =>
        [served'.how = "scheduled" /\ served' # served => quiet[served'.tenant] = 0]_vars
  <2> SUFFICES ASSUME CadenceInv, [Next]_vars, served'.how = "scheduled", served' # served
               PROVE  quiet[served'.tenant] = 0
    OBVIOUS
  <2>1. PICK t \in Tenants : pc = "sweep" /\ t \in sweep /\ served'.tenant = t
    BY ScheduledOnlyInSweep
  <2> QED
    BY <2>1 DEF CadenceInv, Sweeping
<1> QED
  BY <1>1, CadenceInit, CadenceStep, PTL DEF Spec, FullCadence

-----------------------------------------------------------------------------
(* The agent worker.  The bound on evaluations is not inductive: a request *)
(* is let in when the marker is not set, so the invariant has to say that  *)
(* there is room for one more whenever it is not (MarkerCovers).           *)

(* The counters are numbers; the worker holds an evaluation while it runs  *)
(* one.                                                                    *)
CountsOK ==
  /\ requests \in Nat /\ evals \in Nat /\ expiries \in Nat /\ faults \in Nat
  /\ marker \in BOOLEAN /\ struck \in BOOLEAN /\ api \in {"idle", "marked"}
  /\ at \in {"decisions", "pass", "evals", "eval", "clearing", "down"}
  /\ at \in {"eval", "clearing"} => evals > 0
  /\ at \in {"pass", "decisions", "evals", "down"} => evals = 0

(* Evaluations that no marker covers are paid for by an expiry.            *)
MarkerCovers == ~marker => Pending <= expiries

AgentInv == CountsOK /\ MarkerCovers /\ EvalsBounded /\ MarkerReleased

(* Steps that touch neither marker nor evaluations.                        *)
Quiet == UNCHANGED <<requests, evals, marker, api, expiries, struck>>

(* A step on decisions, or inside an evaluation, keeps the invariant.      *)
LEMMA QuietKeeps ==
  ASSUME AgentInv, Quiet, faults' \in Nat, faults' >= faults,
         at' = at \/ (evals = 0 /\ at' \in {"decisions", "pass", "evals", "down"})
                  \/ (at = "eval" /\ at' = "clearing")
  PROVE  AgentInv'
  BY DEF AgentInv, Quiet, CountsOK, MarkerCovers, EvalsBounded, MarkerReleased, Pending

(* The initial states satisfy the invariant.                               *)
LEMMA AgentInvInit == AgentInit => AgentInv
<1> SUFFICES ASSUME AgentInit PROVE AgentInv
  OBVIOUS
<1>1. /\ requests = 0 /\ evals = 0 /\ expiries = 0 /\ faults = 0
      /\ marker = FALSE /\ struck = FALSE /\ api = "idle" /\ at = "decisions"
  BY DEF AgentInit
<1>2. Pending = 0
  BY <1>1 DEF Pending
<1>3. CountsOK
  BY <1>1 DEF CountsOK
<1> QED
  BY <1>1, <1>2, <1>3 DEF AgentInv, MarkerCovers, EvalsBounded, MarkerReleased

(* Every step keeps the invariant.                                         *)
LEMMA AgentInvStep == AgentInv /\ [AgentNext]_agentVars => AgentInv'
<1> SUFFICES ASSUME AgentInv, [AgentNext]_agentVars PROVE AgentInv'
  OBVIOUS
<1> USE AgentAssumption
<1>1. CASE \E d \in Decisions, s \in {"proposed", "failed"} : Announce(d, s) \/ AnnounceFails(d, s)
  <2>1. Quiet /\ at' = at /\ (faults' = faults \/ faults' = faults + 1)
    BY <1>1 DEF Announce, AnnounceFails, Quiet, work, evalGuard, streams, Fault
  <2> QED
    BY <2>1, QuietKeeps DEF AgentInv, CountsOK
<1>2. CASE RequestEval
  <2>1. /\ api = "idle" /\ marker = FALSE /\ marker' = TRUE /\ api' = "marked"
        /\ struck' = FALSE /\ UNCHANGED <<requests, evals, at, expiries, faults>>
    BY <1>2 DEF RequestEval, streams, work, AgentInv, CountsOK
  <2>2. CountsOK'
    BY <2>1 DEF AgentInv, CountsOK
  <2>3. Pending' = Pending + 1 /\ Pending \in Nat
    BY <2>1 DEF AgentInv, CountsOK, Pending
  <2> QED
    BY <2>1, <2>2, <2>3 DEF AgentInv, CountsOK, MarkerCovers, EvalsBounded, MarkerReleased
<1>3. CASE QueueEval
  BY <1>3 DEF QueueEval, work, AgentInv, CountsOK, MarkerCovers, EvalsBounded, MarkerReleased, Pending
<1>4. CASE QueueEvalFails
  BY <1>4 DEF QueueEvalFails, Fault, streams, work, AgentInv, CountsOK, MarkerCovers, EvalsBounded,
              MarkerReleased, Pending
<1>5. CASE MarkerExpires
  <2>1. /\ marker' = FALSE /\ UNCHANGED <<requests, evals, at, api, struck, faults>>
        /\ (Pending = 0 /\ expiries' = expiries) \/ expiries' = expiries + 1
    BY <1>5 DEF MarkerExpires, streams, work
  <2>2. expiries \in Nat /\ expiries' \in Nat
    BY <2>1 DEF AgentInv, CountsOK
  <2>3. CountsOK'
    BY <2>1, <2>2 DEF AgentInv, CountsOK
  <2>4. Pending' = Pending /\ Pending \in Nat
    BY <2>1 DEF AgentInv, CountsOK, Pending
  <2>5. Pending <= expiries'
    <3>1. Pending <= 1 + expiries
      BY DEF AgentInv, EvalsBounded
    <3> QED
      BY <2>1, <2>2, <2>4, <3>1
  <2>6. Pending <= 1 + expiries'
    <3>1. \A p, e \in Nat : p <= e => p <= 1 + e
      OBVIOUS
    <3>2. Pending \in Nat
      BY <2>4
    <3> QED
      BY <2>2, <2>5, <3>1, <3>2
  <2> QED
    BY <2>1, <2>3, <2>4, <2>5, <2>6 DEF AgentInv, MarkerCovers, EvalsBounded, MarkerReleased
<1>6. CASE ConsumeDecisions
  <2>1. Quiet /\ faults' = faults /\ evals = 0 /\ at' \in {"pass", "evals"}
    BY <1>6 DEF ConsumeDecisions, Idle, Quiet, evalGuard
  <2> QED
    BY <2>1, QuietKeeps DEF AgentInv, CountsOK
<1>7. CASE AskAgent \/ RunCase
  <2>1. Quiet /\ faults' = faults /\ at' = at
    BY <1>7 DEF AskAgent, RunCase, Quiet, evalGuard, streams
  <2> QED
    BY <2>1, QuietKeeps DEF AgentInv, CountsOK
<1>8. CASE CommitPass \/ PassFails
  <2>1. Quiet /\ (faults' = faults \/ faults' = faults + 1) /\ at = "pass"
        /\ at' \in {"pass", "evals"}
    BY <1>8 DEF CommitPass, PassFails, NextDecision, Quiet, evalGuard, streams, Fault
  <2> QED
    BY <2>1, QuietKeeps DEF AgentInv, CountsOK
<1>9. CASE ConsumeEvals
  <2> DEFINE n == IF requests < AgentBatch THEN requests ELSE AgentBatch
  <2>1. /\ evals = 0 /\ evals' = n /\ requests' = requests - n
        /\ at' = IF n = 0 THEN "decisions" ELSE "eval"
        /\ UNCHANGED <<marker, api, expiries, struck, faults>>
    BY <1>9 DEF ConsumeEvals, Idle, evalGuard
  <2>2. n \in Nat /\ n <= requests
    BY DEF AgentInv, CountsOK
  <2> HIDE DEF n
  <2>3. CountsOK'
    <3>1. requests' \in Nat /\ evals' \in Nat
      BY <2>1, <2>2 DEF AgentInv, CountsOK
    <3>2. CASE n = 0
      BY <2>1, <3>1, <3>2 DEF AgentInv, CountsOK
    <3>3. CASE n > 0
      BY <2>1, <3>1, <3>3 DEF AgentInv, CountsOK
    <3> QED
      BY <2>2, <3>2, <3>3
  <2>4. Pending' = Pending
    BY <2>1, <2>2 DEF AgentInv, CountsOK, Pending
  <2> QED
    BY <2>1, <2>3, <2>4 DEF AgentInv, MarkerCovers, EvalsBounded, MarkerReleased
<1>10. CASE CommitEval \/ EvalFails
  <2>1. Quiet /\ faults' = faults /\ at = "eval" /\ at' = "clearing"
    BY <1>10 DEF CommitEval, EvalFails, Quiet, evalGuard, streams
  <2> QED
    BY <2>1, QuietKeeps DEF AgentInv, CountsOK
<1>11. CASE ClearMarker \/ ClearMarkerFails \/ EvalNotStarted
  <2>1. /\ at \in {"eval", "clearing"} /\ evals' = evals - 1
        /\ at' = IF evals = 1 THEN "decisions" ELSE "eval"
        /\ UNCHANGED <<requests, api, expiries>>
        /\ \/ marker' = FALSE /\ faults' = faults /\ struck' = struck
           \/ marker' = marker /\ faults' = faults + 1 /\ struck' = TRUE
    BY <1>11 DEF ClearMarker, ClearMarkerFails, EvalNotStarted, EvalOver, evalGuard, streams, Fault
  <2>2. CountsOK'
    <3>1. evals \in Nat /\ evals > 0 /\ faults \in Nat /\ marker \in BOOLEAN /\ struck \in BOOLEAN
      BY <2>1 DEF AgentInv, CountsOK
    <3>2. marker' \in BOOLEAN /\ struck' \in BOOLEAN /\ faults' \in Nat /\ evals' \in Nat
      <4>1. marker' \in BOOLEAN /\ struck' \in BOOLEAN
        BY <2>1, <3>1, Zenon
      <4>2. faults' \in Nat
        BY <2>1, <3>1
      <4>3. evals' \in Nat
        BY <2>1, <3>1
      <4> QED
        BY <4>1, <4>2, <4>3
    <3>3. CASE evals = 1
      <4>1. at' = "decisions" /\ evals' = 0
        BY <2>1, <3>3
      <4> QED
        BY <2>1, <3>2, <4>1 DEF AgentInv, CountsOK
    <3>4. CASE evals > 1
      <4>1. at' = "eval" /\ evals' > 0
        BY <2>1, <3>1, <3>4
      <4> QED
        BY <2>1, <3>2, <4>1 DEF AgentInv, CountsOK
    <3> QED
      BY <3>1, <3>3, <3>4
  <2>3. Pending' = Pending - 1 /\ Pending \in Nat
    BY <2>1 DEF AgentInv, CountsOK, Pending
  <2> QED
    BY <2>1, <2>2, <2>3 DEF AgentInv, CountsOK, MarkerCovers, EvalsBounded, MarkerReleased
<1>12. CASE AgentCrash
  BY <1>12 DEF AgentCrash, Fault, streams, evalGuard, AgentInv, CountsOK, MarkerCovers, EvalsBounded,
               MarkerReleased, Pending
<1>13. CASE AgentRestart
  <2>1. Quiet /\ faults' = faults /\ at = "down" /\ at' = "decisions"
    BY <1>13 DEF AgentRestart, Quiet, work, evalGuard, streams
  <2> QED
    BY <2>1, QuietKeeps DEF AgentInv, CountsOK
<1>14. CASE UNCHANGED agentVars
  <2>1. Quiet /\ faults' = faults /\ at' = at
    BY <1>14 DEF agentVars, Quiet, work, evalGuard, streams
  <2> QED
    BY <2>1, QuietKeeps DEF AgentInv, CountsOK
<1> QED
  BY <1>1, <1>2, <1>3, <1>4, <1>5, <1>6, <1>7, <1>8, <1>9, <1>10, <1>11, <1>12, <1>13, <1>14
     DEF AgentNext, AgentLoop

(* The invariant holds in every reachable state.                           *)
LEMMA AgentInvCorrect == AgentSpec => []AgentInv
  BY AgentInvInit, AgentInvStep, PTL DEF AgentSpec

(* However many evaluations are requested and whatever fails, there is     *)
(* never more than one at a time, and one more for each marker that        *)
(* expired under a run.                                                    *)
THEOREM EvalsBoundedCorrect == AgentSpec => []EvalsBounded
<1>1. AgentInv => EvalsBounded
  BY DEF AgentInv
<1> QED
  BY <1>1, AgentInvCorrect, PTL

(* A marker is only ever set for an evaluation that is queued or running,  *)
(* also after an expiry has let in a second one and however evaluations    *)
(* end, unless since it was set Redis or the process failed, or an         *)
(* evaluation could not start.                                             *)
THEOREM MarkerReleasedCorrect == AgentSpec => []MarkerReleased
<1>1. AgentInv => MarkerReleased
  BY DEF AgentInv
<1> QED
  BY <1>1, AgentInvCorrect, PTL

-----------------------------------------------------------------------------
(* A pass is seen whole or not at all.  What is in hand or still to come   *)
(* is explained by nobody, and no decision is there twice.                 *)
Coming(d) == \E i \in DOMAIN ready : ready[i] = d
Handed(d) == \E i \in DOMAIN hand : hand[i] = d

PassTyped ==
  /\ status = [d \in Decisions |-> status[d]] /\ answers = [d \in Decisions |-> answers[d]]
  /\ ready \in Seq(Decisions) /\ hand \in Seq(Decisions)
  /\ step \in Nat /\ 0 \notin found
  /\ at = "pass" => hand # <<>>

EachOnce ==
  /\ \A i, j \in DOMAIN ready : i # j => ready[i] # ready[j]
  /\ \A i, j \in DOMAIN hand : i # j => hand[i] # hand[j]
  /\ \A i \in DOMAIN hand, j \in DOMAIN ready : hand[i] # ready[j]

AwaitingExplanation ==
  \A d \in Decisions :
    /\ status[d] = "none" => answers[d] = Unexplained /\ ~Coming(d) /\ ~Handed(d)
    /\ Coming(d) \/ Handed(d) => answers[d] = Unexplained

PassInv == PassTyped /\ EachOnce /\ AwaitingExplanation

(* Steps that move no decision.                                            *)
LEMMA PassKept ==
  ASSUME PassInv, UNCHANGED <<status, answers, ready, hand>>, step' \in Nat, 0 \notin found',
         at' = "pass" => hand # <<>>
  PROVE  PassInv'
BY DEF PassInv, PassTyped, EachOnce, AwaitingExplanation, Coming, Handed

(* A decision is announced once, when it is made.                          *)
LEMMA AnnounceKeeps ==
  ASSUME PassInv, NEW d \in Decisions, NEW s \in {"proposed", "failed"},
         Announce(d, s) \/ AnnounceFails(d, s)
  PROVE  PassInv'
<1>1. /\ status[d] = "none" /\ status' = [status EXCEPT ![d] = s]
      /\ UNCHANGED <<answers, at, hand, step, found>>
      /\ ready' = Append(ready, d) \/ ready' = ready
  BY DEF Announce, AnnounceFails, work, streams
<1>2. /\ answers[d] = Unexplained /\ ~Coming(d) /\ ~Handed(d) /\ ready \in Seq(Decisions)
  BY <1>1 DEF PassInv, PassTyped, AwaitingExplanation
<1>3. /\ ready' \in Seq(Decisions)
      /\ \A i \in DOMAIN ready' : (i \in DOMAIN ready /\ ready'[i] = ready[i]) \/ ready'[i] = d
      /\ \A i, j \in DOMAIN ready' : ready'[i] = d /\ ready'[j] = d => i = j
  BY <1>1, <1>2 DEF Coming
<1>4. PassTyped'
  BY <1>1, <1>3 DEF PassInv, PassTyped
<1>5. EachOnce'
  <2>1. \A i, j \in DOMAIN ready' : i # j => ready'[i] # ready'[j]
    BY <1>2, <1>3 DEF PassInv, EachOnce, Coming
  <2>2. \A i \in DOMAIN hand, j \in DOMAIN ready' : hand[i] # ready'[j]
    BY <1>2, <1>3 DEF PassInv, EachOnce, Handed
  <2> QED
    BY <2>1, <2>2, <1>1 DEF PassInv, EachOnce
<1>6. AwaitingExplanation'
  <2> SUFFICES ASSUME NEW x \in Decisions
               PROVE  /\ status'[x] = "none" => answers[x] = Unexplained /\ ~Coming(x)' /\ ~Handed(x)
                      /\ Coming(x)' \/ Handed(x) => answers[x] = Unexplained
    BY <1>1 DEF AwaitingExplanation, Handed
  <2>1. x # d => (Coming(x)' => Coming(x)) /\ status'[x] = status[x]
    BY <1>1, <1>3 DEF Coming, PassInv, PassTyped
  <2>2. x = d => status'[x] # "none"
    BY <1>1 DEF PassInv, PassTyped
  <2> QED
    BY <2>1, <2>2, <1>2 DEF PassInv, AwaitingExplanation
<1> QED
  BY <1>4, <1>5, <1>6 DEF PassInv

(* A batch is the head of the stream, the rest stays.                      *)
LEMMA ConsumeKeeps ==
  ASSUME PassInv, ConsumeDecisions
  PROVE  PassInv'
<1> USE AgentAssumption
<1>1. PICK n \in Nat : /\ n <= Len(ready) /\ (n = 0 \/ n >= 1)
                       /\ hand' = SubSeq(ready, 1, n) /\ ready' = SubSeq(ready, n + 1, Len(ready))
                       /\ at' = IF n = 0 THEN "evals" ELSE "pass"
  <2> DEFINE k == IF Len(ready) < AgentBatch THEN Len(ready) ELSE AgentBatch
  <2>1. Len(ready) \in Nat /\ AgentBatch \in Nat
    BY DEF PassInv, PassTyped
  <2>2. k \in Nat /\ k <= Len(ready) /\ (k = 0 \/ k >= 1)
    BY <2>1
  <2>3. /\ hand' = SubSeq(ready, 1, k) /\ ready' = SubSeq(ready, k + 1, Len(ready))
        /\ at' = IF k = 0 THEN "evals" ELSE "pass"
    BY DEF ConsumeDecisions
  <2> HIDE DEF k
  <2> QED
    BY <2>2, <2>3
<1>2. ready \in Seq(Decisions) /\ hand = <<>> /\ UNCHANGED <<status, answers, step, found>>
  BY DEF ConsumeDecisions, Idle, PassInv, PassTyped, decisionRows
<1>3. /\ hand' \in Seq(Decisions) /\ Len(hand') = n
      /\ \A i \in 1..n : hand'[i] = ready[i]
  BY <1>1, <1>2
<1>4. /\ ready' \in Seq(Decisions) /\ Len(ready') = Len(ready) - n
      /\ \A i \in 1..(Len(ready) - n) : ready'[i] = ready[i + n]
  <2>1. \A i \in 1..(Len(ready) - n) : ready'[i] = ready[(n + 1) + i - 1]
    BY <1>1, <1>2, SubSeqProperties
  <2>2. \A i \in 1..(Len(ready) - n) : (n + 1) + i - 1 = i + n
    BY <1>1
  <2>3. ready' \in Seq(Decisions) /\ Len(ready') = Len(ready) - n
    BY <1>1, <1>2, SubSeqProperties
  <2> QED
    BY <2>1, <2>2, <2>3, Zenon
<1>5. PassTyped'
  BY <1>1, <1>2, <1>3, <1>4 DEF PassInv, PassTyped
<1>6. EachOnce'
  <2>1. \A i, j \in DOMAIN ready : i # j => ready[i] # ready[j]
    BY DEF PassInv, EachOnce
  <2>2. \A i, j \in DOMAIN ready' : i # j => ready'[i] # ready'[j]
    <3> SUFFICES ASSUME NEW i \in DOMAIN ready', NEW j \in DOMAIN ready', i # j
                 PROVE  ready'[i] # ready'[j]
      OBVIOUS
    <3>1. /\ Len(ready) \in Nat /\ DOMAIN ready = 1..Len(ready)
          /\ i \in 1..(Len(ready) - n) /\ j \in 1..(Len(ready) - n)
      BY <1>1, <1>2, <1>4
    <3>2. i + n \in DOMAIN ready /\ j + n \in DOMAIN ready /\ i + n # j + n
      BY <3>1, <1>1
    <3> QED
      BY <2>1, <3>1, <3>2, <1>4
  <2>3. \A i, j \in DOMAIN hand' : i # j => hand'[i] # hand'[j]
    BY <2>1, <1>1, <1>2, <1>3
  <2>4. \A i \in DOMAIN hand', j \in DOMAIN ready' : hand'[i] # ready'[j]
    BY <2>1, <1>1, <1>2, <1>3, <1>4
  <2> QED
    BY <2>2, <2>3, <2>4 DEF EachOnce
<1>7. \A d \in Decisions : Coming(d)' \/ Handed(d)' => Coming(d)
  <2>1. \A i \in DOMAIN ready' : i + n \in DOMAIN ready /\ ready'[i] = ready[i + n]
    <3> SUFFICES ASSUME NEW i \in DOMAIN ready'
                 PROVE  i + n \in DOMAIN ready /\ ready'[i] = ready[i + n]
      OBVIOUS
    <3>1. Len(ready) \in Nat /\ DOMAIN ready = 1..Len(ready) /\ i \in 1..(Len(ready) - n)
      BY <1>1, <1>2, <1>4
    <3> QED
      BY <3>1, <1>1, <1>4
  <2>2. \A i \in DOMAIN hand' : i \in DOMAIN ready /\ hand'[i] = ready[i]
    BY <1>1, <1>2, <1>3
  <2> QED
    BY <2>1, <2>2 DEF Coming, Handed
<1>8. AwaitingExplanation'
  BY <1>2, <1>7 DEF PassInv, AwaitingExplanation
<1> QED
  BY <1>5, <1>6, <1>8 DEF PassInv

(* What is left in hand, when a decision is done with.                     *)
LEMMA NextFacts ==
  ASSUME PassInv, at = "pass", NextDecision
  PROVE  /\ hand' \in Seq(Decisions) /\ Head(hand) \in Decisions /\ Handed(Head(hand))
         /\ \A i \in DOMAIN hand' : i + 1 \in DOMAIN hand /\ hand'[i] = hand[i + 1]
         /\ \A d \in Decisions : Handed(d)' => Handed(d) /\ d # Head(hand)
         /\ ~Coming(Head(hand))
         /\ at' = "pass" => hand' # <<>>
         /\ step' = 0 /\ found' = {}
<1>1. hand \in Seq(Decisions) /\ hand # <<>> /\ hand' = Tail(hand)
  BY DEF NextDecision, PassInv, PassTyped
<1>2. /\ Head(hand) = hand[1] /\ 1 \in DOMAIN hand /\ hand' \in Seq(Decisions)
      /\ Len(hand') = Len(hand) - 1
      /\ \A i \in DOMAIN hand' : i + 1 \in DOMAIN hand /\ hand'[i] = hand[i + 1] /\ i + 1 # 1
  BY <1>1, HeadTailProperties
<1>3. \A d \in Decisions : Handed(d)' => Handed(d) /\ d # Head(hand)
  BY <1>2 DEF Handed, PassInv, EachOnce
<1>4. ~Coming(Head(hand)) /\ Handed(Head(hand)) /\ Head(hand) \in Decisions
  BY <1>1, <1>2 DEF Coming, Handed, PassInv, EachOnce
<1>5. at' = "pass" => hand' # <<>>
  BY <1>1, <1>2 DEF NextDecision
<1> QED
  BY <1>2, <1>3, <1>4, <1>5 DEF NextDecision

LEMMA NextKeeps ==
  ASSUME PassInv, at = "pass", NextDecision, ready' = ready,
         answers' = answers \/ (\E S : answers' = [answers EXCEPT ![Head(hand)] = S]),
         status' = status \/ status' = [status EXCEPT ![Head(hand)] = "proposed"]
  PROVE  PassInv'
<1> DEFINE h == Head(hand)
<1>1. /\ h \in Decisions /\ Handed(h) /\ ~Coming(h)
      /\ \A d \in Decisions : Handed(d)' => Handed(d) /\ d # h
      /\ hand' \in Seq(Decisions) /\ (at' = "pass" => hand' # <<>>)
      /\ step' = 0 /\ found' = {}
      /\ \A i \in DOMAIN hand' : i + 1 \in DOMAIN hand /\ hand'[i] = hand[i + 1]
  BY NextFacts
<1> HIDE DEF h
<1>2. /\ answers' = [d \in Decisions |-> answers'[d]] /\ status' = [d \in Decisions |-> status'[d]]
      /\ \A d \in Decisions \ {h} : answers'[d] = answers[d] /\ status'[d] = status[d]
      /\ status[h] # "none" /\ status'[h] # "none"
  BY <1>1 DEF PassInv, PassTyped, AwaitingExplanation, h
<1>3. PassTyped'
  BY <1>1, <1>2 DEF PassInv, PassTyped
<1>4. EachOnce'
  <2>1. \A i, j \in DOMAIN hand' : i # j => i + 1 # j + 1
    BY <1>1
  <2> QED
    BY <1>1, <2>1 DEF PassInv, EachOnce
<1>5. \A d \in Decisions : Coming(d)' <=> Coming(d)
  BY DEF Coming
<1>6. AwaitingExplanation'
  BY <1>1, <1>2, <1>5 DEF PassInv, AwaitingExplanation
<1> QED
  BY <1>3, <1>4, <1>6 DEF PassInv

LEMMA PassInit == AgentInit => PassInv
BY DEF AgentInit, PassInv, PassTyped, EachOnce, AwaitingExplanation, Coming, Handed

LEMMA PassStep == PassInv /\ [AgentNext]_agentVars => PassInv'
<1> SUFFICES ASSUME PassInv, [AgentNext]_agentVars PROVE PassInv'
  OBVIOUS
<1> DEFINE DecisionsStill == UNCHANGED <<status, answers, ready, hand>>
<1>1. CASE \E d \in Decisions, s \in {"proposed", "failed"} : Announce(d, s) \/ AnnounceFails(d, s)
  BY <1>1, AnnounceKeeps
<1>2. CASE ConsumeDecisions
  BY <1>2, ConsumeKeeps
<1>3. CASE CommitPass \/ PassFails
  <2>1. at = "pass" /\ NextDecision /\ ready' = ready
    BY <1>3 DEF CommitPass, PassFails, streams
  <2>2. answers' = answers \/ (\E S : answers' = [answers EXCEPT ![Head(hand)] = S])
    BY <1>3 DEF CommitPass, PassFails, decisionRows
  <2>3. status' = status \/ status' = [status EXCEPT ![Head(hand)] = "proposed"]
    BY <1>3 DEF CommitPass, PassFails, decisionRows
  <2> QED
    BY <2>1, <2>2, <2>3, NextKeeps
<1>4. CASE AskAgent
  <2>1. DecisionsStill /\ at' = at /\ step' = step + 1
        /\ (found' = found \/ found' = found \union {step'})
    BY <1>4 DEF AskAgent, decisionRows, streams
  <2>2. step' \in Nat /\ 0 \notin found' /\ (at' = "pass" => hand # <<>>)
    BY <2>1 DEF PassInv, PassTyped
  <2> QED
    BY <2>1, <2>2, PassKept
<1>5. CASE \/ RequestEval \/ QueueEval \/ QueueEvalFails \/ MarkerExpires
           \/ RunCase \/ CommitEval \/ EvalFails \/ ConsumeEvals \/ AgentRestart
           \/ ClearMarker \/ ClearMarkerFails \/ EvalNotStarted \/ UNCHANGED agentVars
  <2>1. DecisionsStill
    BY <1>5 DEF RequestEval, QueueEval, QueueEvalFails, MarkerExpires, RunCase, CommitEval,
         EvalFails, ConsumeEvals, AgentRestart, ClearMarker, ClearMarkerFails,
         EvalNotStarted, EvalOver,
         decisionRows, streams, work, agentVars
  <2>2. found' = found /\ (at' = "pass" => at = "pass")
    BY <1>5 DEF RequestEval, QueueEval, QueueEvalFails, MarkerExpires, RunCase, CommitEval,
         EvalFails, ConsumeEvals, AgentRestart, ClearMarker, ClearMarkerFails,
         EvalNotStarted, EvalOver,
         work, agentVars
  <2>3. step' = step \/ step' = step + 1 \/ step' = 0
    BY <1>5 DEF RequestEval, QueueEval, QueueEvalFails, MarkerExpires, RunCase, CommitEval,
         EvalFails, ConsumeEvals, AgentRestart, ClearMarker, ClearMarkerFails,
         EvalNotStarted, EvalOver,
         work, agentVars
  <2>4. step' \in Nat /\ 0 \notin found' /\ (at' = "pass" => hand # <<>>)
    BY <2>1, <2>2, <2>3 DEF PassInv, PassTyped
  <2> QED
    BY <2>1, <2>4, PassKept
<1>6. CASE AgentCrash
  <2>1. UNCHANGED <<status, answers, ready>> /\ hand' = <<>> /\ at' = "down" /\ step' = 0 /\ found' = {}
    BY <1>6 DEF AgentCrash, decisionRows, streams
  <2> QED
    BY <2>1 DEF PassInv, PassTyped, EachOnce, AwaitingExplanation, Coming, Handed
<1> QED
  BY <1>1, <1>2, <1>3, <1>4, <1>5, <1>6 DEF AgentNext, AgentLoop

(* agent/worker.py: the status that governance sets is seen together with  *)
(* the explanation, and an explanation is written once.                    *)
THEOREM PassAtomicCorrect == AgentSpec => PassAtomic
<1> DEFINE Atomic(d) ==
             /\ answers[d] # Unexplained => answers'[d] = answers[d] /\ status'[d] = status[d]
             /\ status[d] # "none" /\ status'[d] # status[d] => answers'[d] # Unexplained
<1>1. PassInv /\ [AgentNext]_agentVars => [\A d \in Decisions : Atomic(d)]_agentVars
  <2> SUFFICES ASSUME PassInv, AgentNext, NEW d \in Decisions PROVE Atomic(d)
    OBVIOUS
  <2>1. ASSUME NEW e \in Decisions, NEW s \in {"proposed", "failed"},
               Announce(e, s) \/ AnnounceFails(e, s)
        PROVE  Atomic(d)
    <3>1. status[e] = "none" /\ status' = [status EXCEPT ![e] = s] /\ answers' = answers
      BY <2>1 DEF Announce, AnnounceFails
    <3> QED
      BY <3>1 DEF PassInv, PassTyped, AwaitingExplanation
  <2>2. CASE CommitPass
    <3>1. /\ answers' = [answers EXCEPT ![Head(hand)] = found]
          /\ status' = status \/ status' = [status EXCEPT ![Head(hand)] = "proposed"]
          /\ Handed(Head(hand)) /\ Head(hand) \in Decisions
      BY <2>2, NextFacts DEF CommitPass
    <3>2. answers[Head(hand)] = Unexplained /\ found # Unexplained
      BY <3>1 DEF PassInv, PassTyped, AwaitingExplanation, Unexplained
    <3> QED
      BY <3>1, <3>2 DEF PassInv, PassTyped
  <2>3. ASSUME UNCHANGED decisionRows PROVE Atomic(d)
    BY <2>3 DEF decisionRows
  <2> QED
    BY <2>1, <2>2, <2>3 DEF AgentNext, AgentLoop, RequestEval, QueueEval, QueueEvalFails,
       MarkerExpires, RunCase, CommitEval, EvalFails, ConsumeDecisions, ConsumeEvals, AskAgent,
       PassFails, AgentCrash, AgentRestart, ClearMarker, ClearMarkerFails, EvalNotStarted, EvalOver
<1> QED
  BY <1>1, PassInit, PassStep, PTL DEF AgentSpec, PassAtomic

-----------------------------------------------------------------------------
(* The composition: a behaviour of the two workers is one of each, so that *)
(* what is proved of each holds in it.                                     *)
LEMMA WorkersAreWorkers == WorkersSpec => Spec /\ AgentSpec
<1>1. WorkersInit => Init /\ AgentInit
  BY DEF WorkersInit
<1>2. [WorkersNext]_workerVars => [Next]_vars /\ [AgentNext]_agentVars
  BY DEF WorkersNext, workerVars
<1> QED
  BY <1>1, <1>2, PTL DEF WorkersSpec, Spec, AgentSpec

(* policy/worker.py and agent/worker.py side by side: all that is proved   *)
(* of one worker holds of the two together.                                *)
THEOREM WorkersCorrect ==
  WorkersSpec => FullCadence /\ []EvalsBounded /\ []MarkerReleased /\ PassAtomic
BY WorkersAreWorkers, FullCadenceCorrect, EvalsBoundedCorrect, MarkerReleasedCorrect,
   PassAtomicCorrect, PTL
===============================================================================
