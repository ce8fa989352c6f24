--------------------------- MODULE Dispatch_proofs ---------------------------
(***************************************************************************)
(* Proofs about Dispatch, for any number of operators, actions, attempts   *)
(* and rolled-back transactions: who may work on an item at a time, what   *)
(* the committed rows claim happened at the gateway (LedgerTruth), that    *)
(* what reached it was within the policy (PolicyBounds), that Dispatch     *)
(* implements CommandOrders, that an Approval agrees with the dispatches   *)
(* of its decider (OutcomeMatchesLedger), and how often an action can be   *)
(* sent at all (RepeatsBounded).                                           *)
(***************************************************************************)
EXTENDS Dispatch, FiniteSetTheorems, TLAPS

(* What a session's place says of its locals.                              *)
LocalsOK ==
    /\ \A p \in Sessions :
         /\ pc[p] \in {"deciding", "preparing", "committing", "finishing"} => item[p] \in Actions
         /\ pc[p] \in {"preparing", "committing"} => nonce[p] \in Nonces
    /\ pc[Optimizer] \notin {"deciding", "finishing"}
    /\ \A d \in Deciders : pc[d] # "routing"

(* A session past the outcome's flush holds the row lock of its action, the*)
(* running cycle those of every action it has still to route, and nobody   *)
(* holds a lock on an action no cycle has planned.                         *)
LocksOK ==
    /\ \A p \in Sessions :
         pc[p] \in {"preparing", "committing", "finishing"} => holder[item[p]] = p
    /\ \A a \in todo : holder[a] = Optimizer
    /\ \A a \in Actions : holder[a] # Nobody => a \in planned

(* Where an action without an Approval can be, and what has been sent for  *)
(* it: an Approval exists, in either version of the row, only where the    *)
(* optimizer has sent nothing.                                             *)
OrdersOK ==
    /\ \A n \in Nonces : Sent(n) => request[n].action \in planned
    /\ \A a \in Actions : a \notin planned => db[a].outcome = "none"
    /\ \A a \in Actions : holder[a] = Optimizer => db[a].outcome = "none"
    /\ \A a \in Actions : holder[a] \in Deciders =>
         db[a].outcome # "none" /\ work[a].outcome # "none"
    /\ \A d \in Deciders : pc[d] = "deciding" =>
         db[item[d]].outcome # "none" /\ intent[d] # "none"
    /\ \A a \in todo : work[a].outcome = "none" /\ NoncesOf(a) = {}
    /\ \A n \in Nonces : Sent(n) /\ cmd[n].actor = Optimizer =>
         /\ db[request[n].action].outcome = "none"
         /\ work[request[n].action].outcome = "none"
    /\ AutonomousOnce

IInv == TypeOK /\ LocalsOK /\ LocksOK /\ OrdersOK

-----------------------------------------------------------------------------
(* A row keeps its type when its signal changes.                           *)
LEMMA RowSignal ==
    ASSUME NEW f \in [Actions -> Row], NEW a, NEW s \in SignalStates
    PROVE  [f EXCEPT ![a].signal = s] \in [Actions -> Row]
<1>1. ASSUME NEW r \in Row PROVE [r EXCEPT !.signal = s] \in Row
  BY DEF Row
<1>2. QED
  BY <1>1

(* A row keeps its type when its signal and its approval are decided.      *)
LEMMA RowOutcome ==
    ASSUME NEW f \in [Actions -> Row], NEW a, NEW o \in Outcomes, NEW s \in SignalStates
    PROVE  [f EXCEPT ![a].signal = s, ![a].outcome = o] \in [Actions -> Row]
<1>1. ASSUME NEW r \in Row PROVE [r EXCEPT !.outcome = o] \in Row
  BY DEF Row
<1>2. [f EXCEPT ![a].signal = s] \in [Actions -> Row]
  BY RowSignal
<1>3. QED
  BY <1>1, <1>2

(* A Command keeps its type when its prepare status is written.            *)
LEMMA CommandPrepare ==
    ASSUME NEW f \in [Nonces -> CommandRow], NEW n, NEW s \in {"pending", "ready", "rejected"}
    PROVE  [f EXCEPT ![n].prepare = s] \in [Nonces -> CommandRow]
<1>1. ASSUME NEW r \in CommandRow PROVE [r EXCEPT !.prepare = s] \in CommandRow
  BY DEF CommandRow
<1>2. QED
  BY <1>1

(* The initial states are well typed.                                      *)
LEMMA TypeInit == Init => TypeOK
<1> SUFFICES ASSUME Init PROVE TypeOK
  OBVIOUS
<1> USE DispatchAssumption, GatewayAssumption DEF Init
<1>1. NoRow \in Row
  BY DEF NoRow, Row, Outcomes, SignalStates
<1>2. NewCommand(Nobody) \in CommandRow
  BY DEF NewCommand, CommandRow
<1>3. GatewayTypeOK
  <2>1. clock \in 0..MaxTime
    BY DEF GatewayInit
  <2>2. /\ estop \in BOOLEAN
        /\ commandable \in SUBSET Assets
        /\ request \in [Nonces -> CommandRequest \cup {NoRequest}]
        /\ gw \in [Nonces -> GatewayStates]
    BY DEF GatewayInit, GatewayStates
  <2>3. QED
    BY <2>1, <2>2 DEF GatewayTypeOK
<1>4. QED
  BY <1>1, <1>2, <1>3 DEF TypeOK, PCs, Outcomes

(* Type correctness is inductive together with what a session's place says *)
(* of its locals: the type of a request depends on it.                     *)
LEMMA TypeStep ==
    ASSUME TypeOK, LocalsOK, [Next]_vars
    PROVE  TypeOK'
<1> USE DispatchAssumption, GatewayAssumption
<1>1. CASE Gateway
  BY <1>1
  DEF TypeOK, GatewayTypeOK, Gateway, GatewayNext, GatewayStep, Prepare, CommitCheck,
      ScadaFault, Execute, GatewayCrash, SetEstop, Tick, AssetStateChanges,
      GatewayStates, tableVars, sessionVars, commandVars
<1>2. ASSUME NEW pol \in AutonomyPolicies, SetAutonomyPolicy(pol) PROVE TypeOK'
  BY <1>2
  DEF TypeOK, GatewayTypeOK, SetAutonomyPolicy, gatewayVars, tableVars, sessionVars, commandVars
<1>3. ASSUME NEW p \in Sessions, DispatchSignal(p) PROVE TypeOK'
  <2>1. ASSUME NEW row \in CommandRow, NEW state \in SignalStates, EndDispatch(p, row, state)
        PROVE  TypeOK'
    <3>1. AfterDispatch(p) \in PCs
      BY DEF AfterDispatch, PCs
    <3>2. cmd' \in [Nonces -> CommandRow]
      BY <2>1 DEF TypeOK, EndDispatch
    <3>3. work' \in [Actions -> Row]
      BY <2>1, RowSignal DEF TypeOK, EndDispatch
    <3>4. QED
      BY <2>1, <3>1, <3>2, <3>3 DEF TypeOK, GatewayTypeOK, EndDispatch, gatewayVars
  <2>2. CASE PrepareReady(p)
    <3>1. nonce[p] \in Nonces
      BY <2>2 DEF PrepareReady, LocalsOK
    <3>2. work' \in [Actions -> Row]
      BY <2>2, RowSignal DEF TypeOK, PrepareReady, SignalStates
    <3>3. cmd' \in [Nonces -> CommandRow]
      BY <2>2, CommandPrepare DEF TypeOK, PrepareReady
    <3>4. gw' \in [Nonces -> GatewayStates] /\ pc' \in [Sessions -> PCs]
      BY <2>2 DEF TypeOK, GatewayTypeOK, PrepareReady, GatewayStates, PCs
    <3>5. QED
      BY <2>2, <3>2, <3>3, <3>4 DEF TypeOK, GatewayTypeOK, PrepareReady
  <2>3. pc[p] \in {"preparing", "committing"} => cmd[nonce[p]] \in CommandRow
    BY DEF LocalsOK, TypeOK
  <2>4. QED
    BY <1>3, <2>1, <2>2, <2>3
    DEF DispatchSignal, PrepareFailed, PrepareRejected, CommitFailed, CommitRejected,
        CommitAcknowledged, CommandRow, SignalStates
<1>4. ASSUME NEW p \in Sessions, Rollback(p) PROVE TypeOK'
  BY <1>4
  DEF TypeOK, GatewayTypeOK, Rollback, Forget, gatewayVars, commandVars, PCs, Outcomes
<1>5. ASSUME NEW d \in Deciders, Decide(d) PROVE TypeOK'
  <2> d \in Sessions
    BY DEF Sessions
  <2>1. ASSUME NEW a \in Actions, NEW outcome \in {"approved", "rejected", "held"},
               ReadApproval(d, a, outcome)
        PROVE  TypeOK'
    BY <2>1
    DEF TypeOK, GatewayTypeOK, ReadApproval, gatewayVars, tableVars, commandVars, PCs, Outcomes
  <2>2. CASE CloseApproval(d)
    <3>1. item[d] \in Actions
      BY <2>2 DEF CloseApproval, LocalsOK
    <3>2. [db[item[d]] EXCEPT !.outcome = intent[d],
             !.approver = IF intent[d] = "expired" THEN @ ELSE d] \in Row
      <4>1. db[item[d]] \in Row /\ intent[d] \in Outcomes
        BY <3>1 DEF TypeOK
      <4>2. QED
        BY <4>1 DEF Row
    <3>3. db' \in [Actions -> Row] /\ work' \in [Actions -> Row]
      BY <2>2, <3>1, <3>2 DEF TypeOK, CloseApproval
    <3>4. QED
      BY <2>2, <3>3
      DEF TypeOK, GatewayTypeOK, CloseApproval, Forget, gatewayVars, commandVars, PCs, Outcomes
  <2>3. ASSUME NEW n \in Nonces, ApproveAndDispatch(d, n) PROVE TypeOK'
    <3>1. item[d] \in Actions
      BY <2>3 DEF ApproveAndDispatch, LocalsOK
    <3>2. work' \in [Actions -> Row]
      <4>1. [db[item[d]] EXCEPT !.outcome = "approved", !.approver = d, !.signal = "queued"]
              \in Row
        <5>1. db[item[d]] \in Row
          BY <3>1 DEF TypeOK
        <5>2. QED
          BY <5>1 DEF Row, Outcomes, SignalStates
      <4>2. QED
        BY <2>3, <3>1, <4>1 DEF TypeOK, ApproveAndDispatch
    <3>3. work'[item[d]].issued + Validity \in Nat
      BY <3>1, <3>2 DEF Row
    <3>4. SendPrepare(d, item[d], n)
      BY <2>3 DEF ApproveAndDispatch
    <3>5. NewCommand(d) \in CommandRow
      BY DEF NewCommand, CommandRow
    <3>6. request' \in [Nonces -> CommandRequest \cup {NoRequest}]
      BY <3>1, <3>3, <3>4 DEF SendPrepare, TypeOK, GatewayTypeOK, CommandRequest
    <3>7. /\ gw' \in [Nonces -> GatewayStates] /\ cmd' \in [Nonces -> CommandRow]
          /\ txn' \in [Sessions -> SUBSET Nonces]
          /\ nonce' \in [Sessions -> Nonces \cup {NoNonce}]
          /\ item' \in [Sessions -> Actions \cup {NoAction}] /\ pc' \in [Sessions -> PCs]
      BY <3>1, <3>4, <3>5 DEF SendPrepare, TypeOK, GatewayTypeOK, GatewayStates, PCs
    <3>8. holder' \in [Actions -> Sessions \cup {Nobody}]
      BY <2>3 DEF TypeOK, ApproveAndDispatch
    <3>9. QED
      BY <2>3, <3>2, <3>6, <3>7, <3>8 DEF TypeOK, GatewayTypeOK, ApproveAndDispatch
  <2>4. CASE CommitDecision(d)
    BY <2>4
    DEF TypeOK, GatewayTypeOK, CommitDecision, Commit, Forget, gatewayVars, PCs, Outcomes
  <2>5. QED
    BY <1>5, <2>1, <2>2, <2>3, <2>4 DEF Decide
<1>6. CASE RunCycle
  <2> Optimizer \in Sessions
    BY DEF Sessions
  <2>1. ASSUME NEW batch \in SUBSET Actions, NEW proposed \in BOOLEAN,
               StartCycle(batch, proposed)
        PROVE  TypeOK'
    <3>1. ModeOf(policy) \in Modes
      BY DEF ModeOf, TypeOK, AutonomyPolicy, Modes
    <3>2. [NoRow EXCEPT !.mode = ModeOf(policy), !.issued = clock] \in Row
      BY <3>1 DEF NoRow, Row, Outcomes, SignalStates, TypeOK, GatewayTypeOK
    <3>3. work' \in [Actions -> Row]
      BY <2>1, <3>2 DEF TypeOK, StartCycle
    <3>4. pc' \in [Sessions -> PCs] /\ todo' \in SUBSET Actions
      BY <2>1 DEF TypeOK, StartCycle, PCs
    <3>5. holder' \in [Actions -> Sessions \cup {Nobody}]
      BY <2>1 DEF TypeOK, StartCycle
    <3>6. QED
      BY <2>1, <3>3, <3>4, <3>5
      DEF TypeOK, GatewayTypeOK, StartCycle, gatewayVars, commandVars
  <2>2. ASSUME NEW a \in Actions, SkipAdvisory(a) PROVE TypeOK'
    BY <2>2
    DEF TypeOK, GatewayTypeOK, SkipAdvisory, gatewayVars, tableVars, commandVars
  <2>3. ASSUME NEW a \in Actions, NEW n \in Nonces, RouteAutonomous(a, n) PROVE TypeOK'
    <3>1. work' \in [Actions -> Row]
      BY <2>3, RowSignal DEF TypeOK, RouteAutonomous, SignalStates
    <3>2. work'[a].issued + Validity \in Nat
      BY <3>1 DEF Row
    <3>3. SendPrepare(Optimizer, a, n)
      BY <2>3 DEF RouteAutonomous
    <3>4. NewCommand(Optimizer) \in CommandRow
      BY DEF NewCommand, CommandRow
    <3>5. request' \in [Nonces -> CommandRequest \cup {NoRequest}]
      BY <3>2, <3>3 DEF SendPrepare, TypeOK, GatewayTypeOK, CommandRequest
    <3>6. /\ gw' \in [Nonces -> GatewayStates] /\ cmd' \in [Nonces -> CommandRow]
          /\ txn' \in [Sessions -> SUBSET Nonces]
          /\ nonce' \in [Sessions -> Nonces \cup {NoNonce}]
          /\ item' \in [Sessions -> Actions \cup {NoAction}] /\ pc' \in [Sessions -> PCs]
      BY <3>3, <3>4 DEF SendPrepare, TypeOK, GatewayTypeOK, GatewayStates, PCs
    <3>7. QED
      BY <2>3, <3>1, <3>5, <3>6 DEF TypeOK, GatewayTypeOK, RouteAutonomous
  <2>4. ASSUME NEW a \in Actions, RouteForApproval(a) PROVE TypeOK'
    <3>1. work' \in [Actions -> Row]
      BY <2>4, RowOutcome
      DEF TypeOK, RouteForApproval, SignalStates, Outcomes
    <3>2. QED
      BY <2>4, <3>1 DEF TypeOK, GatewayTypeOK, RouteForApproval, gatewayVars, commandVars
  <2>5. CASE CommitCycle
    BY <2>5
    DEF TypeOK, GatewayTypeOK, CommitCycle, Commit, Forget, gatewayVars, PCs, Outcomes
  <2>6. QED
    BY <1>6, <2>1, <2>2, <2>3, <2>4, <2>5 DEF RunCycle
<1>7. CASE UNCHANGED vars
  BY <1>7
  DEF TypeOK, GatewayTypeOK, vars, gatewayVars, tableVars, sessionVars, commandVars
<1>8. QED
  BY <1>1, <1>2, <1>3, <1>4, <1>5, <1>6, <1>7 DEF Next

-----------------------------------------------------------------------------
(* What a step of dispatch_signal leaves alone: everything but the session *)
(* place, the signal's state, the statuses of the Command and the gateway. *)
LEMMA DispatchEffect ==
    ASSUME TypeOK, LocalsOK, NEW p \in Sessions, DispatchSignal(p)
    PROVE  /\ pc[p] \in {"preparing", "committing"}
           /\ pc' = [pc EXCEPT ![p] = pc'[p]]
           /\ pc'[p] \in {"committing", AfterDispatch(p)}
           /\ UNCHANGED <<request, db, holder, planned, item, intent, nonce, todo>>
           /\ \A a \in Actions : work'[a].outcome = work[a].outcome
           /\ \A n \in Nonces : cmd'[n].actor = cmd[n].actor
<1>1. ASSUME NEW row, NEW state, EndDispatch(p, row, state),
             row.actor = cmd[nonce[p]].actor
      PROVE  /\ pc' = [pc EXCEPT ![p] = pc'[p]]
             /\ pc'[p] = AfterDispatch(p)
             /\ UNCHANGED <<request, db, holder, planned, item, intent, nonce, todo>>
             /\ \A a \in Actions : work'[a].outcome = work[a].outcome
             /\ \A n \in Nonces : cmd'[n].actor = cmd[n].actor
  <2>1. pc' = [pc EXCEPT ![p] = pc'[p]] /\ pc'[p] = AfterDispatch(p)
    BY <1>1 DEF EndDispatch, TypeOK
  <2>2. \A a \in Actions : work'[a].outcome = work[a].outcome
    BY <1>1 DEF EndDispatch, TypeOK, Row
  <2>3. \A n \in Nonces : cmd'[n].actor = cmd[n].actor
    BY <1>1 DEF EndDispatch, TypeOK
  <2>4. QED
    BY <1>1, <2>1, <2>2, <2>3 DEF EndDispatch, gatewayVars
<1>2. pc[p] \in {"preparing", "committing"}
  BY DEF DispatchSignal, PrepareFailed, PrepareRejected, PrepareReady, CommitFailed,
         CommitRejected, CommitAcknowledged
<1>3. cmd[nonce[p]] \in CommandRow
  BY <1>2 DEF LocalsOK, TypeOK
<1>4. CASE PrepareReady(p)
  <2>1. pc' = [pc EXCEPT ![p] = pc'[p]] /\ pc'[p] = "committing"
    BY <1>4 DEF PrepareReady, TypeOK
  <2>2. \A a \in Actions : work'[a].outcome = work[a].outcome
    BY <1>4 DEF PrepareReady, TypeOK, Row
  <2>3. \A n \in Nonces : cmd'[n].actor = cmd[n].actor
    BY <1>4 DEF PrepareReady, TypeOK, CommandRow
  <2>4. QED
    BY <1>2, <1>4, <2>1, <2>2, <2>3 DEF PrepareReady
<1>5. QED
  BY <1>1, <1>2, <1>3, <1>4
  DEF DispatchSignal, PrepareFailed, PrepareRejected, CommitFailed, CommitRejected,
      CommitAcknowledged, CommandRow

-----------------------------------------------------------------------------
(* What a session has in hand fits its place after every step.             *)
LEMMA LocalsStep ==
    ASSUME TypeOK, LocalsOK, [Next]_vars
    PROVE  LocalsOK'
<1> USE DispatchAssumption DEF Sessions
<1>1. CASE Gateway
  BY <1>1 DEF LocalsOK, Gateway, sessionVars
<1>2. ASSUME NEW pol \in AutonomyPolicies, SetAutonomyPolicy(pol) PROVE LocalsOK'
  BY <1>2 DEF LocalsOK, SetAutonomyPolicy, sessionVars
<1>3. ASSUME NEW p \in Sessions, DispatchSignal(p) PROVE LocalsOK'
  BY <1>3, DispatchEffect DEF LocalsOK, AfterDispatch, TypeOK
<1>4. ASSUME NEW p \in Sessions, Rollback(p) PROVE LocalsOK'
  BY <1>4 DEF LocalsOK, Rollback, Forget, TypeOK
<1>5. ASSUME NEW d \in Deciders, NEW a \in Actions,
             NEW outcome \in {"approved", "rejected", "held"}, ReadApproval(d, a, outcome)
      PROVE  LocalsOK'
  BY <1>5 DEF LocalsOK, ReadApproval, TypeOK
<1>6. ASSUME NEW d \in Deciders, CloseApproval(d) PROVE LocalsOK'
  BY <1>6 DEF LocalsOK, CloseApproval, Forget, TypeOK
<1>7. ASSUME NEW d \in Deciders, NEW n \in Nonces, ApproveAndDispatch(d, n) PROVE LocalsOK'
  BY <1>7 DEF LocalsOK, ApproveAndDispatch, SendPrepare, TypeOK
<1>8. ASSUME NEW d \in Deciders, CommitDecision(d) PROVE LocalsOK'
  BY <1>8 DEF LocalsOK, CommitDecision, Forget, TypeOK
<1>9. ASSUME NEW batch \in SUBSET Actions, NEW proposed \in BOOLEAN, StartCycle(batch, proposed)
      PROVE  LocalsOK'
  BY <1>9 DEF LocalsOK, StartCycle, TypeOK
<1>10. ASSUME NEW a \in Actions, SkipAdvisory(a) \/ RouteForApproval(a) PROVE LocalsOK'
  BY <1>10 DEF LocalsOK, SkipAdvisory, RouteForApproval
<1>11. ASSUME NEW a \in Actions, NEW n \in Nonces, RouteAutonomous(a, n) PROVE LocalsOK'
  BY <1>11 DEF LocalsOK, RouteAutonomous, SendPrepare, TypeOK
<1>12. CASE CommitCycle
  BY <1>12 DEF LocalsOK, CommitCycle, Forget, TypeOK
<1>13. CASE UNCHANGED vars
  BY <1>13 DEF LocalsOK, vars, sessionVars
<1>14. QED
  BY <1>1, <1>2, <1>3, <1>4, <1>5, <1>6, <1>7, <1>8, <1>9, <1>10, <1>11, <1>12, <1>13
  DEF Next, Decide, RunCycle

-----------------------------------------------------------------------------
(* A session that dispatches goes on holding the rows of its action.       *)
LEMMA LocksStep ==
    ASSUME TypeOK, LocalsOK, LocksOK, OrdersOK, [Next]_vars
    PROVE  LocksOK'
<1> USE DispatchAssumption DEF Sessions
<1>1. CASE Gateway
  BY <1>1 DEF LocksOK, Gateway, sessionVars, tableVars
<1>2. ASSUME NEW pol \in AutonomyPolicies, SetAutonomyPolicy(pol) PROVE LocksOK'
  BY <1>2 DEF LocksOK, SetAutonomyPolicy, sessionVars, tableVars
<1>3. ASSUME NEW p \in Sessions, DispatchSignal(p) PROVE LocksOK'
  BY <1>3, DispatchEffect DEF LocksOK, AfterDispatch, TypeOK
<1>4. ASSUME NEW p \in Sessions, Rollback(p) PROVE LocksOK'
  BY <1>4 DEF LocksOK, LocalsOK, Rollback, Forget, TypeOK
<1>5. ASSUME NEW d \in Deciders, NEW a \in Actions,
             NEW outcome \in {"approved", "rejected", "held"}, ReadApproval(d, a, outcome)
      PROVE  LocksOK'
  BY <1>5 DEF LocksOK, ReadApproval, TypeOK, tableVars
<1>6. ASSUME NEW d \in Deciders, CloseApproval(d) PROVE LocksOK'
  BY <1>6 DEF LocksOK, CloseApproval, Forget, TypeOK
<1>7. ASSUME NEW d \in Deciders, NEW n \in Nonces, ApproveAndDispatch(d, n) PROVE LocksOK'
  BY <1>7 DEF LocksOK, LocalsOK, OrdersOK, ApproveAndDispatch, SendPrepare, TypeOK
<1>8. ASSUME NEW d \in Deciders, CommitDecision(d) PROVE LocksOK'
  BY <1>8 DEF LocksOK, LocalsOK, CommitDecision, Commit, Forget, TypeOK
<1>9. ASSUME NEW batch \in SUBSET Actions, NEW proposed \in BOOLEAN, StartCycle(batch, proposed)
      PROVE  LocksOK'
  BY <1>9 DEF LocksOK, LocalsOK, StartCycle, TypeOK
<1>10. ASSUME NEW a \in Actions, SkipAdvisory(a) \/ RouteForApproval(a) PROVE LocksOK'
  BY <1>10 DEF LocksOK, SkipAdvisory, RouteForApproval, tableVars
<1>11. ASSUME NEW a \in Actions, NEW n \in Nonces, RouteAutonomous(a, n) PROVE LocksOK'
  BY <1>11 DEF LocksOK, RouteAutonomous, SendPrepare, TypeOK
<1>12. CASE CommitCycle
  BY <1>12 DEF LocksOK, LocalsOK, CommitCycle, Commit, Forget, TypeOK
<1>13. CASE UNCHANGED vars
  BY <1>13 DEF LocksOK, vars, sessionVars, tableVars
<1>14. QED
  BY <1>1, <1>2, <1>3, <1>4, <1>5, <1>6, <1>7, <1>8, <1>9, <1>10, <1>11, <1>12, <1>13
  DEF Next, Decide, RunCycle

-----------------------------------------------------------------------------
(* No step gives an action the optimizer has ordered an Approval or a      *)
(* second order: what a session is about to do agrees with what was sent.  *)
LEMMA OrdersStep ==
    ASSUME TypeOK, LocalsOK, LocksOK, OrdersOK, [Next]_vars
    PROVE  OrdersOK'
<1> USE DispatchAssumption DEF Sessions
<1>1. CASE Gateway
  <2>1. UNCHANGED request
    BY <1>1 DEF Gateway, GatewayNext, GatewayStep, Prepare, CommitCheck, ScadaFault, Execute,
             GatewayCrash, SetEstop, Tick, AssetStateChanges
  <2>2. QED
    BY <1>1, <2>1
    DEF OrdersOK, AutonomousOnce, NoncesOf, Sent, Gateway, sessionVars, tableVars, commandVars
<1>2. ASSUME NEW pol \in AutonomyPolicies, SetAutonomyPolicy(pol) PROVE OrdersOK'
  BY <1>2
  DEF OrdersOK, AutonomousOnce, NoncesOf, Sent, SetAutonomyPolicy, gatewayVars, sessionVars,
      tableVars, commandVars
<1> DEFINE SentAction(n) == Sent(n) => request[n].action \in Actions
<1>0. \A n \in Nonces : SentAction(n)
  BY DEF Sent, TypeOK, GatewayTypeOK, CommandRequest
<1>3. ASSUME NEW p \in Sessions, DispatchSignal(p) PROVE OrdersOK'
  <2>1. /\ UNCHANGED <<request, db, holder, planned, item, intent, todo>>
        /\ \A a \in Actions : work'[a].outcome = work[a].outcome
        /\ \A n \in Nonces : cmd'[n].actor = cmd[n].actor
        /\ \A d \in Deciders : pc'[d] = "deciding" => pc[d] = "deciding"
    BY <1>3, DispatchEffect DEF AfterDispatch, TypeOK
  <2>2. /\ \A d \in Deciders : pc'[d] = "deciding" =>
              db'[item'[d]].outcome # "none" /\ intent'[d] # "none"
        /\ \A a \in todo' : work'[a].outcome = "none" /\ NoncesOf(a)' = {}
    BY <2>1 DEF OrdersOK, NoncesOf, Sent, TypeOK
  <2>3. /\ \A n \in Nonces : (Sent(n) /\ cmd[n].actor = Optimizer)' =>
              /\ db'[request'[n].action].outcome = "none"
              /\ work'[request'[n].action].outcome = "none"
        /\ AutonomousOnce'
    BY <1>0, <2>1 DEF OrdersOK, AutonomousOnce, Sent
  <2>4. QED
    BY <2>1, <2>2, <2>3 DEF OrdersOK, Sent
<1>4. ASSUME NEW p \in Sessions, Rollback(p) PROVE OrdersOK'
  BY <1>4
  DEF OrdersOK, AutonomousOnce, NoncesOf, Sent, Rollback, Forget, TypeOK, gatewayVars,
      commandVars, GatewayTypeOK, CommandRequest
<1>5. ASSUME NEW d \in Deciders, NEW a \in Actions,
             NEW outcome \in {"approved", "rejected", "held"}, ReadApproval(d, a, outcome)
      PROVE  OrdersOK'
  BY <1>5
  DEF OrdersOK, AutonomousOnce, NoncesOf, Sent, ReadApproval, TypeOK, gatewayVars,
      tableVars, commandVars
<1>6. ASSUME NEW d \in Deciders, CloseApproval(d) PROVE OrdersOK'
  <2>1. item[d] \in Actions /\ db[item[d]].outcome # "none" /\ intent[d] # "none"
    BY <1>6 DEF OrdersOK, LocalsOK, CloseApproval
  <2>2. /\ UNCHANGED <<request, cmd, holder, planned, todo>>
        /\ holder[item[d]] = Nobody
        /\ pc' = [pc EXCEPT ![d] = "idle"]
        /\ item' = [item EXCEPT ![d] = NoAction]
        /\ \A e \in Deciders \ {d} : intent'[e] = intent[e]
    BY <1>6 DEF CloseApproval, Forget, gatewayVars, commandVars
  <2>3. /\ \A a \in Actions \ {item[d]} : db'[a] = db[a] /\ work'[a] = work[a]
        /\ db'[item[d]].outcome = intent[d] /\ work'[item[d]].outcome = intent[d]
    BY <1>6, <2>1 DEF CloseApproval, TypeOK, Row
  <2>4. \A a \in Actions : db[a].outcome = "none" => db'[a] = db[a] /\ work'[a] = work[a]
    BY <2>1, <2>3
  <2>5. \A a \in Actions : db[a].outcome # "none" => db'[a].outcome # "none"
    BY <2>1, <2>3
  <2>6. \A e \in Deciders : pc'[e] = "deciding" =>
          db'[item'[e]].outcome # "none" /\ intent'[e] # "none"
    BY <2>2, <2>5 DEF OrdersOK, LocalsOK, TypeOK
  <2>7. \A a \in todo' : work'[a].outcome = "none" /\ NoncesOf(a)' = {}
    BY <2>2, <2>3 DEF OrdersOK, LocksOK, NoncesOf, Sent, TypeOK
  <2>8. /\ \A n \in Nonces : (Sent(n) /\ cmd[n].actor = Optimizer)' =>
              /\ db'[request'[n].action].outcome = "none"
              /\ work'[request'[n].action].outcome = "none"
        /\ AutonomousOnce'
    BY <1>0, <2>2, <2>4 DEF OrdersOK, AutonomousOnce, Sent
  <2>9. \A a \in Actions : holder[a] \in Deciders =>
          db'[a].outcome # "none" /\ work'[a].outcome # "none"
    BY <2>1, <2>3 DEF OrdersOK
  <2>10. QED
    BY <2>2, <2>4, <2>6, <2>7, <2>8, <2>9 DEF OrdersOK, Sent
<1>7. ASSUME NEW d \in Deciders, NEW n \in Nonces, ApproveAndDispatch(d, n) PROVE OrdersOK'
  BY <1>7
  DEF OrdersOK, LocalsOK, LocksOK, AutonomousOnce, NoncesOf, Sent, ApproveAndDispatch,
      SendPrepare, NewCommand, TypeOK, Row, GatewayTypeOK, CommandRequest
<1>8. ASSUME NEW d \in Deciders, CommitDecision(d) PROVE OrdersOK'
  <2>1. /\ UNCHANGED <<request, cmd, work, planned>>
        /\ pc' = [pc EXCEPT ![d] = "idle"]
        /\ item' = [item EXCEPT ![d] = NoAction]
        /\ \A e \in Deciders \ {d} : intent'[e] = intent[e]
        /\ todo' \subseteq todo
    BY <1>8 DEF CommitDecision, Forget, gatewayVars
  <2>2. \A a \in Actions :
          /\ holder'[a] = IF holder[a] = d THEN Nobody ELSE holder[a]
          /\ db'[a] = IF holder[a] = d THEN work[a] ELSE db[a]
    BY <1>8 DEF CommitDecision, Commit
  <2>3. \A e \in Deciders : pc'[e] = "deciding" =>
          db'[item'[e]].outcome # "none" /\ intent'[e] # "none"
    BY <2>1, <2>2 DEF OrdersOK, LocalsOK, TypeOK
  <2>4. \A a \in todo' : work'[a].outcome = "none" /\ NoncesOf(a)' = {}
    BY <2>1 DEF OrdersOK, NoncesOf, Sent
  <2>5. /\ \A n \in Nonces : (Sent(n) /\ cmd[n].actor = Optimizer)' =>
              /\ db'[request'[n].action].outcome = "none"
              /\ work'[request'[n].action].outcome = "none"
        /\ AutonomousOnce'
    BY <1>0, <2>1, <2>2 DEF OrdersOK, AutonomousOnce, Sent
  <2>6. /\ \A n \in Nonces : Sent(n)' => request'[n].action \in planned'
        /\ \A a \in Actions : a \notin planned' => db'[a].outcome = "none"
    BY <2>1, <2>2 DEF OrdersOK, LocksOK, Sent
  <2>7. /\ \A a \in Actions : holder'[a] = Optimizer => db'[a].outcome = "none"
        /\ \A a \in Actions : holder'[a] \in Deciders =>
             db'[a].outcome # "none" /\ work'[a].outcome # "none"
    BY <2>1, <2>2 DEF OrdersOK
  <2>8. QED
    BY <2>3, <2>4, <2>5, <2>6, <2>7 DEF OrdersOK
<1>9. ASSUME NEW batch \in SUBSET Actions, NEW proposed \in BOOLEAN, StartCycle(batch, proposed)
      PROVE  OrdersOK'
  BY <1>9
  DEF OrdersOK, LocksOK, LocalsOK, AutonomousOnce, NoncesOf, Sent, StartCycle, NoRow, TypeOK,
      gatewayVars, commandVars, GatewayTypeOK, CommandRequest
<1>10. ASSUME NEW a \in Actions, SkipAdvisory(a) PROVE OrdersOK'
  BY <1>10
  DEF OrdersOK, AutonomousOnce, NoncesOf, Sent, SkipAdvisory, gatewayVars, tableVars,
      commandVars
<1>11. ASSUME NEW a \in Actions, RouteForApproval(a) PROVE OrdersOK'
  BY <1>11
  DEF OrdersOK, LocksOK, LocalsOK, AutonomousOnce, NoncesOf, Sent, RouteForApproval, TypeOK,
      Row, gatewayVars, commandVars, GatewayTypeOK, CommandRequest
<1>12. ASSUME NEW a \in Actions, NEW n \in Nonces, RouteAutonomous(a, n) PROVE OrdersOK'
  BY <1>12
  DEF OrdersOK, LocksOK, LocalsOK, AutonomousOnce, NoncesOf, Sent, RouteAutonomous,
      SendPrepare, NewCommand, TypeOK, Row, GatewayTypeOK, CommandRequest
<1>13. CASE CommitCycle
  <2>1. /\ UNCHANGED <<request, cmd, work, planned>>
        /\ pc' = [pc EXCEPT ![Optimizer] = "idle"]
        /\ item' = [item EXCEPT ![Optimizer] = NoAction]
        /\ \A e \in Deciders \ {Optimizer} : intent'[e] = intent[e]
        /\ todo' \subseteq todo
    BY <1>13 DEF CommitCycle, Forget, gatewayVars
  <2>2. \A a \in Actions :
          /\ holder'[a] = IF holder[a] = Optimizer THEN Nobody ELSE holder[a]
          /\ db'[a] = IF holder[a] = Optimizer THEN work[a] ELSE db[a]
    BY <1>13 DEF CommitCycle, Commit
  <2>3. \A e \in Deciders : pc'[e] = "deciding" =>
          db'[item'[e]].outcome # "none" /\ intent'[e] # "none"
    BY <2>1, <2>2 DEF OrdersOK, LocalsOK, TypeOK
  <2>4. \A a \in todo' : work'[a].outcome = "none" /\ NoncesOf(a)' = {}
    BY <2>1 DEF OrdersOK, NoncesOf, Sent
  <2>5. /\ \A n \in Nonces : (Sent(n) /\ cmd[n].actor = Optimizer)' =>
              /\ db'[request'[n].action].outcome = "none"
              /\ work'[request'[n].action].outcome = "none"
        /\ AutonomousOnce'
    BY <1>0, <2>1, <2>2 DEF OrdersOK, AutonomousOnce, Sent
  <2>6. /\ \A n \in Nonces : Sent(n)' => request'[n].action \in planned'
        /\ \A a \in Actions : a \notin planned' => db'[a].outcome = "none"
    BY <2>1, <2>2 DEF OrdersOK, LocksOK, Sent
  <2>7. /\ \A a \in Actions : holder'[a] = Optimizer => db'[a].outcome = "none"
        /\ \A a \in Actions : holder'[a] \in Deciders =>
             db'[a].outcome # "none" /\ work'[a].outcome # "none"
    BY <2>1, <2>2 DEF OrdersOK
  <2>8. QED
    BY <2>3, <2>4, <2>5, <2>6, <2>7 DEF OrdersOK
<1>14. CASE UNCHANGED vars
  BY <1>14
  DEF OrdersOK, AutonomousOnce, NoncesOf, Sent, vars, gatewayVars, sessionVars, tableVars,
      commandVars
<1>15. QED
  BY <1>1, <1>2, <1>3, <1>4, <1>5, <1>6, <1>7, <1>8, <1>9, <1>10, <1>11, <1>12, <1>13, <1>14
  DEF Next, Decide, RunCycle

-----------------------------------------------------------------------------
(* The inductive invariant holds at the start and is kept by every step.   *)
LEMMA IInvInit == Init => IInv
<1> SUFFICES ASSUME Init PROVE IInv
  OBVIOUS
<1> USE DispatchAssumption DEF Init, Sessions
<1>1. TypeOK
  BY TypeInit
<1>2. LocalsOK
  BY DEF LocalsOK
<1>3. LocksOK
  BY DEF LocksOK
<1>4. OrdersOK
  BY DEF OrdersOK, AutonomousOnce, NoncesOf, Sent, GatewayInit, NoRow
<1>5. QED
  BY <1>1, <1>2, <1>3, <1>4 DEF IInv

(* Every step keeps the inductive invariant.                               *)
LEMMA IInvStep == IInv /\ [Next]_vars => IInv'
BY TypeStep, LocalsStep, LocksStep, OrdersStep DEF IInv

(* The inductive invariant holds in every reachable state.                 *)
LEMMA IInvCorrect == Spec => []IInv
BY IInvInit, IInvStep, PTL DEF Spec

(* Every reachable state is well typed: in particular a Command, a Signal  *)
(* and an Approval only ever hold the statuses the platform's readers know.*)
THEOREM TypeCorrect == Spec => []TypeOK
<1>1. IInv => TypeOK
  BY DEF IInv
<1>2. QED
  BY <1>1, IInvCorrect, PTL

(* Two sessions never dispatch the same action at the same time, however   *)
(* many operators race and whatever is rolled back: both would hold the    *)
(* lock on its rows.                                                       *)
THEOREM DispatchExclusiveCorrect == Spec => []DispatchExclusive
<1>1. IInv => DispatchExclusive
  BY DispatchAssumption DEF IInv, LocksOK, DispatchExclusive, Dispatching
<1>2. QED
  BY <1>1, IInvCorrect, PTL

(* An action the optimizer dispatched on its own is never dispatched again,*)
(* by any number of operators, cycles and rolled-back transactions.        *)
THEOREM AutonomousOnceCorrect == Spec => []AutonomousOnce
<1>1. IInv => AutonomousOnce
  BY DEF IInv, OrdersOK
<1>2. QED
  BY <1>1, IInvCorrect, PTL

-----------------------------------------------------------------------------
(* Only the gateway lets a command past the final check or executes it.    *)
LEMMA OthersDoNotClear ==
    ASSUME TypeOK, LocalsOK, Next, ~Gateway
    PROVE  \A n \in Nonces : gw'[n] # gw[n] => gw'[n] \in {"preparing", "committing"}
<1>1. ASSUME NEW p \in Sessions, DispatchSignal(p)
      PROVE  \A n \in Nonces : gw'[n] # gw[n] => gw'[n] \in {"preparing", "committing"}
  <2>1. CASE PrepareReady(p)
    BY <2>1 DEF PrepareReady, TypeOK, GatewayTypeOK
  <2>2. ~PrepareReady(p) => UNCHANGED gw
    BY <1>1
    DEF DispatchSignal, EndDispatch, PrepareFailed, PrepareRejected, CommitFailed,
        CommitRejected, CommitAcknowledged, gatewayVars
  <2>3. QED
    BY <2>1, <2>2
<1>2. ASSUME NEW p \in Sessions, NEW a \in Actions, NEW n \in Nonces, SendPrepare(p, a, n)
      PROVE  \A m \in Nonces : gw'[m] # gw[m] => gw'[m] \in {"preparing", "committing"}
  BY <1>2 DEF SendPrepare, TypeOK, GatewayTypeOK
<1>3. ASSUME NEW d \in Deciders, Decide(d)
      PROVE  \A n \in Nonces : gw'[n] # gw[n] => gw'[n] \in {"preparing", "committing"}
  <2>1. ASSUME NEW n \in Nonces, ApproveAndDispatch(d, n)
        PROVE  item[d] \in Actions /\ d \in Sessions /\ SendPrepare(d, item[d], n)
    BY <2>1 DEF ApproveAndDispatch, LocalsOK, Sessions
  <2>2. QED
    BY <1>2, <1>3, <2>1
    DEF Decide, ReadApproval, CloseApproval, CommitDecision, gatewayVars
<1>4. CASE RunCycle
  <2>1. Optimizer \in Sessions
    BY DEF Sessions
  <2>2. QED
    BY <1>2, <1>4, <2>1
    DEF RunCycle, StartCycle, SkipAdvisory, RouteAutonomous, RouteForApproval, CommitCycle,
        gatewayVars
<1>5. QED
  BY <1>1, <1>3, <1>4 DEF Next, SetAutonomyPolicy, Rollback, gatewayVars

(* While the e-stop stays active no command passes the gateway's final     *)
(* check, so nothing executes but what had already passed it: no           *)
(* interleaving of operators, cycles, timeouts and rollbacks gets round it.*)
THEOREM EstopQuiescesCorrect == Spec => EstopQuiesces
<1> DEFINE A == (estop /\ estop') =>
         /\ InFlight' \subseteq InFlight
         /\ \A n \in Nonces : (Executed(n))' /\ ~Executed(n) => n \in InFlight
<1>1. IInv /\ [Next]_vars => [A]_vars
  <2> SUFFICES ASSUME IInv, Next PROVE A
    OBVIOUS
  <2>1. TypeOK /\ LocalsOK
    BY DEF IInv
  <2>2. CASE Gateway
    <3> USE <2>1 DEF TypeOK, GatewayTypeOK, InFlight, Executed
    <3>1. ASSUME NEW n \in Nonces, GatewayStep(n) PROVE A
      BY <3>1
      DEF GatewayStep, Prepare, CommitCheck, IndependentValidate, ScadaFault, Execute,
          GatewayCrash
    <3>2. ASSUME UNCHANGED gw PROVE A
      BY <3>2
    <3>3. QED
      BY <2>2, <3>1, <3>2 DEF Gateway, GatewayNext, SetEstop, Tick, AssetStateChanges
  <2>3. CASE ~Gateway
    <3>1. \A n \in Nonces : gw'[n] # gw[n] => gw'[n] \in {"preparing", "committing"}
      BY <2>1, <2>3, OthersDoNotClear
    <3>2. QED
      BY <3>1 DEF InFlight, Executed
  <2>4. QED
    BY <2>2, <2>3
<1>2. QED
  BY <1>1, IInvCorrect, PTL DEF Spec, EstopQuiesces

-----------------------------------------------------------------------------
(* The ledger: rows, answers and orders.                                  *)

(* A Command's answer is the gateway's, and the nonce that a session has   *)
(* in hand is its own, sent for its item and not answered yet.             *)
Unprepared == {"preparing", "ready", "refused", "crashed"}

AnswersTrue ==
    \A n \in Nonces :
        /\ cmd[n].ack = "acknowledged" => gw[n] = "executed"
        /\ cmd[n].ack = "rejected" => gw[n] = "nacked"
        /\ cmd[n].prepare = "rejected" => gw[n] \in Unprepared

NonceInHand ==
    \A p \in Sessions : Dispatching(p) =>
        /\ Sent(nonce[p]) /\ request[nonce[p]].action = item[p] /\ nonce[p] \in txn[p]
        /\ cmd[nonce[p]].ack = "pending"
        /\ pc[p] = "preparing" => gw[nonce[p]] \in Unprepared
        /\ pc[p] = "committing" => cmd[nonce[p]].prepare = "ready"

OwnNonces ==
    \A p, q \in Sessions :
        (p # q /\ Dispatching(p) /\ Dispatching(q)) => nonce[p] # nonce[q]

(* A decider that has sent nothing has no Command in its transaction.      *)
NothingSent == \A d \in Deciders : pc[d] \in {"idle", "deciding"} => txn[d] = {}

CommandsOK == AnswersTrue /\ NonceInHand /\ OwnNonces

-----------------------------------------------------------------------------
(* The gateway takes back no answer and clears nothing that it was not     *)
(* asked to commit.                                                        *)
LEMMA GatewayKeeps ==
    ASSUME TypeOK, Gateway
    PROVE  /\ UNCHANGED <<request, tableVars, sessionVars, commandVars>>
           /\ \A n \in Nonces :
                /\ gw[n] \in {"executed", "nacked"} => gw'[n] = gw[n]
                /\ gw[n] \in Unprepared => gw'[n] \in Unprepared
<1>1. ASSUME NEW n \in Nonces, GatewayStep(n)
      PROVE  /\ UNCHANGED request
             /\ \A m \in Nonces :
                  /\ gw[m] \in {"executed", "nacked"} => gw'[m] = gw[m]
                  /\ gw[m] \in Unprepared => gw'[m] \in Unprepared
  BY <1>1
  DEF GatewayStep, Prepare, CommitCheck, ScadaFault, Execute, GatewayCrash, Unprepared,
      TypeOK, GatewayTypeOK
<1>2. QED
  BY <1>1 DEF Gateway, GatewayNext, SetEstop, Tick, AssetStateChanges

(* A fresh nonce disturbs nothing that is known of the others.             *)
LEMMA FreshCommand ==
    ASSUME TypeOK, CommandsOK, NEW p \in Sessions, NEW a \in Actions, NEW n \in Nonces,
           ~Dispatching(p), SendPrepare(p, a, n), request'[n].action = a, Sent(n)'
    PROVE  CommandsOK'
<1>1. /\ \A m \in Nonces \ {n} :
           request'[m] = request[m] /\ gw'[m] = gw[m] /\ cmd'[m] = cmd[m]
      /\ gw'[n] = "preparing" /\ cmd'[n].ack = "pending" /\ cmd'[n].prepare = "pending"
      /\ \A q \in Sessions \ {p} :
           pc'[q] = pc[q] /\ item'[q] = item[q] /\ nonce'[q] = nonce[q] /\ txn'[q] = txn[q]
      /\ pc'[p] = "preparing" /\ item'[p] = a /\ nonce'[p] = n /\ n \in txn'[p]
  BY DEF SendPrepare, NewCommand, TypeOK, GatewayTypeOK
<1>2. \A q \in Sessions : Dispatching(q) => nonce[q] # n
  BY DEF SendPrepare, CommandsOK, NonceInHand, Sent
<1>3. AnswersTrue'
  BY <1>1 DEF CommandsOK, AnswersTrue, Unprepared
<1>4. \A q \in Sessions \ {p} : Dispatching(q) => nonce[q] \in Nonces \ {n}
  BY <1>2 DEF CommandsOK, NonceInHand, TypeOK
<1>5. NonceInHand'
  BY <1>1, <1>4 DEF CommandsOK, NonceInHand, Dispatching, Sent, Unprepared
<1>6. OwnNonces'
  BY <1>1, <1>2 DEF CommandsOK, OwnNonces, Dispatching
<1>7. QED
  BY <1>3, <1>5, <1>6 DEF CommandsOK

(* An answer, or its loss, is written to the Command it belongs to.        *)
LEMMA AnswerWritten ==
    ASSUME TypeOK, LocalsOK, CommandsOK, NEW p \in Sessions, DispatchSignal(p)
    PROVE  CommandsOK'
<1>1. /\ pc[p] \in {"preparing", "committing"}
      /\ UNCHANGED <<request, item, nonce, txn>>
      /\ \A q \in Sessions \ {p} : pc'[q] = pc[q]
      /\ pc'[p] \in {"committing", AfterDispatch(p)}
  <2>1. UNCHANGED txn
    BY DEF DispatchSignal, PrepareFailed, PrepareRejected, PrepareReady, CommitFailed,
           CommitRejected, CommitAcknowledged, EndDispatch
  <2>2. QED
    BY <2>1, DispatchEffect DEF TypeOK
<1>2. Dispatching(p) /\ nonce[p] \in Nonces
  BY <1>1 DEF Dispatching, LocalsOK
<1>3. /\ cmd[nonce[p]] \in CommandRow /\ cmd[nonce[p]].ack = "pending"
      /\ pc[p] = "preparing" => gw[nonce[p]] \in Unprepared
      /\ pc[p] = "committing" => cmd[nonce[p]].prepare = "ready"
  BY <1>2 DEF CommandsOK, NonceInHand, TypeOK
<1>4. \A m \in Nonces \ {nonce[p]} : cmd'[m] = cmd[m] /\ gw'[m] = gw[m]
  BY <1>2
  DEF DispatchSignal, PrepareFailed, PrepareRejected, PrepareReady, CommitFailed,
      CommitRejected, CommitAcknowledged, EndDispatch, TypeOK, GatewayTypeOK, gatewayVars
<1>5. \A q \in Sessions \ {p} : Dispatching(q) => nonce[q] \in Nonces \ {nonce[p]}
  BY <1>2 DEF CommandsOK, OwnNonces, Dispatching, LocalsOK
<1> DEFINE n == nonce[p]
<1>6. CASE PrepareReady(p)
  <2>1. /\ pc'[p] = "committing" /\ pc[p] = "preparing" /\ gw[n] = "ready"
        /\ gw'[n] = "committing"
        /\ cmd'[n].ack = "pending" /\ cmd'[n].prepare = "ready"
    BY <1>2, <1>3, <1>6 DEF PrepareReady, TypeOK, GatewayTypeOK, CommandRow
  <2>2. AnswersTrue'
    BY <1>4, <2>1 DEF CommandsOK, AnswersTrue
  <2>3. NonceInHand'
    BY <1>1, <1>2, <1>4, <1>5, <2>1 DEF CommandsOK, NonceInHand, Dispatching, Sent
  <2>4. OwnNonces'
    BY <1>1, <1>2, <2>1 DEF CommandsOK, OwnNonces, Dispatching
  <2>5. QED
    BY <2>2, <2>3, <2>4 DEF CommandsOK
<1>7. CASE ~PrepareReady(p)
  <2>1. UNCHANGED gw /\ pc'[p] = AfterDispatch(p)
    BY <1>7
    DEF DispatchSignal, PrepareFailed, PrepareRejected, CommitFailed, CommitRejected,
        CommitAcknowledged, EndDispatch, gatewayVars, TypeOK
  <2>2. /\ cmd'[n].ack = "acknowledged" => gw[n] = "executed"
        /\ cmd'[n].ack = "rejected" => gw[n] = "nacked"
        /\ cmd'[n].prepare = "rejected" => gw[n] \in Unprepared
    <3>1. ASSUME NEW row, NEW state, EndDispatch(p, row, state) PROVE cmd'[n] = row
      BY <1>2, <3>1 DEF EndDispatch, TypeOK
    <3>2. QED
      BY <1>3, <1>7, <3>1
      DEF DispatchSignal, PrepareFailed, PrepareRejected, CommitFailed, CommitRejected,
          CommitAcknowledged, CommandRow
  <2>3. AnswersTrue'
    BY <1>4, <2>1, <2>2 DEF CommandsOK, AnswersTrue
  <2>4. \A q \in Sessions : Dispatching(q)' => q # p /\ Dispatching(q)
    BY <1>1, <2>1 DEF Dispatching, AfterDispatch
  <2>5. NonceInHand'
    BY <1>1, <1>4, <1>5, <2>1, <2>4 DEF CommandsOK, NonceInHand, Dispatching, Sent
  <2>6. OwnNonces'
    BY <1>1, <2>4 DEF CommandsOK, OwnNonces
  <2>7. QED
    BY <2>3, <2>5, <2>6 DEF CommandsOK
<1>8. QED
  BY <1>6, <1>7

(* A step that neither sends nor answers leaves what is in hand.           *)
LEMMA CommandsKept ==
    ASSUME CommandsOK, UNCHANGED <<request, gw, cmd>>,
           \A q \in Sessions : Dispatching(q)' =>
             /\ pc'[q] = pc[q] /\ item'[q] = item[q] /\ nonce'[q] = nonce[q]
             /\ txn[q] \subseteq txn'[q]
    PROVE  CommandsOK'
<1>1. AnswersTrue'
  BY DEF CommandsOK, AnswersTrue
<1>2. NonceInHand'
  BY DEF CommandsOK, NonceInHand, Dispatching, Sent
<1>3. OwnNonces'
  BY DEF CommandsOK, OwnNonces, Dispatching
<1>4. QED
  BY <1>1, <1>2, <1>3 DEF CommandsOK

(* A transaction ends with its session, and the first Command comes later  *)
(* than the decision.                                                      *)
LEMMA NothingSentStep ==
    ASSUME TypeOK, LocalsOK, NothingSent, [Next]_vars
    PROVE  NothingSent'
<1> USE DispatchAssumption DEF Sessions
<1>1. ASSUME NEW p \in Sessions, Forget(p) PROVE NothingSent'
  BY <1>1 DEF Forget, NothingSent, TypeOK
<1>2. ASSUME NEW p \in Sessions, DispatchSignal(p) PROVE NothingSent'
  <2>1. UNCHANGED txn
    BY <1>2
    DEF DispatchSignal, PrepareFailed, PrepareRejected, PrepareReady, CommitFailed,
        CommitRejected, CommitAcknowledged, EndDispatch
  <2>2. \A d \in Deciders : pc'[d] \in {"idle", "deciding"} => pc'[d] = pc[d]
    BY <1>2, DispatchEffect DEF AfterDispatch, TypeOK
  <2>3. QED
    BY <2>1, <2>2 DEF NothingSent
<1>3. ASSUME NEW p \in Sessions, NEW a \in Actions, NEW n \in Nonces, SendPrepare(p, a, n)
      PROVE  NothingSent'
  BY <1>3 DEF SendPrepare, NothingSent, TypeOK
<1>4. ASSUME NEW d \in Deciders, NEW n \in Nonces, ApproveAndDispatch(d, n) PROVE NothingSent'
  BY <1>3, <1>4 DEF ApproveAndDispatch, LocalsOK
<1>5. ASSUME NEW a \in Actions, NEW n \in Nonces, RouteAutonomous(a, n) PROVE NothingSent'
  BY <1>3, <1>5 DEF RouteAutonomous
<1>6. ASSUME NEW d \in Deciders, NEW a \in Actions,
             NEW outcome \in {"approved", "rejected", "held"}, ReadApproval(d, a, outcome)
      PROVE  NothingSent'
  BY <1>6 DEF ReadApproval, NothingSent, TypeOK
<1>7. ASSUME NEW batch \in SUBSET Actions, NEW proposed \in BOOLEAN, StartCycle(batch, proposed)
      PROVE  NothingSent'
  BY <1>7 DEF StartCycle, NothingSent, TypeOK
<1>8. ASSUME UNCHANGED <<pc, txn>> PROVE NothingSent'
  BY <1>8 DEF NothingSent
<1>9. QED
  BY <1>1, <1>2, <1>4, <1>5, <1>6, <1>7, <1>8
  DEF Next, Decide, RunCycle, Gateway, SetAutonomyPolicy, Rollback, CloseApproval,
      CommitDecision, SkipAdvisory, RouteForApproval, CommitCycle, vars, sessionVars

(* Every step keeps Commands true to the gateway.                          *)
LEMMA CommandsStep ==
    ASSUME TypeOK, LocalsOK, TypeOK', CommandsOK, [Next]_vars
    PROVE  CommandsOK'
<1> USE DispatchAssumption DEF Sessions
<1>1. CASE Gateway
  <2>1. AnswersTrue'
    BY <1>1, GatewayKeeps DEF CommandsOK, AnswersTrue, commandVars
  <2>2. \A q \in Sessions : Dispatching(q) => nonce[q] \in Nonces
    BY DEF Dispatching, LocalsOK
  <2>3. NonceInHand'
    BY <1>1, <2>2, GatewayKeeps
    DEF CommandsOK, NonceInHand, Dispatching, Sent, commandVars, sessionVars
  <2>4. OwnNonces'
    BY <1>1, GatewayKeeps DEF CommandsOK, OwnNonces, Dispatching, sessionVars
  <2>5. QED
    BY <2>1, <2>3, <2>4 DEF CommandsOK
<1>2. ASSUME NEW pol \in AutonomyPolicies, SetAutonomyPolicy(pol) PROVE CommandsOK'
  BY <1>2, CommandsKept
  DEF SetAutonomyPolicy, gatewayVars, commandVars, sessionVars
<1>3. ASSUME NEW p \in Sessions, DispatchSignal(p) PROVE CommandsOK'
  BY <1>3, AnswerWritten
<1>4. ASSUME NEW p \in Sessions, Forget(p), UNCHANGED <<request, gw, cmd>> PROVE CommandsOK'
  <2>1. \A q \in Sessions : Dispatching(q)' =>
          /\ pc'[q] = pc[q] /\ item'[q] = item[q] /\ nonce'[q] = nonce[q]
          /\ txn[q] \subseteq txn'[q]
    BY <1>4 DEF Forget, Dispatching, TypeOK
  <2>2. QED
    BY <1>4, <2>1, CommandsKept
<1>5. ASSUME NEW p \in Sessions, Rollback(p) PROVE CommandsOK'
  BY <1>4, <1>5 DEF Rollback, gatewayVars, commandVars
<1>6. ASSUME NEW d \in Deciders, NEW a \in Actions,
             NEW outcome \in {"approved", "rejected", "held"}, ReadApproval(d, a, outcome)
      PROVE  CommandsOK'
  <2>1. \A q \in Sessions : Dispatching(q)' =>
          /\ pc'[q] = pc[q] /\ item'[q] = item[q] /\ nonce'[q] = nonce[q]
          /\ txn[q] \subseteq txn'[q]
    BY <1>6 DEF ReadApproval, Dispatching, TypeOK
  <2>2. QED
    BY <1>6, <2>1, CommandsKept DEF ReadApproval, gatewayVars, commandVars
<1>7. ASSUME NEW d \in Deciders, CloseApproval(d) \/ CommitDecision(d) PROVE CommandsOK'
  BY <1>4, <1>7 DEF CloseApproval, CommitDecision, gatewayVars, commandVars
<1>8. ASSUME NEW p \in Sessions, NEW a \in Actions, NEW n \in Nonces,
             ~Dispatching(p), SendPrepare(p, a, n)
      PROVE  CommandsOK'
  <2>1. request'[n] = [action |-> a, validity_end |-> work'[a].issued + Validity]
    BY <1>8 DEF SendPrepare, TypeOK, GatewayTypeOK
  <2>2. request'[n] \in CommandRequest
    <3>1. work'[a].issued \in Nat
      BY GatewayAssumption DEF TypeOK, Row
    <3>2. QED
      BY <2>1, <3>1 DEF CommandRequest
  <2>3. request'[n].action = a /\ Sent(n)'
    BY <2>1, <2>2 DEF Sent
  <2>4. QED
    BY <1>8, <2>3, FreshCommand
<1>9. ASSUME NEW d \in Deciders, NEW n \in Nonces, ApproveAndDispatch(d, n) PROVE CommandsOK'
  BY <1>8, <1>9 DEF ApproveAndDispatch, LocalsOK, Dispatching
<1>10. ASSUME NEW batch \in SUBSET Actions, NEW proposed \in BOOLEAN, StartCycle(batch, proposed)
      PROVE  CommandsOK'
  <2>1. \A q \in Sessions : Dispatching(q)' =>
          /\ pc'[q] = pc[q] /\ item'[q] = item[q] /\ nonce'[q] = nonce[q]
          /\ txn[q] \subseteq txn'[q]
    BY <1>10 DEF StartCycle, Dispatching, TypeOK
  <2>2. QED
    BY <1>10, <2>1, CommandsKept DEF StartCycle, gatewayVars, commandVars
<1>11. ASSUME NEW a \in Actions, SkipAdvisory(a) \/ RouteForApproval(a) PROVE CommandsOK'
  BY <1>11, CommandsKept DEF SkipAdvisory, RouteForApproval, gatewayVars, commandVars
<1>12. ASSUME NEW a \in Actions, NEW n \in Nonces, RouteAutonomous(a, n) PROVE CommandsOK'
  BY <1>8, <1>12 DEF RouteAutonomous, Dispatching
<1>13. CASE CommitCycle
  BY <1>4, <1>13 DEF CommitCycle, gatewayVars
<1>14. CASE UNCHANGED vars
  BY <1>14, CommandsKept DEF vars, gatewayVars, sessionVars, commandVars
<1>15. QED
  BY <1>1, <1>2, <1>3, <1>5, <1>6, <1>7, <1>9, <1>10, <1>11, <1>12, <1>13, <1>14
  DEF Next, Decide, RunCycle

-----------------------------------------------------------------------------
(* A Signal that says acknowledged has such a Command: a committed one, or *)
(* for the version inside a transaction one of that transaction.           *)
Backed(a, n) == n \in NoncesOf(a) /\ cmd[n].ack = "acknowledged"
Visible(a) == ledger \cup {n \in Nonces : \E p \in Sessions : holder[a] = p /\ n \in txn[p]}

SignalsBacked ==
    \A a \in Actions :
        /\ db[a].signal = "acknowledged" => \E n \in ledger : Backed(a, n)
        /\ work[a].signal = "acknowledged" => \E n \in Visible(a) : Backed(a, n)

(* What backs a Signal goes on to do so.                                   *)
LEMMA BackedStays ==
    ASSUME TypeOK, LocalsOK, CommandsOK, [Next]_vars, NEW a \in Actions, NEW n \in Nonces,
           Backed(a, n)
    PROVE  Backed(a, n)'
<1> USE DispatchAssumption DEF Sessions
<1>1. \A p \in Sessions : Dispatching(p) => nonce[p] # n
  BY DEF Backed, CommandsOK, NonceInHand
<1>2. Sent(n) /\ request[n].action = a /\ cmd[n].ack = "acknowledged"
  BY DEF Backed, NoncesOf
<1>3. request'[n] = request[n] /\ cmd'[n] = cmd[n]
  <2>1. CASE Gateway
    BY <2>1, GatewayKeeps DEF commandVars
  <2>2. ASSUME NEW p \in Sessions, DispatchSignal(p) PROVE request'[n] = request[n] /\ cmd'[n] = cmd[n]
    <3>1. UNCHANGED request /\ nonce[p] # n
      BY <1>1, <2>2, DispatchEffect DEF Dispatching
    <3>2. QED
      BY <2>2, <3>1
      DEF DispatchSignal, PrepareFailed, PrepareRejected, PrepareReady, CommitFailed,
          CommitRejected, CommitAcknowledged, EndDispatch, TypeOK
  <2>3. ASSUME NEW p \in Sessions, NEW b \in Actions, NEW m \in Nonces, SendPrepare(p, b, m)
        PROVE  request'[n] = request[n] /\ cmd'[n] = cmd[n]
    BY <1>2, <2>3 DEF SendPrepare, Sent, TypeOK, GatewayTypeOK
  <2>4. ASSUME NEW d \in Deciders, Decide(d)
        PROVE  request'[n] = request[n] /\ cmd'[n] = cmd[n]
    <3>1. ASSUME NEW m \in Nonces, ApproveAndDispatch(d, m)
          PROVE  item[d] \in Actions /\ SendPrepare(d, item[d], m)
      BY <3>1 DEF ApproveAndDispatch, LocalsOK
    <3>2. QED
      BY <2>3, <2>4, <3>1
      DEF Decide, ReadApproval, CloseApproval, CommitDecision, gatewayVars, commandVars
  <2>5. CASE RunCycle
    BY <2>3, <2>5
    DEF RunCycle, StartCycle, SkipAdvisory, RouteAutonomous, RouteForApproval, CommitCycle,
        gatewayVars, commandVars
  <2>6. QED
    BY <2>1, <2>2, <2>4, <2>5
    DEF Next, SetAutonomyPolicy, Rollback, vars, gatewayVars, commandVars
<1>4. QED
  BY <1>2, <1>3 DEF Backed, NoncesOf, Sent

(* The ledger only grows, and a Command of an open transaction stays with  *)
(* it.                                                                     *)
LEMMA SignalsKept ==
    ASSUME TypeOK, LocalsOK, CommandsOK, SignalsBacked, [Next]_vars, ledger \subseteq ledger',
           \A a \in Actions :
             /\ db'[a].signal \in {db[a].signal, "none"}
             /\ \/ work'[a].signal # "acknowledged"
                \/ work'[a].signal = db[a].signal
                \/ work'[a].signal = work[a].signal /\ Visible(a) \subseteq Visible(a)'
    PROVE  SignalsBacked'
<1>1. ASSUME NEW a \in Actions, db'[a].signal = "acknowledged"
      PROVE  \E n \in ledger' : Backed(a, n)'
  <2>1. PICK n \in ledger : Backed(a, n)
    BY <1>1 DEF SignalsBacked
  <2>2. QED
    BY <2>1, BackedStays DEF TypeOK
<1>2. ASSUME NEW a \in Actions, work'[a].signal = "acknowledged"
      PROVE  \E n \in Visible(a)' : Backed(a, n)'
  <2>1. ledger \subseteq Visible(a)'
    BY DEF Visible
  <2>2. \E n \in Visible(a)' : Backed(a, n)
    BY <1>2, <2>1 DEF SignalsBacked
  <2>3. PICK n \in Visible(a)' : Backed(a, n)
    BY <2>2
  <2>4. n \in Nonces
    BY <2>3 DEF Backed, NoncesOf
  <2>5. QED
    BY <2>3, <2>4, BackedStays
<1>3. QED
  BY <1>1, <1>2 DEF SignalsBacked

(* At a commit what a transaction shows becomes what everybody sees.       *)
LEMMA SignalsCommitted ==
    ASSUME TypeOK, LocalsOK, CommandsOK, SignalsBacked, [Next]_vars, NEW p \in Sessions,
           Commit(p), UNCHANGED work,
           \A q \in Sessions \ {p} : txn'[q] = txn[q]
    PROVE  SignalsBacked'
<1> USE DispatchAssumption DEF Sessions
<1>1. ASSUME NEW a \in Actions, holder[a] = p PROVE Visible(a) \subseteq ledger'
  BY <1>1 DEF Visible, Commit
<1>2. ASSUME NEW a \in Actions PROVE Visible(a) \subseteq Visible(a)'
  BY <1>1 DEF Visible, Commit
<1>3. ASSUME NEW a \in Actions, db'[a].signal = "acknowledged"
      PROVE  \E n \in ledger' : Backed(a, n)'
  <2>1. \E n \in ledger' : Backed(a, n)
    BY <1>1, <1>3 DEF SignalsBacked, Commit
  <2>2. PICK n \in ledger' : Backed(a, n)
    BY <2>1
  <2>3. n \in Nonces
    BY <2>2 DEF Backed, NoncesOf
  <2>4. QED
    BY <2>2, <2>3, BackedStays
<1>4. ASSUME NEW a \in Actions, work'[a].signal = "acknowledged"
      PROVE  \E n \in Visible(a)' : Backed(a, n)'
  <2>1. PICK n \in Visible(a) : Backed(a, n)
    BY <1>4 DEF SignalsBacked
  <2>2. n \in Nonces
    BY <2>1 DEF Backed, NoncesOf
  <2>3. QED
    BY <1>2, <2>1, <2>2, BackedStays
<1>5. QED
  BY <1>3, <1>4 DEF SignalsBacked

(* An acknowledgement is written to the Signal and to the Command behind   *)
(* it together.                                                            *)
LEMMA SignalAnswered ==
    ASSUME TypeOK, LocalsOK, LocksOK, CommandsOK, SignalsBacked, [Next]_vars,
           NEW p \in Sessions, DispatchSignal(p)
    PROVE  SignalsBacked'
<1> USE DispatchAssumption DEF Sessions
<1>1. /\ pc[p] \in {"preparing", "committing"}
      /\ UNCHANGED <<request, db, holder, txn, ledger>>
  <2>1. UNCHANGED <<txn, ledger>>
    BY DEF DispatchSignal, PrepareFailed, PrepareRejected, PrepareReady, CommitFailed,
           CommitRejected, CommitAcknowledged, EndDispatch
  <2>2. QED
    BY <2>1, DispatchEffect
<1>2. item[p] \in Actions /\ nonce[p] \in Nonces /\ holder[item[p]] = p
  BY <1>1 DEF LocalsOK, LocksOK
<1>3. \A a \in Actions \ {item[p]} : work'[a] = work[a]
  BY <1>2
  DEF DispatchSignal, PrepareFailed, PrepareRejected, PrepareReady, CommitFailed,
      CommitRejected, CommitAcknowledged, EndDispatch, TypeOK
<1>4. \A a \in Actions : Visible(a)' = Visible(a)
  BY <1>1 DEF Visible
<1>5. CASE ~CommitAcknowledged(p)
  <2>1. ASSUME NEW state, work' = [work EXCEPT ![item[p]].signal = state]
        PROVE  work'[item[p]].signal = state
    BY <1>2, <2>1 DEF TypeOK, Row
  <2>2. work'[item[p]].signal \in {"timed_out", "rejected", "sent"}
    BY <1>5, <2>1
    DEF DispatchSignal, PrepareFailed, PrepareRejected, PrepareReady, CommitFailed,
        CommitRejected, EndDispatch
  <2>3. \A a \in Actions :
          \/ work'[a].signal # "acknowledged"
          \/ work'[a].signal = work[a].signal /\ Visible(a) \subseteq Visible(a)'
    BY <1>3, <1>4, <2>2
  <2>4. QED
    BY <1>1, <2>3, SignalsKept
<1>6. CASE CommitAcknowledged(p)
  <2>1. Backed(item[p], nonce[p])'
    <3>1. Sent(nonce[p]) /\ request[nonce[p]].action = item[p]
      BY <1>1 DEF CommandsOK, NonceInHand, Dispatching
    <3>2. cmd'[nonce[p]].ack = "acknowledged"
      BY <1>2, <1>6 DEF CommitAcknowledged, EndDispatch, TypeOK, CommandRow
    <3>3. UNCHANGED <<item, nonce>>
      BY <1>6 DEF CommitAcknowledged, EndDispatch
    <3>4. QED
      BY <1>1, <1>2, <3>1, <3>2, <3>3 DEF Backed, NoncesOf, Sent
  <2>2. nonce[p] \in Visible(item[p])'
    <3>1. nonce[p] \in txn[p]
      BY <1>1 DEF CommandsOK, NonceInHand, Dispatching
    <3>2. UNCHANGED <<item, nonce>>
      BY <1>6 DEF CommitAcknowledged, EndDispatch
    <3>3. nonce[p] \in Visible(item[p])
      BY <1>2, <3>1 DEF Visible
    <3>4. QED
      BY <1>1, <3>2, <3>3 DEF Visible
  <2>3. UNCHANGED <<item, nonce>>
    BY <1>6 DEF CommitAcknowledged, EndDispatch
  <2>4. ASSUME NEW a \in Actions, work'[a].signal = "acknowledged"
        PROVE  \E n \in Visible(a)' : Backed(a, n)'
    <3>1. CASE a = item[p]
      BY <2>1, <2>2, <2>3, <3>1
    <3>2. CASE a # item[p]
      <4>1. PICK n \in Visible(a) : Backed(a, n)
        BY <1>3, <2>4, <3>2 DEF SignalsBacked
      <4>2. n \in Nonces
        BY <4>1 DEF Backed, NoncesOf
      <4>3. QED
        BY <1>4, <4>1, <4>2, BackedStays
    <3>3. QED
      BY <3>1, <3>2
  <2>5. ASSUME NEW a \in Actions, db'[a].signal = "acknowledged"
        PROVE  \E n \in ledger' : Backed(a, n)'
    <3>1. PICK n \in ledger : Backed(a, n)
      BY <1>1, <2>5 DEF SignalsBacked
    <3>2. QED
      BY <1>1, <3>1, BackedStays DEF TypeOK
  <2>6. QED
    BY <2>4, <2>5 DEF SignalsBacked
<1>7. QED
  BY <1>5, <1>6

(* Every step keeps Signals backed by Commands.                            *)
LEMMA SignalsStep ==
    ASSUME TypeOK, LocalsOK, LocksOK, NothingSent, CommandsOK, SignalsBacked, [Next]_vars
    PROVE  SignalsBacked'
<1> USE DispatchAssumption DEF Sessions
<1>1. ASSUME UNCHANGED <<ledger, db, work, holder, txn>> PROVE SignalsBacked'
  <2>1. \A a \in Actions : Visible(a)' = Visible(a)
    BY <1>1 DEF Visible
  <2>2. QED
    BY <1>1, <2>1, SignalsKept
<1>2. CASE Gateway
  BY <1>1, <1>2 DEF Gateway, commandVars, tableVars, sessionVars
<1>3. ASSUME NEW pol \in AutonomyPolicies, SetAutonomyPolicy(pol) PROVE SignalsBacked'
  BY <1>1, <1>3 DEF SetAutonomyPolicy, commandVars, tableVars, sessionVars
<1>4. ASSUME NEW p \in Sessions, DispatchSignal(p) PROVE SignalsBacked'
  BY <1>4, SignalAnswered
<1>5. ASSUME NEW p \in Sessions, Rollback(p) PROVE SignalsBacked'
  <2>1. ledger' = ledger /\ db' = db
    BY <1>5 DEF Rollback, commandVars
  <2>2. \A a \in Actions : IF holder[a] = p THEN work'[a] = db[a]
                           ELSE work'[a] = work[a] /\ holder'[a] = holder[a]
    BY <1>5 DEF Rollback
  <2>3. \A q \in Sessions \ {p} : txn'[q] = txn[q]
    BY <1>5 DEF Rollback, Forget, TypeOK
  <2>4. \A a \in Actions : holder[a] # p => Visible(a) \subseteq Visible(a)'
    BY <2>1, <2>2, <2>3 DEF Visible
  <2>5. QED
    BY <2>1, <2>2, <2>4, SignalsKept
<1>6. ASSUME NEW d \in Deciders, NEW a \in Actions,
             NEW outcome \in {"approved", "rejected", "held"}, ReadApproval(d, a, outcome)
      PROVE  SignalsBacked'
  BY <1>1, <1>6 DEF ReadApproval, commandVars, tableVars
<1>7. ASSUME NEW d \in Deciders, CloseApproval(d) PROVE SignalsBacked'
  <2>1. item[d] \in Actions /\ holder[item[d]] = Nobody /\ ledger' = ledger /\ holder' = holder
    BY <1>7 DEF CloseApproval, LocalsOK, commandVars
  <2>2. \A a \in Actions \ {item[d]} : db'[a] = db[a] /\ work'[a] = work[a]
    BY <1>7, <2>1 DEF CloseApproval, TypeOK
  <2>3. db'[item[d]].signal = db[item[d]].signal /\ work'[item[d]].signal = db[item[d]].signal
    BY <1>7, <2>1 DEF CloseApproval, TypeOK, Row
  <2>4. \A q \in Sessions : txn'[q] = IF q = d THEN {} ELSE txn[q]
    BY <1>7 DEF CloseApproval, Forget, TypeOK
  <2>5. txn[d] = {}
    BY <1>7 DEF CloseApproval, NothingSent
  <2>6. \A a \in Actions : Visible(a) \subseteq Visible(a)'
    BY <2>1, <2>4, <2>5 DEF Visible
  <2>7. QED
    BY <2>1, <2>2, <2>3, <2>6, SignalsKept
<1>8. ASSUME NEW d \in Deciders, NEW n \in Nonces, ApproveAndDispatch(d, n) PROVE SignalsBacked'
  <2>1. item[d] \in Actions /\ ledger' = ledger /\ db' = db
    BY <1>8 DEF ApproveAndDispatch, LocalsOK
  <2>2. /\ \A a \in Actions \ {item[d]} : work'[a] = work[a] /\ holder'[a] = holder[a]
        /\ \A q \in Sessions : txn[q] \subseteq txn'[q]
    BY <1>8, <2>1 DEF ApproveAndDispatch, SendPrepare, TypeOK
  <2>3. work'[item[d]].signal = "queued"
    BY <1>8, <2>1 DEF ApproveAndDispatch, TypeOK, Row
  <2>4. \A a \in Actions \ {item[d]} : Visible(a) \subseteq Visible(a)'
    BY <2>1, <2>2 DEF Visible
  <2>5. QED
    BY <2>1, <2>2, <2>3, <2>4, SignalsKept
<1>9. ASSUME NEW p \in Sessions, Commit(p), Forget(p), UNCHANGED work PROVE SignalsBacked'
  <2>1. \A q \in Sessions \ {p} : txn'[q] = txn[q]
    BY <1>9 DEF Forget, TypeOK
  <2>2. QED
    BY <1>9, <2>1, SignalsCommitted
<1>10. ASSUME NEW batch \in SUBSET Actions, NEW proposed \in BOOLEAN, StartCycle(batch, proposed)
       PROVE  SignalsBacked'
  <2>1. ledger' = ledger /\ db' = db /\ txn' = txn
    BY <1>10 DEF StartCycle, commandVars
  <2>2. \A a \in Actions : IF a \in batch THEN work'[a].signal = "none"
                           ELSE work'[a] = work[a] /\ holder'[a] = holder[a]
    BY <1>10 DEF StartCycle, NoRow
  <2>3. \A a \in Actions \ batch : Visible(a) \subseteq Visible(a)'
    BY <2>1, <2>2 DEF Visible
  <2>4. QED
    BY <2>1, <2>2, <2>3, SignalsKept
<1>11. ASSUME NEW a \in Actions, SkipAdvisory(a) PROVE SignalsBacked'
  BY <1>1, <1>11 DEF SkipAdvisory, commandVars, tableVars
<1>12. ASSUME NEW a \in Actions, RouteForApproval(a) PROVE SignalsBacked'
  <2>1. UNCHANGED <<ledger, db, holder, txn>>
    BY <1>12 DEF RouteForApproval, commandVars
  <2>2. \A b \in Actions : Visible(b) \subseteq Visible(b)'
    BY <2>1 DEF Visible
  <2>3. \A b \in Actions \ {a} : work'[b] = work[b]
    BY <1>12 DEF RouteForApproval, TypeOK
  <2>4. work'[a].signal = "approval_required"
    BY <1>12 DEF RouteForApproval, TypeOK, Row
  <2>5. QED
    BY <2>1, <2>2, <2>3, <2>4, SignalsKept
<1>13. ASSUME NEW a \in Actions, NEW n \in Nonces, RouteAutonomous(a, n) PROVE SignalsBacked'
  <2>1. UNCHANGED <<ledger, db, holder>>
    BY <1>13 DEF RouteAutonomous
  <2>2. /\ \A b \in Actions \ {a} : work'[b] = work[b]
        /\ \A q \in Sessions : txn[q] \subseteq txn'[q]
    BY <1>13 DEF RouteAutonomous, SendPrepare, TypeOK
  <2>3. work'[a].signal = "queued"
    BY <1>13 DEF RouteAutonomous, TypeOK, Row
  <2>4. \A b \in Actions : Visible(b) \subseteq Visible(b)'
    BY <2>1, <2>2 DEF Visible
  <2>5. QED
    BY <2>1, <2>2, <2>3, <2>4, SignalsKept
<1>14. CASE UNCHANGED vars
  BY <1>1, <1>14 DEF vars, commandVars, tableVars, sessionVars
<1>15. QED
  BY <1>2, <1>3, <1>4, <1>5, <1>6, <1>7, <1>8, <1>9, <1>10, <1>11, <1>12, <1>13, <1>14
  DEF Next, Decide, RunCycle, CommitDecision, CommitCycle

-----------------------------------------------------------------------------
(* What an answered Command and an acknowledged Signal rest on.            *)
LedgerInv == IInv /\ NothingSent /\ CommandsOK /\ SignalsBacked

(* It holds in every reachable state.                                      *)
LEMMA LedgerInvCorrect == Spec => []LedgerInv
<1>1. Init => LedgerInv
  <2> SUFFICES ASSUME Init PROVE LedgerInv
    OBVIOUS
  <2>1. IInv
    BY IInvInit
  <2>2. CommandsOK
    BY DEF Init, GatewayInit, CommandsOK, AnswersTrue, NonceInHand, OwnNonces, Dispatching,
           NewCommand
  <2>3. SignalsBacked
    BY DEF Init, NoRow, SignalsBacked
  <2>4. NothingSent
    BY DispatchAssumption DEF Init, NothingSent, Sessions
  <2>5. QED
    BY <2>1, <2>2, <2>3, <2>4 DEF LedgerInv
<1>2. LedgerInv /\ [Next]_vars => LedgerInv'
  BY IInvStep, NothingSentStep, CommandsStep, SignalsStep DEF LedgerInv, IInv
<1>3. QED
  BY <1>1, <1>2, PTL DEF Spec

(* What the committed ledger says of a dispatch is what the gateway did,   *)
(* and an acknowledged Signal has a Command that says so, however sessions *)
(* race, replies are lost and transactions rolled back.                    *)
THEOREM LedgerTruthCorrect == Spec => []LedgerTruth
<1>1. LedgerInv => LedgerTruth
  <2> SUFFICES ASSUME LedgerInv PROVE LedgerTruth
    OBVIOUS
  <2>1. ledger \subseteq Nonces
    BY DEF LedgerInv, IInv, TypeOK
  <2>2. QED
    BY <2>1
    DEF LedgerInv, CommandsOK, AnswersTrue, SignalsBacked, Backed, Unprepared, LedgerTruth,
        Executed
<1>2. QED
  BY <1>1, LedgerInvCorrect, PTL

-----------------------------------------------------------------------------
(* Modes.  An action has an Approval only under a mode that allows commands *)
(* and if it is one the gateway can be asked for; what is still to be      *)
(* routed has the mode of the policy its cycle resolved; and only a cycle  *)
(* gives an action a mode other than the committed one, which is none.     *)
Commanding == {"APPROVAL_REQUIRED", "AUTONOMOUS_BOUNDED"}

ModesOK ==
    /\ \A a \in Actions : db[a].outcome # "none" =>
         db[a].mode \in Commanding /\ a \notin AdvisoryOnly
    /\ \A a \in Actions : work[a].outcome # "none" =>
         work[a].mode \in Commanding /\ a \notin AdvisoryOnly
    /\ \A a \in todo : work[a].mode = ModeOf(snapshot) /\ ModeOf(snapshot) \in Commanding
    /\ \A a \in Actions : (holder[a] = Optimizer \/ a \notin planned) => db[a].mode = "none"
    /\ \A a \in Actions : holder[a] # Optimizer => work[a].mode = db[a].mode

(* PolicyBounds by action and actor, without planned.                      *)
Within(a, actor) ==
    /\ a \notin AdvisoryOnly
    /\ actor \in Deciders => db[a].mode \in Commanding
    /\ actor = Optimizer => a \in Unattended /\ work[a].mode \in {"none", "AUTONOMOUS_BOUNDED"}

(* Every order that was sent is within the bounds of who sent it.          *)
OrdersWithin == \A n \in Nonces : Sent(n) => Within(request[n].action, cmd[n].actor)

(* What was sent was sent for an action.                                   *)
LEMMA SentAction ==
    ASSUME TypeOK, NEW n \in Nonces, Sent(n)
    PROVE  request[n].action \in Actions
BY DEF Sent, TypeOK, GatewayTypeOK, CommandRequest

(* The answer to a dispatch leaves the modes alone.                        *)
LEMMA DispatchKeepsModes ==
    ASSUME TypeOK, LocalsOK, NEW p \in Sessions, DispatchSignal(p)
    PROVE  /\ \A a \in Actions : work'[a].mode = work[a].mode
           /\ UNCHANGED snapshot
<1>1. ASSUME NEW state, work' = [work EXCEPT ![item[p]].signal = state], NEW a \in Actions
      PROVE  work'[a].mode = work[a].mode
  BY <1>1 DEF TypeOK, Row
<1>2. QED
  BY <1>1
  DEF DispatchSignal, PrepareFailed, PrepareRejected, PrepareReady, CommitFailed,
      CommitRejected, CommitAcknowledged, EndDispatch

(* Every step keeps the modes.                                             *)
LEMMA ModesStep ==
    ASSUME TypeOK, LocalsOK, LocksOK, OrdersOK, ModesOK, [Next]_vars
    PROVE  ModesOK'
<1> USE DispatchAssumption DEF Sessions
<1>1. ASSUME UNCHANGED <<db, work, holder, planned, todo, snapshot>> PROVE ModesOK'
  BY <1>1 DEF ModesOK, ModeOf
<1>2. ASSUME NEW p \in Sessions, DispatchSignal(p) PROVE ModesOK'
  <2>1. /\ UNCHANGED <<db, holder, planned, todo, snapshot>>
        /\ \A a \in Actions : work'[a].outcome = work[a].outcome /\ work'[a].mode = work[a].mode
    BY <1>2, DispatchEffect, DispatchKeepsModes
  <2>2. QED
    BY <2>1 DEF ModesOK, ModeOf, TypeOK
<1>3. ASSUME NEW p \in Sessions, Rollback(p) PROVE ModesOK'
  <2>1. /\ UNCHANGED <<db, planned>>
        /\ \A a \in Actions :
             IF holder[a] = p THEN work'[a] = db[a] /\ holder'[a] = Nobody
             ELSE work'[a] = work[a] /\ holder'[a] = holder[a]
        /\ IF p = Optimizer THEN todo' = {} ELSE UNCHANGED <<todo, snapshot>>
    BY <1>3 DEF Rollback, Forget
  <2>2. \A a \in todo' : work'[a] = work[a] /\ snapshot' = snapshot /\ a \in todo
    BY <2>1 DEF LocksOK, TypeOK
  <2>3. QED
    BY <2>1, <2>2 DEF ModesOK, ModeOf
<1>4. ASSUME NEW d \in Deciders, CloseApproval(d) PROVE ModesOK'
  <2>1. item[d] \in Actions /\ holder[item[d]] = Nobody /\ db[item[d]].outcome # "none"
    BY <1>4 DEF CloseApproval, LocalsOK, OrdersOK
  <2>2. UNCHANGED <<holder, planned, todo, snapshot>>
    BY <1>4 DEF CloseApproval, Forget
  <2>3. /\ \A a \in Actions \ {item[d]} : db'[a] = db[a] /\ work'[a] = work[a]
        /\ db'[item[d]].mode = db[item[d]].mode /\ work'[item[d]].mode = db[item[d]].mode
    BY <1>4, <2>1 DEF CloseApproval, TypeOK, Row
  <2>4. QED
    BY <2>1, <2>2, <2>3 DEF ModesOK, ModeOf, LocksOK, TypeOK
<1>5. ASSUME NEW d \in Deciders, NEW n \in Nonces, ApproveAndDispatch(d, n) PROVE ModesOK'
  <2>1. item[d] \in Actions /\ holder[item[d]] = Nobody /\ db[item[d]].outcome # "none"
    BY <1>5 DEF ApproveAndDispatch, LocalsOK, OrdersOK
  <2>2. UNCHANGED <<db, planned, todo, snapshot>>
    BY <1>5 DEF ApproveAndDispatch
  <2>3. /\ \A a \in Actions \ {item[d]} : holder'[a] = holder[a] /\ work'[a] = work[a]
        /\ holder'[item[d]] = d /\ work'[item[d]].mode = db[item[d]].mode
    BY <1>5, <2>1 DEF ApproveAndDispatch, TypeOK, Row
  <2>4. QED
    BY <2>1, <2>2, <2>3 DEF ModesOK, ModeOf, LocksOK, TypeOK
<1>6. ASSUME NEW p \in Sessions, Commit(p), Forget(p), UNCHANGED <<work, planned>>
      PROVE  ModesOK'
  <2>1. \A a \in Actions :
          /\ holder'[a] = IF holder[a] = p THEN Nobody ELSE holder[a]
          /\ db'[a] = IF holder[a] = p THEN work[a] ELSE db[a]
    BY <1>6 DEF Commit
  <2>2. \A a \in todo' : a \in todo /\ snapshot' = snapshot
    BY <1>6 DEF Forget
  <2>3. \A a \in Actions : a \notin planned => holder[a] = Nobody
    BY DEF LocksOK
  <2>4. QED
    BY <1>6, <2>1, <2>2, <2>3 DEF ModesOK, ModeOf
<1>7. ASSUME NEW batch \in SUBSET Actions, NEW proposed \in BOOLEAN, StartCycle(batch, proposed)
      PROVE  ModesOK'
  <2>1. /\ db' = db /\ snapshot' = policy
        /\ \A a \in Actions :
             IF a \in batch
             THEN /\ work'[a].mode = ModeOf(policy) /\ work'[a].outcome = "none"
                  /\ holder'[a] = Optimizer /\ a \notin planned /\ a \in planned'
             ELSE work'[a] = work[a] /\ holder'[a] = holder[a] /\ (a \in planned' <=> a \in planned)
    BY <1>7 DEF StartCycle, NoRow
  <2>2. \A a \in todo' : a \in batch /\ ModeOf(policy) \in Commanding
    BY <1>7 DEF StartCycle, Commanding
  <2>3. QED
    BY <2>1, <2>2 DEF ModesOK, ModeOf
<1>8. ASSUME NEW a \in Actions, SkipAdvisory(a) PROVE ModesOK'
  BY <1>8 DEF SkipAdvisory, ModesOK, ModeOf, tableVars
<1>9. ASSUME NEW a \in Actions, RouteForApproval(a) PROVE ModesOK'
  <2>1. /\ UNCHANGED <<db, holder, planned, snapshot>> /\ todo' = todo \ {a}
        /\ a \in todo /\ a \notin AdvisoryOnly
        /\ \A b \in Actions \ {a} : work'[b] = work[b]
        /\ work'[a].mode = work[a].mode
    BY <1>9 DEF RouteForApproval, TypeOK, Row
  <2>2. QED
    BY <2>1 DEF ModesOK, ModeOf, LocksOK, TypeOK
<1>10. ASSUME NEW a \in Actions, NEW n \in Nonces, RouteAutonomous(a, n) PROVE ModesOK'
  <2>1. /\ UNCHANGED <<db, holder, planned, snapshot>> /\ todo' = todo \ {a}
        /\ \A b \in Actions \ {a} : work'[b] = work[b]
        /\ work'[a].mode = work[a].mode /\ work'[a].outcome = work[a].outcome
    BY <1>10 DEF RouteAutonomous, TypeOK, Row
  <2>2. QED
    BY <2>1 DEF ModesOK, ModeOf, LocksOK, TypeOK
<1>11. QED
  BY <1>1, <1>2, <1>3, <1>4, <1>5, <1>6, <1>7, <1>8, <1>9, <1>10
  DEF Next, Decide, RunCycle, Gateway, SetAutonomyPolicy, ReadApproval, CommitDecision,
      CommitCycle, vars, sessionVars, tableVars

-----------------------------------------------------------------------------
(* What was sent stays within the bounds it was sent under.                *)
LEMMA WithinKept ==
    ASSUME TypeOK, OrdersWithin, UNCHANGED request,
           \A n \in Nonces : cmd'[n].actor = cmd[n].actor,
           \A n \in Nonces : Sent(n) =>
             LET a == request[n].action IN
               /\ cmd[n].actor \in Deciders =>
                    db'[a].mode = db[a].mode \/ db'[a].mode \in Commanding
               /\ cmd[n].actor = Optimizer =>
                    work'[a].mode \in {"none", "AUTONOMOUS_BOUNDED", work[a].mode}
    PROVE  OrdersWithin'
BY DEF OrdersWithin, Within, Sent, Unattended

(* A new order within the bounds leaves the others as they are.            *)
LEMMA WithinSent ==
    ASSUME TypeOK, OrdersWithin, NEW p \in Sessions, NEW b \in Actions, NEW n \in Nonces,
           SendPrepare(p, b, n), Within(b, p)', UNCHANGED db, request'[n].action = b,
           \A a \in Actions \ {b} : work'[a] = work[a],
           work'[b].mode = work[b].mode
    PROVE  OrdersWithin'
<1>1. /\ \A m \in Nonces \ {n} : request'[m] = request[m] /\ cmd'[m] = cmd[m]
      /\ cmd'[n].actor = p
  BY DEF SendPrepare, NewCommand, TypeOK, GatewayTypeOK
<1>2. ASSUME NEW m \in Nonces \ {n}, Sent(m)'
      PROVE  Within(request[m].action, cmd[m].actor)'
  <2>1. Sent(m) /\ request[m].action \in Actions
    BY <1>1, <1>2, SentAction DEF Sent
  <2>2. work'[request[m].action].mode = work[request[m].action].mode
    BY <2>1
  <2>3. QED
    BY <1>1, <2>1, <2>2 DEF OrdersWithin, Within, Unattended
<1>3. QED
  BY <1>1, <1>2 DEF OrdersWithin, Within, Unattended

(* Every step keeps what was sent within its bounds.                       *)
LEMMA WithinStep ==
    ASSUME TypeOK, TypeOK', LocalsOK, LocksOK, OrdersOK, ModesOK, OrdersWithin, [Next]_vars
    PROVE  OrdersWithin'
<1> USE DispatchAssumption DEF Sessions
<1>0. \A n \in Nonces : Sent(n) => request[n].action \in Actions \cap planned
  BY SentAction DEF OrdersOK
<1>1. ASSUME UNCHANGED <<db, work, request, cmd>> PROVE OrdersWithin'
  BY <1>1, WithinKept
<1>2. CASE Gateway
  BY <1>1, <1>2, GatewayKeeps DEF tableVars, commandVars
<1>3. ASSUME NEW p \in Sessions, DispatchSignal(p) PROVE OrdersWithin'
  BY <1>0, <1>3, DispatchEffect, DispatchKeepsModes, WithinKept
<1>4. ASSUME NEW p \in Sessions, Rollback(p) PROVE OrdersWithin'
  <2>1. /\ UNCHANGED <<db, request, cmd>>
        /\ \A a \in Actions : work'[a] = IF holder[a] = p THEN db[a] ELSE work[a]
    BY <1>4 DEF Rollback, gatewayVars, commandVars
  <2>2. \A a \in Actions : work'[a].mode \in {"none", work[a].mode}
    BY <2>1 DEF ModesOK
  <2>3. QED
    BY <1>0, <2>1, <2>2, WithinKept
<1>5. ASSUME NEW d \in Deciders, CloseApproval(d) PROVE OrdersWithin'
  <2>1. item[d] \in Actions /\ holder[item[d]] = Nobody
    BY <1>5 DEF CloseApproval, LocalsOK
  <2>2. UNCHANGED <<request, cmd>>
    BY <1>5 DEF CloseApproval, gatewayVars, commandVars
  <2>3. /\ \A a \in Actions \ {item[d]} : db'[a] = db[a] /\ work'[a] = work[a]
        /\ db'[item[d]].mode = db[item[d]].mode /\ work'[item[d]].mode = db[item[d]].mode
    BY <1>5, <2>1 DEF CloseApproval, TypeOK, Row
  <2>4. \A a \in Actions : db'[a].mode = db[a].mode /\ work'[a].mode = work[a].mode
    BY <2>1, <2>3 DEF ModesOK
  <2>5. QED
    BY <1>0, <2>2, <2>4, WithinKept
<1>6. ASSUME NEW p \in Sessions, Commit(p), UNCHANGED <<work, request, cmd>>
      PROVE  OrdersWithin'
  <2>1. \A a \in Actions : db'[a] = IF holder[a] = p THEN work[a] ELSE db[a]
    BY <1>6 DEF Commit
  <2>2. ASSUME NEW n \in Nonces, Sent(n), cmd[n].actor \in Deciders
        PROVE  db'[request[n].action].mode = db[request[n].action].mode
    <3>1. request[n].action \in Actions /\ db[request[n].action].mode # "none"
      BY <1>0, <2>2 DEF OrdersWithin, Within, Commanding
    <3>2. QED
      BY <2>1, <3>1 DEF ModesOK
  <2>3. QED
    BY <1>6, <2>2, WithinKept
<1>7. ASSUME NEW p \in Sessions, NEW a \in Actions, NEW n \in Nonces, SendPrepare(p, a, n)
      PROVE  request'[n].action = a
  <2>1. request'[n] = [action |-> a, validity_end |-> work'[a].issued + Validity]
    BY <1>7 DEF SendPrepare, TypeOK, GatewayTypeOK
  <2>2. QED
    BY <2>1
<1>8. ASSUME NEW d \in Deciders, NEW n \in Nonces, ApproveAndDispatch(d, n) PROVE OrdersWithin'
  <2>1. /\ item[d] \in Actions /\ holder[item[d]] = Nobody /\ db[item[d]].outcome # "none"
        /\ db' = db /\ SendPrepare(d, item[d], n)
    BY <1>8 DEF ApproveAndDispatch, LocalsOK, OrdersOK
  <2>2. /\ \A a \in Actions \ {item[d]} : work'[a] = work[a]
        /\ work'[item[d]].mode = work[item[d]].mode
    <3>1. /\ \A a \in Actions \ {item[d]} : work'[a] = work[a]
          /\ work'[item[d]].mode = db[item[d]].mode
      BY <1>8, <2>1 DEF ApproveAndDispatch, TypeOK, Row
    <3>2. QED
      BY <2>1, <3>1 DEF ModesOK
  <2>3. ASSUME NEW a \in Actions, a = item[d] PROVE Within(a, d)'
    BY <2>1, <2>3 DEF Within, ModesOK
  <2>4. ASSUME NEW a \in Actions, a = item[d] PROVE OrdersWithin'
    BY <1>7, <2>1, <2>2, <2>3, <2>4, WithinSent
  <2>5. QED
    BY <2>1, <2>4
<1>9. ASSUME NEW batch \in SUBSET Actions, NEW proposed \in BOOLEAN, StartCycle(batch, proposed)
      PROVE  OrdersWithin'
  <2>1. /\ UNCHANGED <<db, request, cmd>>
        /\ \A a \in Actions \cap planned : work'[a] = work[a]
    BY <1>9 DEF StartCycle, gatewayVars, commandVars
  <2>2. QED
    BY <1>0, <2>1, WithinKept
<1>10. ASSUME NEW a \in Actions, RouteForApproval(a) PROVE OrdersWithin'
  <2>1. /\ UNCHANGED <<db, request, cmd>>
        /\ \A b \in Actions : work'[b].mode = work[b].mode
    BY <1>10 DEF RouteForApproval, gatewayVars, commandVars, TypeOK, Row
  <2>2. QED
    BY <1>0, <2>1, WithinKept
<1>11. ASSUME NEW a \in Actions, NEW n \in Nonces, RouteAutonomous(a, n) PROVE OrdersWithin'
  <2>1. /\ db' = db /\ SendPrepare(Optimizer, a, n) /\ a \in todo \ AdvisoryOnly
        /\ AutonomousExecutionAllowed(snapshot, Risk[a])
    BY <1>11 DEF RouteAutonomous
  <2>2. /\ \A b \in Actions \ {a} : work'[b] = work[b]
        /\ work'[a].mode = work[a].mode
    BY <1>11 DEF RouteAutonomous, TypeOK, Row
  <2>3. a \in Unattended /\ work[a].mode = "AUTONOMOUS_BOUNDED"
    <3>1. snapshot \in AutonomyPolicies
      BY <2>1 DEF AutonomousExecutionAllowed, TypeOK
    <3>2. QED
      BY <2>1, <3>1 DEF AutonomousExecutionAllowed, Unattended, ModesOK, ModeOf
  <2>4. Within(a, Optimizer)'
    BY <2>1, <2>2, <2>3 DEF Within, Unattended
  <2>5. QED
    BY <1>7, <2>1, <2>2, <2>4, WithinSent
<1>12. QED
  BY <1>1, <1>2, <1>3, <1>4, <1>5, <1>6, <1>8, <1>9, <1>10, <1>11
  DEF Next, Decide, RunCycle, SetAutonomyPolicy, ReadApproval, CommitDecision, SkipAdvisory,
      CommitCycle, vars, gatewayVars, tableVars, commandVars

(* What the running cycle has sent so far, the policy it resolved allows.  *)
CycleAllowed ==
    /\ pc[Optimizer] = "idle" => txn[Optimizer] = {}
    /\ \A n \in txn[Optimizer] :
         Sent(n) /\ AutonomousExecutionAllowed(snapshot, Risk[request[n].action])

(* A policy that supersedes that one changes nothing of this.              *)
LEMMA CycleAllowedStep ==
    ASSUME TypeOK, LocalsOK, CycleAllowed, [Next]_vars, TypeOK'
    PROVE  CycleAllowed'
<1> USE DispatchAssumption DEF Sessions
<1>1. ASSUME UNCHANGED <<request, txn, snapshot>>, pc'[Optimizer] = "idle" => pc[Optimizer] = "idle"
      PROVE  CycleAllowed'
  BY <1>1 DEF CycleAllowed, Sent, AutonomousExecutionAllowed
<1>2. CASE Gateway
  BY <1>1, <1>2, GatewayKeeps DEF sessionVars
<1>3. ASSUME NEW p \in Sessions, DispatchSignal(p) PROVE CycleAllowed'
  <2>1. UNCHANGED <<txn, snapshot>>
    BY <1>3 DEF DispatchSignal, PrepareFailed, PrepareRejected, PrepareReady, CommitFailed,
                CommitRejected, CommitAcknowledged, EndDispatch
  <2>2. pc'[Optimizer] = "idle" => pc[Optimizer] = "idle"
    BY <1>3, DispatchEffect DEF AfterDispatch, TypeOK
  <2>3. QED
    BY <1>1, <1>3, <2>1, <2>2, DispatchEffect
<1>4. ASSUME NEW p \in Sessions, Forget(p), UNCHANGED request PROVE CycleAllowed'
  <2>1. CASE p = Optimizer
    BY <1>4, <2>1 DEF Forget, CycleAllowed, TypeOK
  <2>2. CASE p # Optimizer
    BY <1>4, <2>2 DEF Forget, CycleAllowed, TypeOK, Sent, AutonomousExecutionAllowed
  <2>3. QED
    BY <2>1, <2>2
<1>5. ASSUME NEW p \in Sessions, NEW a \in Actions, NEW n \in Nonces, SendPrepare(p, a, n),
             UNCHANGED snapshot,
             p = Optimizer => AutonomousExecutionAllowed(snapshot, Risk[a])
      PROVE  CycleAllowed'
  <2>1. /\ request'[n] = [action |-> a, validity_end |-> work'[a].issued + Validity]
        /\ ~Sent(n) /\ \A m \in Nonces \ {n} : request'[m] = request[m]
        /\ \A q \in Sessions \ {p} : pc'[q] = pc[q] /\ txn'[q] = txn[q]
        /\ pc'[p] = "preparing" /\ txn'[p] = txn[p] \cup {n}
    BY <1>5 DEF SendPrepare, Sent, TypeOK, GatewayTypeOK
  <2>2. request'[n] # NoRequest
    <3>1. work'[a].issued + Validity \in Nat
      BY GatewayAssumption DEF TypeOK, Row
    <3>2. QED
      BY <2>1, <3>1 DEF CommandRequest
  <2>3. \A m \in txn[Optimizer] : m \in Nonces \ {n}
    BY <2>1 DEF CycleAllowed, TypeOK
  <2>4. QED
    BY <1>5, <2>1, <2>2, <2>3 DEF CycleAllowed, Sent, AutonomousExecutionAllowed
<1>6. ASSUME NEW d \in Deciders, NEW n \in Nonces, ApproveAndDispatch(d, n) PROVE CycleAllowed'
  BY <1>5, <1>6 DEF ApproveAndDispatch, LocalsOK
<1>7. ASSUME NEW a \in Actions, NEW n \in Nonces, RouteAutonomous(a, n) PROVE CycleAllowed'
  BY <1>5, <1>7 DEF RouteAutonomous
<1>8. ASSUME NEW batch \in SUBSET Actions, NEW proposed \in BOOLEAN, StartCycle(batch, proposed)
      PROVE  CycleAllowed'
  BY <1>8 DEF StartCycle, CycleAllowed, TypeOK
<1>9. ASSUME NEW d \in Deciders, NEW a \in Actions,
             NEW outcome \in {"approved", "rejected", "held"}, ReadApproval(d, a, outcome)
      PROVE  CycleAllowed'
  BY <1>1, <1>9 DEF ReadApproval, TypeOK, gatewayVars
<1>10. QED
  BY <1>1, <1>2, <1>3, <1>4, <1>6, <1>7, <1>8, <1>9
  DEF Next, Decide, RunCycle, SetAutonomyPolicy, Rollback, CloseApproval, CommitDecision,
      SkipAdvisory, RouteForApproval, CommitCycle, vars, sessionVars, gatewayVars

-----------------------------------------------------------------------------
(* The modes, and the orders sent under them.                              *)
PolicyInv == IInv /\ ModesOK /\ OrdersWithin /\ CycleAllowed

(* They hold in every reachable state.                                     *)
LEMMA PolicyInvCorrect == Spec => []PolicyInv
<1>1. Init => PolicyInv
  <2> SUFFICES ASSUME Init PROVE PolicyInv
    OBVIOUS
  <2>1. IInv
    BY IInvInit
  <2>2. ModesOK
    BY DEF Init, NoRow, ModesOK
  <2>3. OrdersWithin
    BY DEF Init, GatewayInit, OrdersWithin, Sent
  <2>4. CycleAllowed
    BY DispatchAssumption DEF Init, CycleAllowed, Sessions
  <2>5. QED
    BY <2>1, <2>2, <2>3, <2>4 DEF PolicyInv
<1>2. PolicyInv /\ [Next]_vars => PolicyInv'
  BY IInvStep, ModesStep, WithinStep, CycleAllowedStep DEF PolicyInv, IInv
<1>3. QED
  BY <1>1, <1>2, PTL DEF Spec

(* A command reaches the gateway only for a planned action decided under a *)
(* mode that allows commands, unattended only within the ceiling and the   *)
(* safety case of a policy an administrator could submit, and of the one   *)
(* its cycle resolved: policy edits, racing operators and rolled-back      *)
(* cycles do not get round it.                                             *)
THEOREM PolicyBoundsCorrect == Spec => []PolicyBounds
<1>1. PolicyInv => PolicyBounds
  BY SentAction
  DEF PolicyInv, IInv, OrdersOK, OrdersWithin, Within, CycleAllowed, Commanding, PolicyBounds
<1>2. QED
  BY <1>1, PolicyInvCorrect, PTL

-----------------------------------------------------------------------------
(* The refinement.  Where an order stands, as the gateway has it.          *)
Standing(g) ==
    CASE g = "none" -> "none"
      [] g \in {"preparing", "ready", "committing"} -> "open"
      [] g \in {"refused", "nacked", "crashed"} -> "dropped"
      [] OTHER -> g

(* What the gateway does with one nonce happens to one order.              *)
LEMMA OneStanding ==
    ASSUME TypeOK, NEW n \in Nonces, NEW g, gw' = [gw EXCEPT ![n] = g]
    PROVE  statusOf' = [statusOf EXCEPT ![n] = Standing(g)]
<1>1. statusOf = [m \in Nonces |-> Standing(gw[m])]
  BY DEF statusOf, Standing
<1>2. statusOf' = [m \in Nonces |-> Standing(gw'[m])]
  BY DEF statusOf, Standing
<1>3. \A m \in Nonces : gw'[m] = IF m = n THEN g ELSE gw[m]
  BY DEF TypeOK, GatewayTypeOK
<1>4. QED
  BY <1>1, <1>2, <1>3

(* Orders change only where requests or the gateway do.                    *)
LEMMA OrderStays ==
    ASSUME UNCHANGED request, \A n \in Nonces : cmd'[n].actor = cmd[n].actor
    PROVE  orderOf' = orderOf
BY DEF orderOf, Sent, NoOrder

(* A step of the gateway clears, runs or drops an order, or none.          *)
LEMMA GatewayRefines ==
    ASSUME TypeOK, Gateway
    PROVE  Orders!OrdersNext \/ UNCHANGED <<orderOf, statusOf, estop>>
<1>1. orderOf' = orderOf
  BY GatewayKeeps, OrderStays DEF commandVars
<1>2. ASSUME NEW n \in Nonces, GatewayStep(n)
      PROVE  Orders!OrdersNext \/ UNCHANGED <<orderOf, statusOf, estop>>
  <2>1. UNCHANGED estop
    BY <1>2 DEF GatewayStep, Prepare, CommitCheck, ScadaFault, Execute, GatewayCrash
  <2>2. statusOf = [m \in Nonces |-> Standing(gw[m])]
    BY DEF statusOf, Standing
  <2>3. \A g : gw' = [gw EXCEPT ![n] = g] => statusOf' = [statusOf EXCEPT ![n] = Standing(g)]
    BY OneStanding
  <2>4. CASE Prepare(n)
    <3>1. CASE IndependentValidate(n)
      <4>1. statusOf[n] = "open" /\ statusOf' = [statusOf EXCEPT ![n] = "open"]
        BY <2>2, <2>3, <2>4, <3>1 DEF Prepare, Standing
      <4>2. QED
        BY <1>1, <2>1, <2>2, <4>1
    <3>2. CASE ~IndependentValidate(n)
      <4>1. statusOf[n] = "open" /\ statusOf' = [statusOf EXCEPT ![n] = "dropped"]
        BY <2>2, <2>3, <2>4, <3>2 DEF Prepare, Standing
      <4>2. QED
        BY <1>1, <2>1, <4>1 DEF Orders!OrdersNext, Orders!Drop
    <3>3. QED
      BY <3>1, <3>2
  <2>5. CASE CommitCheck(n)
    <3>1. CASE IndependentValidate(n)
      <4>1. statusOf[n] = "open" /\ statusOf' = [statusOf EXCEPT ![n] = "cleared"] /\ ~estop
        BY <2>2, <2>3, <2>5, <3>1 DEF CommitCheck, Standing, IndependentValidate
      <4>2. QED
        BY <1>1, <2>1, <4>1 DEF Orders!OrdersNext, Orders!Clear
    <3>2. CASE ~IndependentValidate(n)
      <4>1. statusOf[n] = "open" /\ statusOf' = [statusOf EXCEPT ![n] = "dropped"]
        BY <2>2, <2>3, <2>5, <3>2 DEF CommitCheck, Standing
      <4>2. QED
        BY <1>1, <2>1, <4>1 DEF Orders!OrdersNext, Orders!Drop
    <3>3. QED
      BY <3>1, <3>2
  <2>6. CASE Execute(n)
    <3>1. statusOf[n] = "cleared" /\ statusOf' = [statusOf EXCEPT ![n] = "executed"]
      BY <2>2, <2>3, <2>6 DEF Execute, Standing
    <3>2. QED
      BY <1>1, <2>1, <3>1 DEF Orders!OrdersNext, Orders!Run
  <2>7. CASE ScadaFault(n) \/ GatewayCrash(n)
    <3>1. /\ statusOf[n] \in {"open", "cleared"}
          /\ statusOf' = [statusOf EXCEPT ![n] = "dropped"]
      BY <2>2, <2>3, <2>7 DEF ScadaFault, GatewayCrash, Standing
    <3>2. QED
      BY <1>1, <2>1, <3>1 DEF Orders!OrdersNext, Orders!Drop
  <2>8. QED
    BY <1>2, <2>4, <2>5, <2>6, <2>7 DEF GatewayStep
<1>3. ASSUME NEW active \in BOOLEAN, SetEstop(active) PROVE Orders!OrdersNext
  <2>1. statusOf' = statusOf
    BY <1>3 DEF SetEstop, statusOf
  <2>2. QED
    BY <1>1, <1>3, <2>1 DEF SetEstop, Orders!OrdersNext, Orders!SetStop
<1>4. CASE Tick \/ AssetStateChanges
  <2>1. statusOf' = statusOf /\ UNCHANGED estop
    BY <1>4 DEF Tick, AssetStateChanges, statusOf
  <2>2. QED
    BY <1>1, <2>1
<1>5. QED
  BY <1>2, <1>3, <1>4 DEF Gateway, GatewayNext

(* A request to the gateway places an order.                               *)
LEMMA SendRefines ==
    ASSUME TypeOK, NEW p \in Sessions, NEW a \in Actions \ AdvisoryOnly, NEW n \in Nonces,
           SendPrepare(p, a, n), UNCHANGED estop,
           request'[n].action = a, Sent(n)',
           p = Optimizer => a \in Unattended /\ NoncesOf(a) = {},
           p # Optimizer => \A m \in NoncesOf(a) : cmd[m].actor # Optimizer
    PROVE  Orders!OrdersNext
<1> USE DispatchAssumption DEF Sessions
<1>1. orderOf[n] = NoOrder
  BY DEF SendPrepare, orderOf, Sent, NoOrder
<1>2. orderOf' = [orderOf EXCEPT ![n] = [action |-> a, by |-> p]]
  <2>1. cmd'[n].actor = p /\ \A m \in Nonces \ {n} : cmd'[m] = cmd[m] /\ request'[m] = request[m]
    BY DEF SendPrepare, NewCommand, TypeOK, GatewayTypeOK
  <2>2. orderOf' = [m \in Nonces |-> IF m = n THEN [action |-> a, by |-> p] ELSE orderOf[m]]
    BY <2>1 DEF orderOf, Sent
  <2>3. QED
    BY <2>2 DEF orderOf
<1>3. statusOf' = [statusOf EXCEPT ![n] = "open"]
  BY OneStanding DEF SendPrepare, Standing
<1>4. \A m \in Orders!OrdersFor(a) : m \in NoncesOf(a) /\ orderOf[m].by = cmd[m].actor
  BY DEF Orders!OrdersFor, orderOf, NoncesOf, NoOrder
<1>5. Orders!Place(n, a, p)
  BY <1>1, <1>2, <1>3, <1>4 DEF Orders!Place
<1>6. QED
  BY <1>5 DEF Orders!OrdersNext

(* Every step places, clears, runs or drops an order, sets the stop, or    *)
(* does nothing an order shows.                                            *)
LEMMA StepRefines ==
    ASSUME PolicyInv, PolicyInv', [Next]_vars
    PROVE  [Orders!OrdersNext]_<<orderOf, statusOf, estop>>
<1> USE DispatchAssumption DEF Sessions
<1>1. TypeOK /\ TypeOK' /\ LocalsOK /\ LocksOK /\ OrdersOK /\ ModesOK
  BY DEF PolicyInv, IInv
<1>2. CASE Gateway
  BY <1>1, <1>2, GatewayRefines
<1>3. ASSUME NEW p \in Sessions, DispatchSignal(p) PROVE UNCHANGED <<orderOf, statusOf, estop>>
  <2>1. orderOf' = orderOf
    BY <1>1, <1>3, DispatchEffect, OrderStays
  <2>2. UNCHANGED estop
    BY <1>3
    DEF DispatchSignal, PrepareFailed, PrepareRejected, PrepareReady, CommitFailed,
        CommitRejected, CommitAcknowledged, EndDispatch, gatewayVars
  <2>3. CASE PrepareReady(p)
    <3>1. nonce[p] \in Nonces
      BY <1>1, <2>3 DEF PrepareReady, LocalsOK
    <3>2. statusOf' = [statusOf EXCEPT ![nonce[p]] = "open"]
      BY <1>1, <2>3, <3>1, OneStanding DEF PrepareReady, Standing
    <3>3. statusOf[nonce[p]] = "open"
      BY <2>3, <3>1 DEF PrepareReady, statusOf
    <3>4. QED
      BY <2>1, <2>2, <3>2, <3>3 DEF statusOf
  <2>4. CASE ~PrepareReady(p)
    <3>1. UNCHANGED gw
      BY <1>3, <2>4
      DEF DispatchSignal, PrepareFailed, PrepareRejected, CommitFailed, CommitRejected,
          CommitAcknowledged, EndDispatch, gatewayVars
    <3>2. QED
      BY <2>1, <2>2, <3>1 DEF statusOf
  <2>5. QED
    BY <2>3, <2>4
<1>4. ASSUME UNCHANGED <<request, cmd, gw, estop>> PROVE UNCHANGED <<orderOf, statusOf, estop>>
  BY <1>4 DEF orderOf, statusOf, Sent
<1>5. ASSUME NEW p \in Sessions, NEW a \in Actions, NEW n \in Nonces, SendPrepare(p, a, n)
      PROVE  request'[n].action = a /\ Sent(n)'
  <2>1. request'[n] = [action |-> a, validity_end |-> work'[a].issued + Validity]
    BY <1>1, <1>5 DEF SendPrepare, TypeOK, GatewayTypeOK
  <2>2. work'[a].issued \in Nat
    BY <1>1, GatewayAssumption DEF TypeOK, Row
  <2>3. request'[n] \in CommandRequest
    BY <2>1, <2>2 DEF CommandRequest
  <2>4. QED
    BY <2>1, <2>3 DEF Sent
<1>6. ASSUME NEW d \in Deciders, NEW n \in Nonces, ApproveAndDispatch(d, n)
      PROVE  Orders!OrdersNext
  <2>1. /\ item[d] \in Actions /\ db[item[d]].outcome # "none"
        /\ SendPrepare(d, item[d], n) /\ UNCHANGED estop
    BY <1>1, <1>6 DEF ApproveAndDispatch, LocalsOK, OrdersOK
  <2>2. item[d] \notin AdvisoryOnly
    BY <1>1, <2>1 DEF ModesOK
  <2>3. \A m \in NoncesOf(item[d]) : cmd[m].actor # Optimizer
    BY <1>1, <2>1 DEF OrdersOK, NoncesOf
  <2>4. ASSUME NEW a \in Actions, a = item[d] PROVE Orders!OrdersNext
    BY <1>1, <1>5, <2>1, <2>2, <2>3, <2>4, SendRefines
  <2>5. QED
    BY <2>1, <2>4
<1>7. ASSUME NEW a \in Actions, NEW n \in Nonces, RouteAutonomous(a, n) PROVE Orders!OrdersNext
  <2>1. /\ SendPrepare(Optimizer, a, n) /\ UNCHANGED estop /\ a \in todo \ AdvisoryOnly
        /\ AutonomousExecutionAllowed(snapshot, Risk[a])
    BY <1>7 DEF RouteAutonomous
  <2>2. NoncesOf(a) = {}
    BY <1>1, <2>1 DEF OrdersOK
  <2>3. a \in Unattended
    BY <1>1, <2>1 DEF AutonomousExecutionAllowed, Unattended, TypeOK
  <2>4. QED
    BY <1>1, <1>5, <2>1, <2>2, <2>3, SendRefines
<1>8. QED
  BY <1>2, <1>3, <1>4, <1>6, <1>7
  DEF Next, Decide, RunCycle, SetAutonomyPolicy, Rollback, ReadApproval, CloseApproval,
      CommitDecision, StartCycle, SkipAdvisory, RouteForApproval, CommitCycle, vars,
      gatewayVars, commandVars

(* The dispatch path implements CommandOrders: every order that runs was   *)
(* placed by someone entitled to, was checked with the stop released, and  *)
(* runs once, for any number of operators, actions and attempts.           *)
THEOREM ImplementsOrdersCorrect == Spec => ImplementsOrders
<1>1. Init => Orders!OrdersInit
  BY DEF Init, GatewayInit, Orders!OrdersInit, orderOf, statusOf, Sent, NoOrder
<1>2. PolicyInv /\ PolicyInv' /\ [Next]_vars => [Orders!OrdersNext]_<<orderOf, statusOf, estop>>
  BY StepRefines
<1>3. QED
  BY <1>1, <1>2, PolicyInvCorrect, PTL
  DEF Spec, ImplementsOrders, Orders!OrdersSpec, Orders!orderVars

-----------------------------------------------------------------------------
(* Decisions.  What one session has sent for one action.                   *)
Busy == {"preparing", "committing", "finishing"}
By(p, a) == {n \in NoncesOf(a) : cmd[n].actor = p}

(* The Commands in a transaction are the session's own; an operator's has  *)
(* one from the dispatch on, for the item it decides.                      *)
Owned ==
    /\ \A p \in Sessions : \A n \in txn[p] : Sent(n) /\ cmd[n].actor = p
    /\ \A d \in Deciders :
         /\ pc[d] \notin Busy => txn[d] = {}
         /\ pc[d] \in Busy => txn[d] = {nonce[d]} /\ request[nonce[d]].action = item[d]
    /\ \A n \in ledger : Sent(n)

(* An operator who holds a row has approved it, in its transaction.        *)
HeldByApproval ==
    \A a \in Actions, d \in Deciders : holder[a] = d =>
        /\ pc[d] \in Busy /\ item[d] = a
        /\ work[a].outcome = "approved" /\ work[a].approver = d

(* What the running cycle has routed for approval, nobody has sent.        *)
RoutedUnsent ==
    \A a \in Actions : holder[a] = Optimizer =>
        work[a].outcome = "none" \/ (work[a].outcome = "pending" /\ NoncesOf(a) = {})

(* An operator who is at an item has no committed dispatch of it yet.      *)
Fresh ==
    \A d \in Deciders : pc[d] # "idle" => By(d, item[d]) \cap ledger = {}
Intended == \A d \in Deciders : pc[d] = "deciding" => intent[d] \in Decided

(* One dispatch for each rollback, and one more that is going on or kept.  *)
Spent(d, a) == (pc[d] \in Busy /\ item[d] = a) \/ By(d, a) \cap ledger # {}
Counted ==
    \A d \in Deciders, a \in Actions :
        /\ IsFiniteSet(By(d, a))
        /\ Cardinality(By(d, a)) <= crashes + 1
        /\ ~Spent(d, a) => Cardinality(By(d, a)) <= crashes

RowsOK == Owned /\ HeldByApproval /\ RoutedUnsent /\ Fresh /\ Intended
DecisionsOK == RowsOK /\ OutcomeMatchesLedger /\ Counted

(* The actors of OutcomeMatchesLedger are those with a committed dispatch. *)
LEMMA LedgerByActor ==
    ASSUME NEW a, NEW p
    PROVE  p \in {cmd[n].actor : n \in ledger \cap NoncesOf(a)} <=> By(p, a) \cap ledger # {}
BY DEF By

(* OutcomeMatchesLedger without the set of actors.                         *)
RowMatches(a) ==
    /\ db[a].outcome = "pending" => \A n \in ledger \cap NoncesOf(a) : FALSE
    /\ db[a].outcome = "approved" => \E n \in ledger \cap NoncesOf(a) : cmd[n].actor = db[a].approver
    /\ db[a].outcome \in {"rejected", "held"} =>
         \A n \in ledger \cap NoncesOf(a) : cmd[n].actor # db[a].approver
LEMMA MatchesByRow == OutcomeMatchesLedger <=> \A a \in Actions : RowMatches(a)
BY DEF OutcomeMatchesLedger, RowMatches

(* Whatever these are read from stays.                                     *)
LEMMA DecisionsStay ==
    ASSUME TypeOK, LocalsOK, DecisionsOK,
           UNCHANGED <<request, db, holder, item, intent, nonce, txn, ledger, crashes>>,
           \A a \in Actions : /\ work'[a].outcome = work[a].outcome
                              /\ work'[a].approver = work[a].approver,
           \A n \in Nonces : cmd'[n].actor = cmd[n].actor,
           \A d \in Deciders :
             \/ pc'[d] = pc[d]
             \/ pc[d] \in Busy /\ pc'[d] \in Busy
    PROVE  DecisionsOK'
<1> USE DEF Sessions
<1>1. \A a : NoncesOf(a)' = NoncesOf(a)
  BY DEF NoncesOf, Sent
<1>2. \A p, a : By(p, a)' = By(p, a)
  BY <1>1 DEF By, NoncesOf
<1>3. \A d \in Deciders : /\ pc'[d] \in Busy <=> pc[d] \in Busy
                          /\ pc'[d] = "idle" <=> pc[d] = "idle"
                          /\ pc'[d] = "deciding" => pc[d] = "deciding"
  BY DEF Busy
<1>4. Owned' /\ HeldByApproval' /\ RoutedUnsent'
  BY <1>1, <1>3 DEF DecisionsOK, RowsOK, Owned, HeldByApproval, RoutedUnsent, Sent, TypeOK
<1>5. Fresh' /\ Intended'
  BY <1>2, <1>3 DEF DecisionsOK, RowsOK, Fresh, Intended, TypeOK
<1>6. ledger \subseteq Nonces
  BY DEF TypeOK
<1>7. OutcomeMatchesLedger'
  BY <1>1, <1>6, MatchesByRow DEF DecisionsOK, RowMatches, OutcomeMatchesLedger
<1>8. Counted'
  BY <1>2, <1>3 DEF DecisionsOK, Counted, Spent
<1>9. QED
  BY <1>4, <1>5, <1>7, <1>8 DEF DecisionsOK, RowsOK

(* The end of a transaction, by commit or rollback, or a decision without  *)
(* a dispatch: nothing is sent, and the session keeps nothing.             *)
LEMMA SentUnchanged ==
    ASSUME UNCHANGED request, \A n \in Nonces : cmd'[n].actor = cmd[n].actor
    PROVE  \A p, a : NoncesOf(a)' = NoncesOf(a) /\ By(p, a)' = By(p, a)
<1>1. \A a : NoncesOf(a)' = NoncesOf(a)
  BY DEF NoncesOf, Sent
<1>2. QED
  BY <1>1 DEF By, NoncesOf

(* A fresh nonce, sent by p for a, adds to what p has sent for a, only.    *)
LEMMA SentAdds ==
    ASSUME TypeOK, TypeOK', NEW p \in Sessions, NEW a \in Actions, NEW n \in Nonces,
           SendPrepare(p, a, n)
    PROVE  /\ ~Sent(n) /\ Sent(n)' /\ request'[n].action = a /\ cmd'[n].actor = p
           /\ \A m \in Nonces \ {n} : request'[m] = request[m] /\ cmd'[m] = cmd[m]
           /\ \A b \in Actions \ {a} : NoncesOf(b)' = NoncesOf(b)
           /\ \A q, b : (q # p \/ b # a) => By(q, b)' = By(q, b)
           /\ By(p, a)' = By(p, a) \cup {n} /\ n \notin By(p, a)
<1>1. /\ request'[n] = [action |-> a, validity_end |-> work'[a].issued + Validity]
      /\ cmd'[n].actor = p /\ ~Sent(n)
      /\ \A m \in Nonces \ {n} : request'[m] = request[m] /\ cmd'[m] = cmd[m]
  BY DEF SendPrepare, NewCommand, Sent, TypeOK, GatewayTypeOK
<1>2. request'[n].action = a /\ Sent(n)'
  <2>1. work'[a].issued + Validity \in Nat
    BY GatewayAssumption, DispatchAssumption DEF TypeOK, Row
  <2>2. QED
    BY <1>1, <2>1, DispatchAssumption DEF CommandRequest, Sent
<1>3. \A b \in Actions \ {a} : NoncesOf(b)' = NoncesOf(b)
  BY <1>1, <1>2 DEF NoncesOf, Sent
<1>4. \A q, b : (q # p \/ b # a) => By(q, b)' = By(q, b)
  BY <1>1, <1>2 DEF By, NoncesOf, Sent
<1>5. By(p, a)' = By(p, a) \cup {n} /\ n \notin By(p, a)
  BY <1>1, <1>2 DEF By, NoncesOf, Sent
<1>6. QED
  BY <1>1, <1>2, <1>3, <1>4, <1>5

(* Rows and Commands that stay go on agreeing.                             *)
LEMMA MatchesKept ==
    ASSUME OutcomeMatchesLedger, UNCHANGED <<request, db, ledger, cmd>>
    PROVE  OutcomeMatchesLedger'
BY DEF OutcomeMatchesLedger, NoncesOf, Sent

(* A read that finds the item pending.                                     *)
LEMMA ReadDecisions ==
    ASSUME TypeOK, LocalsOK, DecisionsOK, NEW d \in Deciders, NEW a \in Actions,
           NEW outcome \in {"approved", "rejected", "held"}, ReadApproval(d, a, outcome)
    PROVE  DecisionsOK'
<1> USE DEF Sessions
<1>1. /\ UNCHANGED <<request, db, work, holder, nonce, txn, ledger, cmd, crashes>>
      /\ pc[d] = "idle" /\ pc'[d] = "deciding" /\ db[a].outcome = "pending"
      /\ item'[d] = a /\ intent'[d] \in Decided
      /\ \A p \in Sessions \ {d} : pc'[p] = pc[p] /\ item'[p] = item[p]
      /\ \A e \in Deciders \ {d} : intent'[e] = intent[e]
  BY DEF ReadApproval, tableVars, gatewayVars, commandVars, TypeOK, Decided
<1>2. \A p, b : NoncesOf(b)' = NoncesOf(b) /\ By(p, b)' = By(p, b)
  BY <1>1, SentUnchanged
<1>3. \A e \in Deciders : pc'[e] \in Busy <=> pc[e] \in Busy
  BY <1>1 DEF Busy
<1>4. Owned'
  BY <1>1, <1>3 DEF DecisionsOK, RowsOK, Owned, Sent, Busy
<1>5. HeldByApproval' /\ RoutedUnsent'
  BY <1>1, <1>2 DEF DecisionsOK, RowsOK, HeldByApproval, RoutedUnsent, Busy
<1>6. By(d, a) \cap ledger = {}
  BY <1>1, LedgerByActor DEF DecisionsOK, OutcomeMatchesLedger
<1>7. Fresh' /\ Intended'
  BY <1>1, <1>2, <1>6 DEF DecisionsOK, RowsOK, Fresh, Intended
<1>8. OutcomeMatchesLedger'
  BY <1>1, <1>2 DEF DecisionsOK, OutcomeMatchesLedger
<1>9. \A e \in Deciders, b \in Actions : Spent(e, b)' <=> Spent(e, b)
  BY <1>1, <1>2, <1>3 DEF Spent, Busy
<1>10. Counted'
  BY <1>1, <1>2, <1>9 DEF DecisionsOK, Counted
<1>11. QED
  BY <1>4, <1>5, <1>7, <1>8, <1>10 DEF DecisionsOK, RowsOK

(* A decision that sends nothing is written by someone who sent nothing.   *)
LEMMA CloseDecisions ==
    ASSUME TypeOK, LocalsOK, DecisionsOK, NEW d \in Deciders, CloseApproval(d)
    PROVE  DecisionsOK'
<1> USE DispatchAssumption DEF Sessions
<1> DEFINE a == item[d]
<1>1. /\ UNCHANGED <<request, holder, ledger, cmd, crashes>>
      /\ pc[d] = "deciding" /\ pc'[d] = "idle" /\ txn'[d] = {}
      /\ a \in Actions /\ holder[a] = Nobody
      /\ intent[d] \in {"rejected", "held", "expired"}
      /\ \A p \in Sessions \ {d} : /\ pc'[p] = pc[p] /\ item'[p] = item[p]
                                   /\ nonce'[p] = nonce[p] /\ txn'[p] = txn[p]
      /\ \A e \in Deciders \ {d} : intent'[e] = intent[e]
      /\ \A b \in Actions \ {a} : db'[b] = db[b] /\ work'[b] = work[b]
  BY DEF CloseApproval, Forget, gatewayVars, commandVars, TypeOK, LocalsOK, DecisionsOK, RowsOK,
         Intended, Decided
<1>2. db'[a].outcome = intent[d] /\ (intent[d] # "expired" => db'[a].approver = d)
  BY <1>1 DEF CloseApproval, TypeOK, Row
<1>3. \A p, b : NoncesOf(b)' = NoncesOf(b) /\ By(p, b)' = By(p, b)
  BY <1>1, SentUnchanged
<1>4. \A e \in Deciders : pc'[e] \in Busy <=> pc[e] \in Busy
  BY <1>1 DEF Busy
<1>5. Owned'
  BY <1>1, <1>4 DEF DecisionsOK, RowsOK, Owned, Sent, Busy
<1>6. HeldByApproval' /\ RoutedUnsent'
  BY <1>1, <1>3 DEF DecisionsOK, RowsOK, HeldByApproval, RoutedUnsent, Busy
<1>7. Fresh' /\ Intended'
  BY <1>1, <1>3 DEF DecisionsOK, RowsOK, Fresh, Intended
<1>8. By(d, a) \cap ledger = {}
  BY <1>1 DEF DecisionsOK, RowsOK, Fresh
<1>9. OutcomeMatchesLedger'
  <2>1. ASSUME NEW b \in Actions PROVE RowMatches(b)'
    <3>1. CASE b # a
      <4>1. RowMatches(b)
        BY MatchesByRow DEF DecisionsOK
      <4>2. QED
        BY <1>1, <1>3, <3>1, <4>1 DEF RowMatches
    <3>2. CASE b = a
      BY <1>1, <1>2, <1>3, <1>8, <3>2 DEF RowMatches, By
    <3>3. QED
      BY <3>1, <3>2
  <2>2. QED
    BY <2>1 DEF OutcomeMatchesLedger, RowMatches
<1>10. \A e \in Deciders, b \in Actions : Spent(e, b)' <=> Spent(e, b)
  BY <1>1, <1>3, <1>4 DEF Spent, Busy
<1>11. Counted'
  BY <1>1, <1>3, <1>10 DEF DecisionsOK, Counted
<1>12. QED
  BY <1>5, <1>6, <1>7, <1>9, <1>11 DEF DecisionsOK, RowsOK

(* An approval adds one to what its operator has sent.                     *)
LEMMA ApproveDecisions ==
    ASSUME TypeOK, TypeOK', LocalsOK, LocksOK, OrdersOK, DecisionsOK,
           NEW d \in Deciders, NEW n \in Nonces, ApproveAndDispatch(d, n),
           NEW a \in Actions, item[d] = a
    PROVE  DecisionsOK'
<1> USE DispatchAssumption DEF Sessions
<1>1. /\ UNCHANGED <<db, ledger, crashes, intent>>
      /\ pc[d] = "deciding" /\ pc'[d] = "preparing" /\ item' = item
      /\ holder[a] = Nobody /\ holder'[a] = d /\ nonce'[d] = n /\ txn'[d] = txn[d] \cup {n}
      /\ work'[a].outcome = "approved" /\ work'[a].approver = d
      /\ \A p \in Sessions \ {d} : pc'[p] = pc[p] /\ nonce'[p] = nonce[p] /\ txn'[p] = txn[p]
      /\ \A b \in Actions \ {a} : holder'[b] = holder[b] /\ work'[b] = work[b]
      /\ SendPrepare(d, a, n)
  BY DEF ApproveAndDispatch, SendPrepare, TypeOK, Row, LocalsOK
<1>2. /\ ~Sent(n) /\ Sent(n)' /\ request'[n].action = a /\ cmd'[n].actor = d
      /\ \A m \in Nonces \ {n} : request'[m] = request[m] /\ cmd'[m] = cmd[m]
      /\ \A b \in Actions \ {a} : NoncesOf(b)' = NoncesOf(b)
      /\ \A q, b : (q # d \/ b # a) => By(q, b)' = By(q, b)
      /\ By(d, a)' = By(d, a) \cup {n} /\ n \notin By(d, a)
  BY <1>1, SentAdds
<1>3. /\ txn[d] = {} /\ n \notin ledger
      /\ \A p \in Sessions : n \notin txn[p]
      /\ \A e \in Deciders : pc[e] \in Busy => nonce[e] \in Nonces \ {n}
  BY <1>1, <1>2 DEF DecisionsOK, RowsOK, Owned, Busy, TypeOK
<1>4. \A e \in Deciders \ {d} : pc'[e] \in Busy <=> pc[e] \in Busy
  BY <1>1 DEF Busy
<1>5. Owned'
  <2>1. \A p \in Sessions : \A m \in txn'[p] : Sent(m)' /\ cmd'[m].actor = p
    BY <1>1, <1>2, <1>3 DEF DecisionsOK, RowsOK, Owned, Sent, TypeOK
  <2>2. \A m \in ledger' : Sent(m)'
    BY <1>1, <1>2, <1>3 DEF DecisionsOK, RowsOK, Owned, Sent, TypeOK
  <2>3. \A e \in Deciders :
          /\ pc'[e] \notin Busy => txn'[e] = {}
          /\ pc'[e] \in Busy => txn'[e] = {nonce'[e]} /\ request'[nonce'[e]].action = item'[e]
    BY <1>1, <1>2, <1>3, <1>4 DEF DecisionsOK, RowsOK, Owned, Busy
  <2>4. QED
    BY <2>1, <2>2, <2>3 DEF Owned
<1>6. HeldByApproval'
  BY <1>1, <1>4 DEF DecisionsOK, RowsOK, HeldByApproval, Busy
<1>7. RoutedUnsent'
  BY <1>1, <1>2 DEF DecisionsOK, RowsOK, RoutedUnsent
<1>8. \A p, b : By(p, b)' \cap ledger' = By(p, b) \cap ledger
  <2>1. ASSUME NEW p, NEW b PROVE By(p, b)' \cap ledger' = By(p, b) \cap ledger
    <3>1. CASE p = d /\ b = a
      BY <1>1, <1>2, <1>3, <3>1
    <3>2. CASE ~(p = d /\ b = a)
      BY <1>1, <1>2, <3>2
    <3>3. QED
      BY <3>1, <3>2
  <2>2. QED
    BY <2>1
<1>9. Fresh' /\ Intended'
  BY <1>1, <1>8 DEF DecisionsOK, RowsOK, Fresh, Intended
<1>10. OutcomeMatchesLedger'
  <2>1. \A b \in Actions : ledger \cap NoncesOf(b)' = ledger \cap NoncesOf(b)
    <3>1. NoncesOf(a)' = NoncesOf(a) \cup {n}
      BY <1>2 DEF NoncesOf, Sent
    <3>2. QED
      BY <1>2, <1>3, <3>1
  <2>2. \A m \in ledger : cmd'[m].actor = cmd[m].actor
    BY <1>2, <1>3 DEF TypeOK
  <2>3. \A b \in Actions : RowMatches(b)
    BY MatchesByRow DEF DecisionsOK
  <2>4. \A b \in Actions : RowMatches(b)'
    BY <1>1, <2>1, <2>2, <2>3 DEF RowMatches
  <2>5. QED
    BY <2>4 DEF OutcomeMatchesLedger, RowMatches
<1>11. Counted'
  <2>1. ASSUME NEW e \in Deciders, NEW b \in Actions, ~(e = d /\ b = a)
        PROVE  /\ IsFiniteSet(By(e, b)')
               /\ Cardinality(By(e, b)') <= crashes' + 1
               /\ ~Spent(e, b)' => Cardinality(By(e, b)') <= crashes'
    <3>1. By(e, b)' = By(e, b)
      BY <1>2, <2>1
    <3>2. Spent(e, b) => Spent(e, b)'
      BY <1>1, <1>4, <1>8, <2>1 DEF Spent, Busy
    <3>3. QED
      BY <1>1, <3>1, <3>2 DEF DecisionsOK, Counted
  <2>2. /\ IsFiniteSet(By(d, a)')
        /\ Cardinality(By(d, a)') <= crashes' + 1
        /\ Spent(d, a)'
    <3>1. ~Spent(d, a)
      BY <1>1 DEF Spent, Busy, DecisionsOK, RowsOK, Fresh
    <3>2. IsFiniteSet(By(d, a)) /\ Cardinality(By(d, a)) <= crashes
      BY <1>1, <3>1 DEF DecisionsOK, Counted
    <3>3. /\ IsFiniteSet(By(d, a)')
          /\ Cardinality(By(d, a)') = Cardinality(By(d, a)) + 1
      BY <1>2, <3>2, FS_AddElement
    <3>4. Cardinality(By(d, a)) \in Nat /\ crashes \in Nat
      BY <3>2, FS_CardinalityType DEF TypeOK
    <3>5. Spent(d, a)'
      BY <1>1 DEF Spent, Busy
    <3>6. QED
      BY <1>1, <3>2, <3>3, <3>4, <3>5
  <2>3. QED
    BY <2>1, <2>2 DEF Counted
<1>12. QED
  BY <1>5, <1>6, <1>7, <1>9, <1>10, <1>11 DEF DecisionsOK, RowsOK

(* A commit makes the operator's dispatch and its outcome visible together.*)
LEMMA CommitDecisions ==
    ASSUME TypeOK, TypeOK', LocalsOK, LocksOK, OrdersOK, DecisionsOK,
           NEW d \in Deciders, CommitDecision(d),
           NEW a \in Actions, item[d] = a, NEW n, nonce[d] = n
    PROVE  DecisionsOK'
<1> USE DispatchAssumption DEF Sessions
<1>1. /\ UNCHANGED <<request, work, cmd, crashes>>
      /\ pc[d] = "finishing" /\ pc'[d] = "idle" /\ txn'[d] = {}
      /\ holder[a] = d /\ ledger' = ledger \cup txn[d]
      /\ \A p \in Sessions \ {d} : /\ pc'[p] = pc[p] /\ item'[p] = item[p]
                                   /\ nonce'[p] = nonce[p] /\ txn'[p] = txn[p]
      /\ \A e \in Deciders \ {d} : intent'[e] = intent[e]
      /\ \A b \in Actions : /\ holder'[b] = IF holder[b] = d THEN Nobody ELSE holder[b]
                            /\ db'[b] = IF holder[b] = d THEN work[b] ELSE db[b]
  BY DEF CommitDecision, Commit, Forget, gatewayVars, TypeOK, LocalsOK, LocksOK
<1>2. \A p, b : NoncesOf(b)' = NoncesOf(b) /\ By(p, b)' = By(p, b)
  BY <1>1, SentUnchanged
<1>3. /\ txn[d] = {n} /\ Sent(n) /\ request[n].action = a /\ cmd[n].actor = d /\ n \in Nonces
      /\ \A b \in Actions : holder[b] = d => b = a
      /\ work[a].outcome = "approved" /\ work[a].approver = d
  BY <1>1 DEF DecisionsOK, RowsOK, Owned, HeldByApproval, Busy, TypeOK
<1>4. n \in By(d, a) /\ \A p, b : (p # d \/ b # a) => n \notin By(p, b)
  BY <1>3 DEF By, NoncesOf
<1>5. \A e \in Deciders \ {d} : pc'[e] \in Busy <=> pc[e] \in Busy
  BY <1>1 DEF Busy
<1>6. Owned'
  BY <1>1, <1>3, <1>5 DEF DecisionsOK, RowsOK, Owned, Sent, Busy
<1>7. HeldByApproval' /\ RoutedUnsent'
  BY <1>1, <1>2, <1>5 DEF DecisionsOK, RowsOK, HeldByApproval, RoutedUnsent, Busy
<1>8. \A p, b : (p # d \/ b # a) => By(p, b)' \cap ledger' = By(p, b) \cap ledger
  BY <1>1, <1>2, <1>3, <1>4
<1>9. Fresh' /\ Intended'
  BY <1>1, <1>8 DEF DecisionsOK, RowsOK, Fresh, Intended
<1>10. OutcomeMatchesLedger'
  <2>1. \A b \in Actions : RowMatches(b)
    BY MatchesByRow DEF DecisionsOK
  <2>2. ASSUME NEW b \in Actions, b # a PROVE RowMatches(b)'
    <3>1. db'[b] = db[b] /\ ledger' \cap NoncesOf(b)' = ledger \cap NoncesOf(b)
      BY <1>1, <1>2, <1>3, <2>2 DEF NoncesOf
    <3>2. QED
      BY <1>1, <2>1, <3>1 DEF RowMatches
  <2>3. RowMatches(a)'
    <3>1. db'[a] = work[a] /\ n \in ledger' \cap NoncesOf(a)'
      BY <1>1, <1>2, <1>3 DEF NoncesOf
    <3>2. QED
      BY <1>1, <1>3, <3>1 DEF RowMatches
  <2>4. QED
    BY <2>2, <2>3 DEF OutcomeMatchesLedger, RowMatches
<1>11. ASSUME NEW e \in Deciders, NEW b \in Actions, Spent(e, b) PROVE Spent(e, b)'
  <2>1. CASE e = d /\ b = a
    BY <1>1, <1>2, <1>3, <1>4, <2>1 DEF Spent
  <2>2. CASE ~(e = d /\ b = a)
    BY <1>1, <1>5, <1>8, <1>11, <2>2 DEF Spent
  <2>3. QED
    BY <2>1, <2>2
<1>12. Counted'
  BY <1>1, <1>2, <1>11 DEF DecisionsOK, Counted
<1>13. QED
  BY <1>6, <1>7, <1>9, <1>10, <1>12 DEF DecisionsOK, RowsOK

(* A rolled-back transaction frees its rows and pays for what it sent.     *)
LEMMA RollbackDecisions ==
    ASSUME TypeOK, TypeOK', LocalsOK, LocksOK, OrdersOK, DecisionsOK,
           NEW s \in Sessions, Rollback(s)
    PROVE  DecisionsOK'
<1> USE DispatchAssumption DEF Sessions
<1>1. /\ UNCHANGED <<request, db, ledger, cmd>>
      /\ pc'[s] = "idle" /\ txn'[s] = {} /\ crashes' = crashes + 1
      /\ \A p \in Sessions \ {s} : /\ pc'[p] = pc[p] /\ item'[p] = item[p]
                                   /\ nonce'[p] = nonce[p] /\ txn'[p] = txn[p]
      /\ \A e \in Deciders \ {s} : intent'[e] = intent[e]
      /\ \A b \in Actions : /\ holder'[b] = IF holder[b] = s THEN Nobody ELSE holder[b]
                            /\ holder[b] # s => work'[b] = work[b]
  BY DEF Rollback, Forget, gatewayVars, commandVars, TypeOK
<1>2. \A p, b : NoncesOf(b)' = NoncesOf(b) /\ By(p, b)' = By(p, b)
  BY <1>1, SentUnchanged
<1>3. \A e \in Deciders \ {s} : pc'[e] \in Busy <=> pc[e] \in Busy
  BY <1>1 DEF Busy
<1>4. Owned'
  BY <1>1, <1>3 DEF DecisionsOK, RowsOK, Owned, Sent, Busy
<1>5. HeldByApproval' /\ RoutedUnsent'
  BY <1>1, <1>2, <1>3 DEF DecisionsOK, RowsOK, HeldByApproval, RoutedUnsent
<1>6. Fresh' /\ Intended'
  BY <1>1, <1>2 DEF DecisionsOK, RowsOK, Fresh, Intended
<1>7. OutcomeMatchesLedger'
  BY <1>1, MatchesKept DEF DecisionsOK
<1>8. Counted'
  <2>1. ASSUME NEW e \in Deciders, NEW b \in Actions
        PROVE  /\ IsFiniteSet(By(e, b)') /\ Cardinality(By(e, b)') <= crashes + 1
               /\ Cardinality(By(e, b)') \in Nat
    BY <1>2, FS_CardinalityType DEF DecisionsOK, Counted
  <2>2. crashes \in Nat
    BY DEF TypeOK
  <2>3. QED
    BY <1>1, <2>1, <2>2 DEF Counted
<1>9. QED
  BY <1>4, <1>5, <1>6, <1>7, <1>8 DEF DecisionsOK, RowsOK

(* A new cycle takes actions nobody has sent.                              *)
LEMMA StartDecisions ==
    ASSUME TypeOK, TypeOK', LocalsOK, LocksOK, OrdersOK, DecisionsOK,
           NEW batch \in SUBSET Actions, NEW proposed \in BOOLEAN, StartCycle(batch, proposed)
    PROVE  DecisionsOK'
<1> USE DispatchAssumption DEF Sessions
<1>1. /\ UNCHANGED <<request, db, item, intent, nonce, txn, cmd, ledger, crashes>>
      /\ \A d \in Deciders : pc'[d] = pc[d]
      /\ \A b \in Actions : IF b \in batch
           THEN holder'[b] = Optimizer /\ work'[b].outcome = "none" /\ holder[b] = Nobody
           ELSE holder'[b] = holder[b] /\ work'[b] = work[b]
  BY DEF StartCycle, gatewayVars, commandVars, NoRow, TypeOK, LocksOK
<1>2. \A p, b : NoncesOf(b)' = NoncesOf(b) /\ By(p, b)' = By(p, b)
  BY <1>1, SentUnchanged
<1>3. \A e \in Deciders : pc'[e] \in Busy <=> pc[e] \in Busy
  BY <1>1
<1>4. Owned' /\ HeldByApproval' /\ RoutedUnsent'
  BY <1>1, <1>2, <1>3 DEF DecisionsOK, RowsOK, Owned, Sent, HeldByApproval, RoutedUnsent
<1>5. Fresh' /\ Intended' /\ OutcomeMatchesLedger'
  BY <1>1, <1>2, MatchesKept DEF DecisionsOK, RowsOK, Fresh, Intended
<1>6. Counted'
  BY <1>1, <1>2, <1>3 DEF DecisionsOK, Counted, Spent
<1>7. QED
  BY <1>4, <1>5, <1>6 DEF DecisionsOK, RowsOK

(* An action routed for approval is one nobody has sent.                   *)
LEMMA RouteDecisions ==
    ASSUME TypeOK, TypeOK', LocalsOK, LocksOK, OrdersOK, DecisionsOK,
           NEW a \in Actions, RouteForApproval(a)
    PROVE  DecisionsOK'
<1> USE DispatchAssumption DEF Sessions
<1>1. /\ UNCHANGED <<request, db, holder, pc, item, intent, nonce, txn, cmd, ledger, crashes>>
      /\ holder[a] = Optimizer /\ NoncesOf(a) = {} /\ work'[a].outcome = "pending"
      /\ \A b \in Actions \ {a} : work'[b] = work[b]
  BY DEF RouteForApproval, gatewayVars, commandVars, TypeOK, Row, LocksOK, OrdersOK
<1>2. \A p, b : NoncesOf(b)' = NoncesOf(b) /\ By(p, b)' = By(p, b)
  BY <1>1, SentUnchanged
<1>3. Owned' /\ HeldByApproval' /\ RoutedUnsent'
  BY <1>1, <1>2 DEF DecisionsOK, RowsOK, Owned, Sent, HeldByApproval, RoutedUnsent
<1>4. Fresh' /\ Intended' /\ OutcomeMatchesLedger'
  BY <1>1, <1>2, MatchesKept DEF DecisionsOK, RowsOK, Fresh, Intended
<1>5. Counted'
  BY <1>1, <1>2 DEF DecisionsOK, Counted, Spent
<1>6. QED
  BY <1>3, <1>4, <1>5 DEF DecisionsOK, RowsOK

(* An order of the optimizer is for an action without an Approval.         *)
LEMMA UnattendedDecisions ==
    ASSUME TypeOK, TypeOK', LocalsOK, LocksOK, OrdersOK, DecisionsOK,
           NEW a \in Actions, NEW n \in Nonces, RouteAutonomous(a, n)
    PROVE  DecisionsOK'
<1> USE DispatchAssumption DEF Sessions
<1>1. /\ UNCHANGED <<db, holder, ledger, crashes, intent>>
      /\ holder[a] = Optimizer /\ db[a].outcome = "none" /\ work[a].outcome = "none"
      /\ SendPrepare(Optimizer, a, n) /\ txn'[Optimizer] = txn[Optimizer] \cup {n}
      /\ \A d \in Deciders : pc'[d] = pc[d] /\ item'[d] = item[d]
                             /\ nonce'[d] = nonce[d] /\ txn'[d] = txn[d]
      /\ \A b \in Actions : /\ work'[b].outcome = work[b].outcome
                            /\ work'[b].approver = work[b].approver
  BY DEF RouteAutonomous, SendPrepare, TypeOK, Row, LocksOK, OrdersOK
<1>2. /\ ~Sent(n) /\ Sent(n)' /\ request'[n].action = a /\ cmd'[n].actor = Optimizer
      /\ \A m \in Nonces \ {n} : request'[m] = request[m] /\ cmd'[m] = cmd[m]
      /\ \A b \in Actions \ {a} : NoncesOf(b)' = NoncesOf(b)
      /\ \A q, b : (q # Optimizer \/ b # a) => By(q, b)' = By(q, b)
  BY <1>1, SentAdds
<1>3. /\ n \notin ledger
      /\ \A p \in Sessions : n \notin txn[p]
      /\ \A e \in Deciders : pc[e] \in Busy => nonce[e] \in Nonces \ {n}
  BY <1>2 DEF DecisionsOK, RowsOK, Owned, Busy, TypeOK
<1>4. Owned'
  <2>1. ASSUME NEW p \in Sessions, NEW m \in txn'[p] PROVE Sent(m)' /\ cmd'[m].actor = p
    <3>1. m \in txn[p] \/ (p = Optimizer /\ m = n)
      BY <1>1, <2>1
    <3>2. CASE m \in txn[p]
      <4>1. m \in Nonces \ {n} /\ Sent(m) /\ cmd[m].actor = p
        BY <1>3, <3>2 DEF DecisionsOK, RowsOK, Owned, TypeOK
      <4>2. QED
        BY <1>2, <4>1 DEF Sent
    <3>3. QED
      BY <1>2, <3>1, <3>2
  <2>2. \A m \in ledger' : Sent(m)'
    BY <1>1, <1>2, <1>3 DEF DecisionsOK, RowsOK, Owned, Sent, TypeOK
  <2>3. \A e \in Deciders :
          /\ pc'[e] \notin Busy => txn'[e] = {}
          /\ pc'[e] \in Busy => txn'[e] = {nonce'[e]} /\ request'[nonce'[e]].action = item'[e]
    BY <1>1, <1>2, <1>3 DEF DecisionsOK, RowsOK, Owned
  <2>4. QED
    BY <2>1, <2>2, <2>3 DEF Owned
<1>5. HeldByApproval' /\ RoutedUnsent'
  BY <1>1, <1>2 DEF DecisionsOK, RowsOK, HeldByApproval, RoutedUnsent
<1>6. \A d \in Deciders, b \in Actions : By(d, b)' = By(d, b)
  BY <1>2
<1>7. Fresh'
  <2>1. \A d \in Deciders : \A b : By(d, b)' = By(d, b)
    BY <1>2
  <2>2. QED
    BY <1>1, <2>1 DEF DecisionsOK, RowsOK, Fresh
<1>8. Intended'
  BY <1>1 DEF DecisionsOK, RowsOK, Intended
<1>9. OutcomeMatchesLedger'
  <2>1. \A b \in Actions : RowMatches(b)
    BY MatchesByRow DEF DecisionsOK
  <2>2. \A b \in Actions \ {a} : RowMatches(b)'
    BY <1>1, <1>2, <1>3, <2>1 DEF RowMatches, TypeOK
  <2>3. RowMatches(a)'
    BY <1>1 DEF RowMatches
  <2>4. QED
    BY <2>2, <2>3 DEF OutcomeMatchesLedger, RowMatches
<1>10. Counted'
  BY <1>1, <1>6 DEF DecisionsOK, Counted, Spent
<1>11. QED
  BY <1>4, <1>5, <1>7, <1>8, <1>9, <1>10 DEF DecisionsOK, RowsOK

(* The cycle's commit shows Approvals of actions nobody has sent.          *)
LEMMA CycleDecisions ==
    ASSUME TypeOK, TypeOK', LocalsOK, LocksOK, OrdersOK, DecisionsOK, CommitCycle
    PROVE  DecisionsOK'
<1> USE DispatchAssumption DEF Sessions
<1>1. /\ UNCHANGED <<request, work, cmd, crashes>>
      /\ txn'[Optimizer] = {} /\ ledger' = ledger \cup txn[Optimizer]
      /\ \A d \in Deciders : /\ pc'[d] = pc[d] /\ item'[d] = item[d] /\ intent'[d] = intent[d]
                             /\ nonce'[d] = nonce[d] /\ txn'[d] = txn[d]
      /\ \A b \in Actions : /\ holder'[b] = IF holder[b] = Optimizer THEN Nobody ELSE holder[b]
                            /\ db'[b] = IF holder[b] = Optimizer THEN work[b] ELSE db[b]
  BY DEF CommitCycle, Commit, Forget, gatewayVars, TypeOK
<1>2. \A p, b : NoncesOf(b)' = NoncesOf(b) /\ By(p, b)' = By(p, b)
  BY <1>1, SentUnchanged
<1>3. \A n \in txn[Optimizer] : Sent(n) /\ n \in Nonces /\ cmd[n].actor = Optimizer
  BY DEF DecisionsOK, RowsOK, Owned, TypeOK
<1>4. Owned' /\ HeldByApproval' /\ RoutedUnsent'
  BY <1>1, <1>2, <1>3 DEF DecisionsOK, RowsOK, Owned, Sent, HeldByApproval, RoutedUnsent
<1>5. \A d \in Deciders : \A b : By(d, b)' \cap ledger' = By(d, b) \cap ledger
  BY <1>1, <1>2, <1>3 DEF By
<1>6. Fresh' /\ Intended'
  BY <1>1, <1>5 DEF DecisionsOK, RowsOK, Fresh, Intended
<1>7. OutcomeMatchesLedger'
  <2>1. \A b \in Actions : RowMatches(b)
    BY MatchesByRow DEF DecisionsOK
  <2>2. ASSUME NEW b \in Actions, holder[b] = Optimizer PROVE RowMatches(b)'
    BY <1>1, <1>2, <2>2 DEF DecisionsOK, RowsOK, RoutedUnsent, RowMatches
  <2>3. ASSUME NEW b \in Actions, holder[b] # Optimizer PROVE RowMatches(b)'
    <3>1. \A n \in txn[Optimizer] \cap NoncesOf(b) : db[b].outcome = "none"
      BY <1>3 DEF OrdersOK, NoncesOf
    <3>2. CASE db[b].outcome = "none"
      BY <1>1, <2>3, <3>2 DEF RowMatches
    <3>3. CASE db[b].outcome # "none"
      <4>1. ledger' \cap NoncesOf(b)' = ledger \cap NoncesOf(b)
        BY <1>1, <1>2, <3>1, <3>3
      <4>2. QED
        BY <1>1, <2>1, <2>3, <4>1 DEF RowMatches
    <3>4. QED
      BY <3>2, <3>3
  <2>4. QED
    BY <2>2, <2>3 DEF OutcomeMatchesLedger, RowMatches
<1>8. Counted'
  BY <1>1, <1>2, <1>5 DEF DecisionsOK, Counted, Spent
<1>9. QED
  BY <1>4, <1>6, <1>7, <1>8 DEF DecisionsOK, RowsOK

(* Every step keeps what the rows say of the dispatches.                   *)
LEMMA DecisionsStep ==
    ASSUME IInv, IInv', DecisionsOK, [Next]_vars
    PROVE  DecisionsOK'
<1> USE DispatchAssumption DEF Sessions, IInv
<1>1. CASE Gateway
  BY <1>1, GatewayKeeps, DecisionsStay DEF Gateway, tableVars, sessionVars, commandVars
<1>2. ASSUME NEW pol \in AutonomyPolicies, SetAutonomyPolicy(pol) PROVE DecisionsOK'
  BY <1>2, DecisionsStay DEF SetAutonomyPolicy, gatewayVars, tableVars, sessionVars, commandVars
<1>3. ASSUME NEW p \in Sessions, DispatchSignal(p) PROVE DecisionsOK'
  <2>1. UNCHANGED <<intent, txn, ledger, crashes>>
    BY <1>3 DEF DispatchSignal, PrepareFailed, PrepareRejected, PrepareReady, CommitFailed,
                CommitRejected, CommitAcknowledged, EndDispatch
  <2>2. \A a \in Actions : work'[a].approver = work[a].approver
    <3>1. ASSUME NEW state, work' = [work EXCEPT ![item[p]].signal = state], NEW a \in Actions
          PROVE  work'[a].approver = work[a].approver
      BY <3>1 DEF TypeOK, Row
    <3>2. QED
      BY <1>3, <3>1 DEF DispatchSignal, PrepareFailed, PrepareRejected, PrepareReady,
                        CommitFailed, CommitRejected, CommitAcknowledged, EndDispatch
  <2>3. \A d \in Deciders : pc'[d] = pc[d] \/ (pc[d] \in Busy /\ pc'[d] \in Busy)
    BY <1>3, DispatchEffect DEF AfterDispatch, TypeOK, Busy
  <2>4. QED
    BY <1>3, <2>1, <2>2, <2>3, DispatchEffect, DecisionsStay
<1>4. ASSUME NEW p \in Sessions, Rollback(p) PROVE DecisionsOK'
  BY <1>4, RollbackDecisions
<1>5. ASSUME NEW d \in Deciders, NEW a \in Actions,
             NEW outcome \in {"approved", "rejected", "held"}, ReadApproval(d, a, outcome)
      PROVE  DecisionsOK'
  BY <1>5, ReadDecisions
<1>6. ASSUME NEW d \in Deciders, CloseApproval(d) PROVE DecisionsOK'
  BY <1>6, CloseDecisions
<1>7. ASSUME NEW d \in Deciders, NEW n \in Nonces, ApproveAndDispatch(d, n) PROVE DecisionsOK'
  BY <1>7, ApproveDecisions DEF ApproveAndDispatch, LocalsOK
<1>8. ASSUME NEW d \in Deciders, CommitDecision(d) PROVE DecisionsOK'
  BY <1>8, CommitDecisions DEF CommitDecision, LocalsOK
<1>9. ASSUME NEW batch \in SUBSET Actions, NEW proposed \in BOOLEAN, StartCycle(batch, proposed)
      PROVE  DecisionsOK'
  BY <1>9, StartDecisions
<1>10. ASSUME NEW a \in Actions, SkipAdvisory(a) PROVE DecisionsOK'
  BY <1>10, DecisionsStay DEF SkipAdvisory, gatewayVars, tableVars, commandVars
<1>11. ASSUME NEW a \in Actions, RouteForApproval(a) PROVE DecisionsOK'
  BY <1>11, RouteDecisions
<1>12. ASSUME NEW a \in Actions, NEW n \in Nonces, RouteAutonomous(a, n) PROVE DecisionsOK'
  BY <1>12, UnattendedDecisions
<1>13. CASE CommitCycle
  BY <1>13, CycleDecisions
<1>14. CASE UNCHANGED vars
  BY <1>14, DecisionsStay DEF vars, gatewayVars, tableVars, sessionVars, commandVars
<1>15. QED
  BY <1>1, <1>2, <1>3, <1>4, <1>5, <1>6, <1>7, <1>8, <1>9, <1>10, <1>11, <1>12, <1>13, <1>14
  DEF Next, Decide, RunCycle

(* It holds in every reachable state.                                      *)
LEMMA DecisionsCorrect == Spec => []DecisionsOK
<1>1. Init => DecisionsOK
  <2> SUFFICES ASSUME Init PROVE DecisionsOK
    OBVIOUS
  <2> USE DispatchAssumption DEF Sessions
  <2>1. \A p, a : NoncesOf(a) = {} /\ By(p, a) = {}
    BY DEF Init, GatewayInit, NoncesOf, By, Sent
  <2>2. RowsOK
    BY <2>1 DEF Init, RowsOK, Owned, HeldByApproval, RoutedUnsent, Fresh, Intended, Busy
  <2>3. OutcomeMatchesLedger
    BY DEF Init, NoRow, OutcomeMatchesLedger
  <2>4. Counted
    <3>1. \A d \in Deciders, a \in Actions : IsFiniteSet(By(d, a)) /\ Cardinality(By(d, a)) = 0
      <4>1. IsFiniteSet({}) /\ Cardinality({}) = 0
        BY FS_EmptySet
      <4>2. QED
        BY <2>1, <4>1
    <3>2. QED
      BY <3>1 DEF Init, Counted
  <2>5. QED
    BY <2>2, <2>3, <2>4 DEF DecisionsOK
<1>2. IInv /\ IInv' /\ DecisionsOK /\ [Next]_vars => DecisionsOK'
  BY DecisionsStep
<1>3. QED
  BY <1>1, <1>2, IInvCorrect, PTL DEF Spec

(* Whatever operators race and whatever is rolled back: a pending Approval *)
(* has no committed dispatch, an approved one has its approver's, and the  *)
(* operator who rejected or held an item has none.                         *)
THEOREM OutcomeMatchesLedgerCorrect == Spec => []OutcomeMatchesLedger
<1>1. DecisionsOK => OutcomeMatchesLedger
  BY DEF DecisionsOK
<1>2. QED
  BY <1>1, DecisionsCorrect, PTL

(* A session sends an action at most once more than there were rollbacks,  *)
(* whatever replies are lost.                                              *)
THEOREM RepeatsBoundedCorrect == Spec => []RepeatsBounded
<1>1. IInv /\ DecisionsOK => RepeatsBounded
  <2> SUFFICES ASSUME IInv, DecisionsOK, NEW p \in Sessions, NEW a \in Actions
               PROVE  Cardinality(By(p, a)) <= 1 + crashes
    BY DEF RepeatsBounded, By
  <2>1. crashes \in Nat
    BY DEF IInv, TypeOK
  <2>2. CASE p \in Deciders
    <3>1. Cardinality(By(p, a)) <= crashes + 1 /\ IsFiniteSet(By(p, a))
      BY <2>2 DEF DecisionsOK, Counted
    <3>2. QED
      BY <2>1, <3>1, FS_CardinalityType
  <2>3. CASE p = Optimizer
    <3>1. CASE By(p, a) = {}
      BY <2>1, <3>1, FS_EmptySet
    <3>2. CASE By(p, a) # {}
      <4>1. PICK n \in By(p, a) : TRUE
        BY <3>2
      <4>2. By(p, a) = {n}
        BY <2>3, <4>1 DEF By, NoncesOf, IInv, OrdersOK, AutonomousOnce
      <4>3. QED
        BY <2>1, <4>2, FS_Singleton
    <3>3. QED
      BY <3>1, <3>2
  <2>4. QED
    BY <2>2, <2>3 DEF Sessions
<1>2. QED
  BY <1>1, IInvCorrect, DecisionsCorrect, PTL
=============================================================================
