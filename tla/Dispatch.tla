------------------------------- MODULE Dispatch -------------------------------
(***************************************************************************)
(* From a solved plan to an executed command: the end of a decision cycle  *)
(* (policy/cycle.py run_cycle), the approval endpoint of the api           *)
(* (backend/app/routers/governance.py decide_approval), the dispatch       *)
(* client both of them call (policy/engine/execution.py dispatch_signal),  *)
(* the autonomy policy that decides which path an action takes             *)
(* (policy/engine/autonomy.py), and, from OTGateway, the gateway.          *)
(*                                                                         *)
(* Sessions.  A decider is one operator's request to the api, the optimizer*)
(* is the worker process.  Each runs in a database transaction (READ       *)
(* COMMITTED, no SELECT FOR UPDATE anywhere): a read sees committed rows,  *)
(* the first flush that UPDATEs a row waits for the row's lock and keeps it*)
(* until commit or rollback.  So at most one uncommitted version of an     *)
(* action's rows exists; it is in work, and holder names its transaction.  *)
(***************************************************************************)
EXTENDS OTGateway

CONSTANTS
    Deciders,        \* users holding approve:assigned
    FourEyes,        \* deciders who also hold approve:four_eyes
    PlatformAdmins,  \* deciders who are platform admins
    Optimizer,       \* the optimizer worker
    Nobody,          \* no transaction, no user
    Risk,            \* risk_level of each action
    AutonomyPolicies,\* the policy bodies an administrator may submit
    NoPolicy,        \* no policy row at a scope
    ApprovalWindow,  \* life of an approval (APPROVAL_WINDOW_MINUTES)
    Validity,        \* life of a command (one plan step)
    NoAction,
    NoNonce,
    CrashBudget      \* bound on rolled-back transactions

Sessions == Deciders \cup {Optimizer}
RiskLevels == {"low", "medium", "high"}
Modes == {"OBSERVE", "RECOMMEND", "APPROVAL_REQUIRED", "AUTONOMOUS_BOUNDED"}
AutonomyPolicy ==
    [mode : Modes, max_action_risk : RiskLevels, safety_case_ref : BOOLEAN]

ASSUME DispatchAssumption ==
    /\ Optimizer \notin Deciders
    /\ Nobody \notin Sessions
    /\ FourEyes \subseteq Deciders
    /\ PlatformAdmins \subseteq Deciders
    /\ Risk \in [Actions -> RiskLevels]
    /\ AutonomyPolicies \subseteq AutonomyPolicy
    /\ NoPolicy \notin AutonomyPolicy
    /\ ApprovalWindow \in Nat
    /\ Validity \in Nat
    /\ CrashBudget \in Nat
    /\ NoRequest \notin CommandRequest
    /\ NoAction \notin Actions
    /\ NoNonce \notin Nonces

VARIABLES
    policy,          \* the open AutonomyPolicy row at scope "portfolio"
    db,              \* db[a]: committed rows about action a
    work,            \* work[a]: their version inside the holder's transaction
    holder,          \* holder[a]: the transaction holding a's row locks
    planned,         \* actions whose id has been used by some cycle
    pc,              \* pc[p]: where session p stands
    item,            \* item[p]: the action p is deciding or dispatching
    intent,          \* intent[d]: the outcome decider d is about to write
    nonce,           \* nonce[p]: the nonce of p's current dispatch
    txn,             \* txn[p]: nonces whose Command rows p has not committed
    todo,            \* actions the running cycle has still to route
    snapshot,        \* the policy the running cycle resolved
    cmd,             \* cmd[n]: the Command row of nonce n
    ledger,          \* nonces whose Command row is committed
    crashes          \* transactions rolled back so far

tableVars == <<db, work, holder, planned>>
sessionVars == <<pc, item, intent, nonce, txn, todo, snapshot>>
commandVars == <<cmd, ledger>>
vars == <<gatewayVars, tableVars, sessionVars, commandVars, policy, crashes>>

Outcomes == {"none", "pending", "approved", "rejected", "held", "expired"}
SignalStates == {"none", "approval_required", "queued", "sent",
                 "acknowledged", "rejected", "timed_out"}

(* The rows of one action: the mode of its Decision, its Approval's outcome*)
(* and approver, its Signal's state, and the time of the cycle.            *)
Row == [mode : Modes \cup {"none"}, outcome : Outcomes, signal : SignalStates,
        approver : Deciders \cup {Nobody}, issued : 0..MaxTime]
NoRow == [mode |-> "none", outcome |-> "none", signal |-> "none",
          approver |-> Nobody, issued |-> 0]

(* A Command row; actor is the actor_label of the dispatch's audit events. *)
CommandRow == [prepare : {"pending", "ready", "rejected"},
               commit : {"pending", "committed", "failed"},
               ack : {"pending", "acknowledged", "rejected"},
               actor : Sessions \cup {Nobody}]
NewCommand(p) ==
    [prepare |-> "pending", commit |-> "pending", ack |-> "pending", actor |-> p]

PCs == {"idle", "deciding", "routing", "preparing", "committing", "finishing"}

TypeOK ==
    /\ GatewayTypeOK
    /\ policy \in AutonomyPolicies \cup {NoPolicy}
    /\ db \in [Actions -> Row]
    /\ work \in [Actions -> Row]
    /\ holder \in [Actions -> Sessions \cup {Nobody}]
    /\ planned \in SUBSET Actions
    /\ pc \in [Sessions -> PCs]
    /\ item \in [Sessions -> Actions \cup {NoAction}]
    /\ intent \in [Deciders -> Outcomes]
    /\ nonce \in [Sessions -> Nonces \cup {NoNonce}]
    /\ txn \in [Sessions -> SUBSET Nonces]
    /\ todo \in SUBSET Actions
    /\ snapshot \in AutonomyPolicies \cup {NoPolicy}
    /\ cmd \in [Nonces -> CommandRow]
    /\ ledger \in SUBSET Nonces
    /\ crashes \in 0..CrashBudget

Init ==
    /\ GatewayInit
    /\ policy = NoPolicy
    /\ db = [a \in Actions |-> NoRow]
    /\ work = [a \in Actions |-> NoRow]
    /\ holder = [a \in Actions |-> Nobody]
    /\ planned = {}
    /\ pc = [p \in Sessions |-> "idle"]
    /\ item = [p \in Sessions |-> NoAction]
    /\ intent = [d \in Deciders |-> "none"]
    /\ nonce = [p \in Sessions |-> NoNonce]
    /\ txn = [p \in Sessions |-> {}]
    /\ todo = {}
    /\ snapshot = NoPolicy
    /\ cmd = [n \in Nonces |-> NewCommand(Nobody)]
    /\ ledger = {}
    /\ crashes = 0

-----------------------------------------------------------------------------
(* Autonomy policy.                                                        *)

RiskOrder == [low |-> 0, medium |-> 1, high |-> 2]

(* resolve_autonomy_mode as the cycle calls it, without an asset: the open *)
(* portfolio policy or the conservative default.                           *)
ModeOf(pol) == IF pol = NoPolicy THEN "OBSERVE" ELSE pol.mode

AutonomousExecutionAllowed(pol, risk) ==
    /\ pol # NoPolicy
    /\ pol.mode = "AUTONOMOUS_BOUNDED"
    /\ pol.safety_case_ref
    /\ RiskOrder[risk] <= RiskOrder[pol.max_action_risk]

(* set_autonomy_policy at the portfolio scope supersedes the open row.     *)
SetAutonomyPolicy(pol) ==
    /\ pol.mode = "AUTONOMOUS_BOUNDED" => pol.safety_case_ref
    /\ policy' = pol
    /\ UNCHANGED <<gatewayVars, tableVars, sessionVars, commandVars, crashes>>

-----------------------------------------------------------------------------
(* Transactions.                                                           *)

(* db.commit(): p's versions become the rows, its locks are released.      *)
Commit(p) ==
    /\ db' = [a \in Actions |-> IF holder[a] = p THEN work[a] ELSE db[a]]
    /\ holder' = [a \in Actions |-> IF holder[a] = p THEN Nobody ELSE holder[a]]
    /\ ledger' = ledger \cup txn[p]

(* The session is over: its locals are gone.                               *)
Forget(p) ==
    /\ pc' = [pc EXCEPT ![p] = "idle"]
    /\ item' = [item EXCEPT ![p] = NoAction]
    /\ nonce' = [nonce EXCEPT ![p] = NoNonce]
    /\ txn' = [txn EXCEPT ![p] = {}]
    /\ intent' = [d \in Deciders |-> IF d = p THEN "none" ELSE intent[d]]
    /\ IF p = Optimizer THEN todo' = {} /\ snapshot' = NoPolicy
                        ELSE UNCHANGED <<todo, snapshot>>

(* The process dies, the connection drops or an exception escapes: the     *)
(* transaction is rolled back.  Requests already sent are not recalled.    *)
Rollback(p) ==
    /\ pc[p] # "idle"
    /\ crashes < CrashBudget
    /\ crashes' = crashes + 1
    /\ work' = [a \in Actions |-> IF holder[a] = p THEN db[a] ELSE work[a]]
    /\ holder' = [a \in Actions |-> IF holder[a] = p THEN Nobody ELSE holder[a]]
    /\ Forget(p)
    /\ UNCHANGED <<gatewayVars, policy, commandVars, db, planned>>

-----------------------------------------------------------------------------
(* dispatch_signal, from session p for action a.                           *)

(* After a dispatch the cycle goes on routing; a decider only commits.     *)
AfterDispatch(p) == IF p = Optimizer THEN "routing" ELSE "finishing"

(* A fresh nonce, a pending Command, and the POST to prepare.              *)
SendPrepare(p, a, n) ==
    /\ request[n] = NoRequest
    /\ request' = [request EXCEPT ![n] =
         [action |-> a, validity_end |-> work'[a].issued + Validity]]
    /\ gw' = [gw EXCEPT ![n] = "preparing"]
    /\ cmd' = [cmd EXCEPT ![n] = NewCommand(p)]
    /\ txn' = [txn EXCEPT ![p] = @ \cup {n}]
    /\ nonce' = [nonce EXCEPT ![p] = n]
    /\ item' = [item EXCEPT ![p] = a]
    /\ pc' = [pc EXCEPT ![p] = "preparing"]

(* The call ends with the Command and Signal p then returns to its caller. *)
EndDispatch(p, row, state) ==
    /\ cmd' = [cmd EXCEPT ![nonce[p]] = row]
    /\ work' = [work EXCEPT ![item[p]].signal = state]
    /\ pc' = [pc EXCEPT ![p] = AfterDispatch(p)]
    /\ UNCHANGED <<gatewayVars, policy, db, holder, planned, item, intent,
                   nonce, txn, todo, snapshot, ledger, crashes>>

PrepareFailed(p) ==
    /\ pc[p] = "preparing"
    /\ EndDispatch(p, [cmd[nonce[p]] EXCEPT !.prepare = "rejected"], "timed_out")

PrepareRejected(p) ==
    /\ pc[p] = "preparing"
    /\ gw[nonce[p]] = "refused"
    /\ EndDispatch(p, [cmd[nonce[p]] EXCEPT !.prepare = "rejected"], "rejected")

PrepareReady(p) ==
    /\ pc[p] = "preparing"
    /\ gw[nonce[p]] = "ready"
    /\ cmd' = [cmd EXCEPT ![nonce[p]].prepare = "ready"]
    /\ work' = [work EXCEPT ![item[p]].signal = "sent"]
    /\ gw' = [gw EXCEPT ![nonce[p]] = "committing"]
    /\ pc' = [pc EXCEPT ![p] = "committing"]
    /\ UNCHANGED <<clock, estop, commandable, request, policy, db, holder, planned,
                   item, intent, nonce, txn, todo, snapshot, ledger, crashes>>

(* Mutants: a lost reply is taken for success; it leaves a state no Signal *)
(* has; it reopens the approval for a retry.                               *)
CommitFailedAssumed(p) ==
    /\ pc[p] = "committing"
    /\ EndDispatch(p, [cmd[nonce[p]] EXCEPT !.commit = "committed", !.ack = "acknowledged"],
                   "acknowledged")
CommitFailedMislabelled(p) ==
    /\ pc[p] = "committing"
    /\ EndDispatch(p, [cmd[nonce[p]] EXCEPT !.commit = "failed"], "failed")
CommitFailedReopened(p) ==
    /\ pc[p] = "committing"
    /\ cmd' = [cmd EXCEPT ![nonce[p]].commit = "failed"]
    /\ work' = [work EXCEPT ![item[p]].outcome = "pending", ![item[p]].approver = Nobody]
    /\ pc' = [pc EXCEPT ![p] = AfterDispatch(p)]
    /\ UNCHANGED <<gatewayVars, policy, db, holder, planned, item, intent,
                   nonce, txn, todo, snapshot, ledger, crashes>>

(* No reply within the client's ten seconds, or a transport error: the     *)
(* gateway may have executed the command, or may do so later.              *)
CommitFailed(p) ==
    /\ pc[p] = "committing"
    /\ EndDispatch(p, [cmd[nonce[p]] EXCEPT !.commit = "failed"], "timed_out")

CommitRejected(p) ==
    /\ pc[p] = "committing"
    /\ gw[nonce[p]] = "nacked"
    /\ EndDispatch(p, [cmd[nonce[p]] EXCEPT !.commit = "failed", !.ack = "rejected"],
                   "rejected")

CommitAcknowledged(p) ==
    /\ pc[p] = "committing"
    /\ gw[nonce[p]] = "executed"
    /\ EndDispatch(p, [cmd[nonce[p]] EXCEPT !.commit = "committed", !.ack = "acknowledged"],
                   "acknowledged")

DispatchSignal(p) ==
    \/ PrepareFailed(p) \/ PrepareRejected(p) \/ PrepareReady(p)
    \/ CommitFailed(p) \/ CommitRejected(p) \/ CommitAcknowledged(p)

-----------------------------------------------------------------------------
(* decide_approval.                                                        *)

(* requires_second_approver and the no-self-approval rule, both decided    *)
(* from the approver recorded on a row that is still pending.              *)
MayDecide(d, row, a) ==
    /\ ~(/\ Risk[a] = "high" /\ row.approver \notin {Nobody, d} /\ d \notin FourEyes)
    /\ ~(/\ row.approver = d /\ d \notin PlatformAdmins)

(* Mutant: the 409 for an item already decided is gone.                    *)
ReadUnchecked(d, a, outcome) ==
    /\ pc[d] = "idle"
    /\ db[a].outcome # "none"
    /\ intent' = [intent EXCEPT ![d] = outcome]
    /\ item' = [item EXCEPT ![d] = a]
    /\ pc' = [pc EXCEPT ![d] = "deciding"]
    /\ UNCHANGED <<gatewayVars, tableVars, policy, commandVars, nonce, txn,
                   todo, snapshot, crashes>>

(* The read and every check; nothing is locked.                            *)
ReadApproval(d, a, outcome) ==
    /\ pc[d] = "idle"
    /\ db[a].outcome = "pending"
    /\ \/ /\ clock > db[a].issued + ApprovalWindow
          /\ intent' = [intent EXCEPT ![d] = "expired"]
       \/ /\ clock <= db[a].issued + ApprovalWindow
          /\ MayDecide(d, db[a], a)
          /\ intent' = [intent EXCEPT ![d] = outcome]
    /\ item' = [item EXCEPT ![d] = a]
    /\ pc' = [pc EXCEPT ![d] = "deciding"]
    /\ UNCHANGED <<gatewayVars, tableVars, policy, commandVars, nonce, txn,
                   todo, snapshot, crashes>>

(* An outcome that dispatches nothing: UPDATE and commit.  Expiry leaves   *)
(* the approver alone.                                                     *)
CloseApproval(d) ==
    LET a == item[d]
        row == [db[a] EXCEPT !.outcome = intent[d],
                             !.approver = IF intent[d] = "expired" THEN @ ELSE d]
    IN  /\ pc[d] = "deciding"
        /\ intent[d] # "approved"
        /\ holder[a] = Nobody
        /\ db' = [db EXCEPT ![a] = row]
        /\ work' = [work EXCEPT ![a] = row]
        /\ Forget(d)
        /\ UNCHANGED <<gatewayVars, policy, commandVars, holder, planned, crashes>>

(* Mutant: the dispatch does not wait for the row lock.                    *)
ApproveUnlocked(d, n) ==
    LET a == item[d]
    IN  /\ pc[d] = "deciding"
        /\ intent[d] = "approved"
        /\ holder' = [holder EXCEPT ![a] = d]
        /\ work' = [work EXCEPT ![a] = [db[a] EXCEPT !.outcome = "approved",
                                                     !.approver = d, !.signal = "queued"]]
        /\ SendPrepare(d, a, n)
        /\ UNCHANGED <<clock, estop, commandable, policy, db, planned, intent,
                       todo, snapshot, ledger, crashes>>

(* Approved: the outcome is flushed, which waits for the row, the signal   *)
(* is queued and the dispatch begins, all in the same transaction.         *)
ApproveAndDispatch(d, n) ==
    LET a == item[d]
    IN  /\ pc[d] = "deciding"
        /\ intent[d] = "approved"
        /\ holder[a] = Nobody
        /\ holder' = [holder EXCEPT ![a] = d]
        /\ work' = [work EXCEPT ![a] = [db[a] EXCEPT !.outcome = "approved",
                                                     !.approver = d, !.signal = "queued"]]
        /\ SendPrepare(d, a, n)
        /\ UNCHANGED <<clock, estop, commandable, policy, db, planned, intent,
                       todo, snapshot, ledger, crashes>>

(* Mutant: the request returns and its transaction stays open.             *)
CommitDecisionLeaks(d) ==
    /\ pc[d] = "finishing"
    /\ Forget(d)
    /\ UNCHANGED <<gatewayVars, tableVars, commandVars, policy, crashes>>

(* The commit that ends a decider's request after its dispatch.            *)
CommitDecision(d) ==
    /\ pc[d] = "finishing"
    /\ Commit(d)
    /\ Forget(d)
    /\ UNCHANGED <<gatewayVars, policy, work, planned, cmd, crashes>>

Decide(d) ==
    \/ \E a \in Actions, outcome \in {"approved", "rejected", "held"} :
           ReadApproval(d, a, outcome)
    \/ CloseApproval(d)
    \/ \E n \in Nonces : ApproveAndDispatch(d, n)
    \/ CommitDecision(d)

-----------------------------------------------------------------------------
(* run_cycle, from the resolution of the autonomy mode on.  Its gates, the *)
(* forecasts and the solve before that decide only whether a cycle gets    *)
(* here, with which actions, and whether the plan is fit to be proposed.   *)

StartCycle(batch, proposed) ==
    /\ pc[Optimizer] = "idle"
    /\ batch # {}
    /\ batch \cap planned = {}
    /\ planned' = planned \cup batch
    /\ snapshot' = policy
    /\ holder' = [a \in Actions |-> IF a \in batch THEN Optimizer ELSE holder[a]]
    /\ work' = [a \in Actions |-> IF a \in batch
                  THEN [NoRow EXCEPT !.mode = ModeOf(policy), !.issued = clock]
                  ELSE work[a]]
    /\ todo' = IF proposed /\ ModeOf(policy) \in {"APPROVAL_REQUIRED", "AUTONOMOUS_BOUNDED"}
                 THEN batch ELSE {}
    /\ pc' = [pc EXCEPT ![Optimizer] = "routing"]
    /\ UNCHANGED <<gatewayVars, policy, commandVars, db, item, intent, nonce,
                   txn, crashes>>

(* build_signal_for_action returns None for an advisory action.            *)
SkipAdvisory(a) ==
    /\ pc[Optimizer] = "routing"
    /\ a \in todo \cap AdvisoryOnly
    /\ todo' = todo \ {a}
    /\ UNCHANGED <<gatewayVars, policy, tableVars, commandVars, pc, item,
                   intent, nonce, txn, snapshot, crashes>>

(* Mutant: an autonomous dispatch also leaves a pending Approval.          *)
RouteAutonomousPending(a, n) ==
    /\ pc[Optimizer] = "routing"
    /\ a \in todo \ AdvisoryOnly
    /\ AutonomousExecutionAllowed(snapshot, Risk[a])
    /\ todo' = todo \ {a}
    /\ work' = [work EXCEPT ![a].signal = "queued", ![a].outcome = "pending"]
    /\ SendPrepare(Optimizer, a, n)
    /\ UNCHANGED <<clock, estop, commandable, policy, db, holder, planned,
                   intent, snapshot, ledger, crashes>>

(* Mutant: the policy is read again for each action.                       *)
RouteAutonomousFresh(a, n) ==
    /\ pc[Optimizer] = "routing"
    /\ a \in todo \ AdvisoryOnly
    /\ AutonomousExecutionAllowed(policy, Risk[a])
    /\ todo' = todo \ {a}
    /\ work' = [work EXCEPT ![a].signal = "queued"]
    /\ SendPrepare(Optimizer, a, n)
    /\ UNCHANGED <<clock, estop, commandable, policy, db, holder, planned,
                   intent, snapshot, ledger, crashes>>

(* Within the policy's risk ceiling: dispatched at once, inside the cycle's*)
(* transaction.                                                            *)
RouteAutonomous(a, n) ==
    /\ pc[Optimizer] = "routing"
    /\ a \in todo \ AdvisoryOnly
    /\ AutonomousExecutionAllowed(snapshot, Risk[a])
    /\ todo' = todo \ {a}
    /\ work' = [work EXCEPT ![a].signal = "queued"]
    /\ SendPrepare(Optimizer, a, n)
    /\ UNCHANGED <<clock, estop, commandable, policy, db, holder, planned,
                   intent, snapshot, ledger, crashes>>

(* Otherwise a Signal and a pending Approval.                              *)
RouteForApproval(a) ==
    /\ pc[Optimizer] = "routing"
    /\ a \in todo \ AdvisoryOnly
    /\ ~AutonomousExecutionAllowed(snapshot, Risk[a])
    /\ todo' = todo \ {a}
    /\ work' = [work EXCEPT ![a].signal = "approval_required", ![a].outcome = "pending"]
    /\ UNCHANGED <<gatewayVars, policy, commandVars, db, holder, planned, pc,
                   item, intent, nonce, txn, snapshot, crashes>>

CommitCycle ==
    /\ pc[Optimizer] = "routing"
    /\ todo = {}
    /\ Commit(Optimizer)
    /\ Forget(Optimizer)
    /\ UNCHANGED <<gatewayVars, policy, work, planned, cmd, crashes>>

RunCycle ==
    \/ \E batch \in SUBSET Actions, proposed \in BOOLEAN : StartCycle(batch, proposed)
    \/ \E a \in Actions : SkipAdvisory(a)
    \/ \E a \in Actions, n \in Nonces : RouteAutonomous(a, n)
    \/ \E a \in Actions : RouteForApproval(a)
    \/ CommitCycle

-----------------------------------------------------------------------------
Gateway == GatewayNext /\ UNCHANGED <<tableVars, sessionVars, commandVars, policy, crashes>>

Next ==
    \/ Gateway
    \/ \E pol \in AutonomyPolicies : SetAutonomyPolicy(pol)
    \/ \E p \in Sessions : DispatchSignal(p)
    \/ \E p \in Sessions : Rollback(p)
    \/ \E d \in Deciders : Decide(d)
    \/ RunCycle

Spec == Init /\ [][Next]_vars

(* A started session goes on: its thread runs and its HTTP client times    *)
(* out.  Operators need not act, the gateway need not answer.              *)
Proceed(p) ==
    \/ DispatchSignal(p)
    \/ /\ p = Optimizer
       /\ \/ \E a \in Actions : SkipAdvisory(a) \/ RouteForApproval(a)
          \/ \E a \in Actions, n \in Nonces : RouteAutonomous(a, n)
          \/ CommitCycle
    \/ /\ p # Optimizer
       /\ \/ CloseApproval(p) \/ CommitDecision(p)
          \/ \E n \in Nonces : ApproveAndDispatch(p, n)

FairSpec == Spec /\ \A p \in Sessions : WF_vars(Proceed(p))

-----------------------------------------------------------------------------
Sent(n) == request[n] # NoRequest
NoncesOf(a) == {n \in Nonces : Sent(n) /\ request[n].action = a}
Dispatching(p) == pc[p] \in {"preparing", "committing"}

(* What the committed ledger says of a dispatch is what the gateway did:   *)
(* acknowledged means executed, and a refusal at either phase means not    *)
(* executed, now or ever; a Signal shown as acknowledged has such a        *)
(* Command.  A lost reply is recorded as neither (execution.py: "never     *)
(* assumes success without a response").                                   *)
LedgerTruth ==
    /\ \A n \in ledger :
         /\ cmd[n].ack = "acknowledged" => Executed(n)
         /\ cmd[n].ack = "rejected" => gw[n] = "nacked"
         /\ cmd[n].prepare = "rejected" => gw[n] \notin {"committing", "cleared", "executed"}
    /\ \A a \in Actions : db[a].signal = "acknowledged"
         => \E n \in ledger \cap NoncesOf(a) : cmd[n].ack = "acknowledged"

(* Two sessions never dispatch the same action at the same time: the row   *)
(* lock taken by the outcome's flush is what serialises racing approvers.  *)
DispatchExclusive ==
    \A p, q \in Sessions :
        (p # q /\ Dispatching(p) /\ Dispatching(q)) => item[p] # item[q]

(* A command reaches the gateway only for an action whose decision was     *)
(* made under a mode that allows commands; unattended, only under an       *)
(* autonomous mode and within the risk ceiling and safety case of some     *)
(* policy an administrator could submit, which while the cycle runs is the *)
(* one it resolved at its start, whatever policy has superseded that one   *)
(* since; never for an advisory action.                                    *)
Unattended == {a \in Actions \ AdvisoryOnly :
                 \E pol \in AutonomyPolicies :
                     /\ pol.mode = "AUTONOMOUS_BOUNDED" /\ pol.safety_case_ref
                     /\ RiskOrder[Risk[a]] <= RiskOrder[pol.max_action_risk]}
PolicyBounds ==
    \A n \in Nonces : Sent(n) =>
        LET a == request[n].action
            actor == cmd[n].actor
        IN  /\ a \in planned \ AdvisoryOnly
            /\ actor \in Deciders => db[a].mode \in {"APPROVAL_REQUIRED", "AUTONOMOUS_BOUNDED"}
            /\ actor = Optimizer =>
                 /\ a \in Unattended
                 /\ work[a].mode \in {"none", "AUTONOMOUS_BOUNDED"}
                 /\ n \in txn[Optimizer] => AutonomousExecutionAllowed(snapshot, Risk[a])

(* An action the optimizer dispatched on its own is never dispatched again,*)
(* by anyone, not even after the cycle's transaction is rolled back with   *)
(* the command already executed.                                           *)
AutonomousOnce ==
    \A m, n \in Nonces :
        (/\ m # n /\ Sent(m) /\ Sent(n) /\ cmd[m].actor = Optimizer)
            => request[m].action # request[n].action

(* While the e-stop stays active no command passes the final check: only   *)
(* those already past it can still execute.                                *)
EstopQuiesces ==
    [][(estop /\ estop') =>
         /\ InFlight' \subseteq InFlight
         /\ \A n \in Nonces : (Executed(n))' /\ ~Executed(n) => n \in InFlight]_vars

(* The dispatch path implements CommandOrders: an order is a request's     *)
(* action with the actor of its Command, its status what the gateway has   *)
(* done with it.                                                           *)
NoOrder == NoRequest
orderOf == [n \in Nonces |-> IF Sent(n)
              THEN [action |-> request[n].action, by |-> cmd[n].actor] ELSE NoOrder]
statusOf == [n \in Nonces |->
               CASE gw[n] = "none" -> "none"
                 [] gw[n] \in {"preparing", "ready", "committing"} -> "open"
                 [] gw[n] \in {"refused", "nacked", "crashed"} -> "dropped"
                 [] OTHER -> gw[n]]
Orders == INSTANCE CommandOrders WITH
            Operators <- Deciders, Dispatchable <- Actions \ AdvisoryOnly,
            order <- orderOf, status <- statusOf, stop <- estop
ImplementsOrders == Orders!OrdersSpec

(* What the Approval's row says last was decided is what its decider did:  *)
(* while it is pending nothing committed went to the gateway for it, an    *)
(* approved item has a committed dispatch by its approver, and the one who *)
(* rejected or held it has none.  Another operator may have one: two who   *)
(* read the item before either wrote both decide it.                       *)
OutcomeMatchesLedger ==
    \A a \in Actions :
        LET by == {cmd[n].actor : n \in ledger \cap NoncesOf(a)}
        IN  /\ db[a].outcome = "pending" => by = {}
            /\ db[a].outcome = "approved" => db[a].approver \in by
            /\ db[a].outcome \in {"rejected", "held"} => db[a].approver \notin by

(* How often one session can send one action to the gateway: once, and     *)
(* once more for each transaction that was rolled back after it had sent.  *)
(* Neither a lost reply nor a retry after it, nor any number of decisions  *)
(* on other actions or by other operators, adds to that.                   *)
RepeatsBounded ==
    \A p \in Sessions, a \in Actions :
        Cardinality({n \in NoncesOf(a) : cmd[n].actor = p}) <= 1 + crashes

Decided == {"approved", "rejected", "held", "expired"}

(* decide_approval: "approval already decided".  Once an outcome is        *)
(* committed, the action is not sent to the gateway again.                 *)
NoDispatchAfterDecision ==
    [][\A a \in Actions : db[a].outcome \in Decided => NoncesOf(a)' = NoncesOf(a)]_vars

(* Every session that has started ends: neither a reply that never comes   *)
(* nor the row lock of an operator who decided first, committed or rolled  *)
(* back, keeps a second operator or the optimizer waiting for ever.        *)
SessionsEnd == \A p \in Sessions : (pc[p] # "idle") ~> (pc[p] = "idle")
=============================================================================
