----------------------------- MODULE OptimizerWorker -----------------------------
(***************************************************************************)
(* The optimizer worker (policy/worker.py): one loop that serves requests  *)
(* for a decision cycle from the stream reo.decision.cycle and, when the   *)
(* cadence is due, sweeps all tenants whose optimizer is started.          *)
(*                                                                         *)
(* The loop is one process: a cycle runs to its end before the next step.  *)
(* It asks the stream for new requests only, so what it held when it died  *)
(* is not handed out again; a fresh process sweeps at once.                *)
(*                                                                         *)
(* Abstractions: time is the countdown to the next sweep; of a cycle it    *)
(* matters whether it was successful; a request names its tenant.          *)
(***************************************************************************)
EXTENDS Integers, Sequences

CONSTANTS Tenants,
          Cycle, Retry,   \* CYCLE_SECONDS and RETRY_SECONDS, in ticks
          BatchSize,      \* the count of xreadgroup
          MaxQueue,       \* bound: requests in the stream
          MaxCrashes      \* bound: deaths of the process

ASSUME WorkerAssumption ==
  /\ Cycle \in Nat /\ Retry \in 1..Cycle
  /\ BatchSize \in Nat \ {0} /\ MaxQueue \in Nat /\ MaxCrashes \in Nat

VARIABLES running,    \* tenants whose operating_state is "running"
          stream,     \* requests not handed out yet
          pc,         \* where the loop stands
          batch,      \* requests in hand
          sweep,      \* tenants the sweep has still to visit
          planned,    \* decision_id: a tenant of this sweep got its decision
          due,        \* ticks until next_due
          served,     \* history: the last step was a cycle for this tenant,
                      \*   and how it ended
          owed,       \* history: tenants with a request since their last cycle
          dropped,    \* history: tenants of the requests that died in hand
          quiet,      \* history: ticks since a tenant's decision, downwards
          crashes

loop == <<pc, batch, sweep, planned>>
vars == <<running, stream, loop, due, served, owed, dropped, quiet, crashes>>

Nothing == [tenant |-> "none", how |-> "none", decided |-> FALSE]
Least(a, b) == IF a < b THEN a ELSE b

Init ==
  /\ running = {} /\ stream = <<>>
  /\ pc = "consume" /\ batch = <<>> /\ sweep = {} /\ planned = FALSE
  /\ due = 0
  /\ served = Nothing /\ owed = {} /\ dropped = {} /\ crashes = 0
  /\ quiet = [t \in Tenants |-> 0]

-----------------------------------------------------------------------------
(* Start and stop of a tenant, requests of poller, watcher and api.        *)
StartTenant(t) ==
  /\ t \notin running
  /\ running' = running \union {t}
  /\ served' = Nothing
  /\ UNCHANGED <<stream, loop, due, owed, dropped, quiet, crashes>>

StopTenant(t) ==
  /\ t \in running
  /\ running' = running \ {t}
  /\ served' = Nothing
  /\ UNCHANGED <<stream, loop, due, owed, dropped, quiet, crashes>>

RequestCycle(t) ==
  /\ Len(stream) < MaxQueue
  /\ stream' = Append(stream, t)
  /\ owed' = owed \union {t} /\ dropped' = dropped \ {t}
  /\ served' = Nothing
  /\ UNCHANGED <<running, loop, due, quiet, crashes>>

Tick ==
  /\ due > 0 \/ \E t \in Tenants : quiet[t] > 0
  /\ due' = IF due > 0 THEN due - 1 ELSE 0
  /\ quiet' = [t \in Tenants |-> IF quiet[t] > 0 THEN quiet[t] - 1 ELSE 0]
  /\ served' = Nothing
  /\ UNCHANGED <<running, stream, loop, owed, dropped, crashes>>

-----------------------------------------------------------------------------
(* Mutant: what exceeds the batch is taken from the stream and lost.       *)
ConsumeAll ==
  /\ pc = "consume"
  /\ batch' = SubSeq(stream, 1, Least(BatchSize, Len(stream)))
  /\ stream' = <<>>
  /\ pc' = "on_demand"
  /\ served' = Nothing
  /\ UNCHANGED <<running, sweep, planned, due, owed, dropped, quiet, crashes>>

(* The loop.  bus.consume hands out what is new, and returns after its     *)
(* block time when there is nothing.                                       *)
Consume ==
  /\ pc = "consume"
  /\ LET n == Least(BatchSize, Len(stream)) IN
       /\ batch' = SubSeq(stream, 1, n)
       /\ stream' = SubSeq(stream, n + 1, Len(stream))
  /\ pc' = "on_demand"
  /\ served' = Nothing
  /\ UNCHANGED <<running, sweep, planned, due, owed, dropped, quiet, crashes>>

(* run_cycle: a tenant that is not running gets no decision, and any cycle *)
(* may come to nothing (not ready, an exception).                          *)
MayDecide(t, decided) == decided => t \in running

Serve(t, how, decided) ==
  /\ served' = [tenant |-> t, how |-> how, decided |-> decided]
  /\ owed' = owed \ {t}
  /\ quiet' = IF decided THEN [quiet EXCEPT ![t] = Cycle] ELSE quiet
  /\ UNCHANGED <<running, stream, dropped, crashes>>

ServeRequest ==
  /\ pc = "on_demand" /\ batch # <<>>
  /\ \E decided \in BOOLEAN :
       /\ MayDecide(Head(batch), decided)
       /\ Serve(Head(batch), "on_demand", decided)
       /\ due' = IF decided THEN Cycle ELSE due
  /\ batch' = Tail(batch)
  /\ UNCHANGED <<pc, sweep, planned>>

(* Mutant: the cadence starts again whenever a request was served.         *)
BatchDoneRestart ==
  /\ pc = "on_demand" /\ batch = <<>>
  /\ pc' = "consume" /\ due' = Cycle
  /\ served' = Nothing
  /\ UNCHANGED <<running, stream, batch, sweep, planned, owed, dropped, quiet, crashes>>

BatchDone ==
  /\ pc = "on_demand" /\ batch = <<>>
  /\ IF due = 0
     THEN pc' = "sweep" /\ sweep' = running /\ planned' = FALSE
     ELSE pc' = "consume" /\ UNCHANGED <<sweep, planned>>
  /\ served' = Nothing
  /\ UNCHANGED <<running, stream, batch, due, owed, dropped, quiet, crashes>>

(* One tenant of the list that running_tenant_ids returned.                *)
ServeScheduled(t) ==
  /\ pc = "sweep" /\ t \in sweep
  /\ sweep' = sweep \ {t}
  /\ \E decided \in BOOLEAN :
       /\ MayDecide(t, decided)
       /\ Serve(t, "scheduled", decided)
       /\ planned' = (planned \/ decided)
  /\ UNCHANGED <<pc, batch, due>>

(* Mutant: the sweep never earns the full cadence.                         *)
SweepDoneRetry ==
  /\ pc = "sweep" /\ sweep = {}
  /\ pc' = "consume" /\ due' = Retry
  /\ planned' = FALSE
  /\ served' = Nothing
  /\ UNCHANGED <<running, stream, batch, sweep, owed, dropped, quiet, crashes>>

SweepDone ==
  /\ pc = "sweep" /\ sweep = {}
  /\ pc' = "consume"
  /\ due' = IF planned THEN Cycle ELSE Retry
  /\ planned' = FALSE
  /\ served' = Nothing
  /\ UNCHANGED <<running, stream, batch, sweep, owed, dropped, quiet, crashes>>

(* The process dies: a crash, or an exception of consume, ack or the       *)
(* tenant list, which nothing catches.                                     *)
Crash ==
  /\ pc # "down" /\ crashes < MaxCrashes
  /\ crashes' = crashes + 1
  /\ pc' = "down" /\ batch' = <<>> /\ sweep' = {} /\ planned' = FALSE
  /\ dropped' = dropped \union {batch[i] : i \in DOMAIN batch}
  /\ served' = Nothing
  /\ UNCHANGED <<running, stream, due, owed, quiet>>

Restart ==
  /\ pc = "down"
  /\ pc' = "consume" /\ due' = 0
  /\ quiet' = [t \in Tenants |-> 0]
  /\ served' = Nothing
  /\ UNCHANGED <<running, stream, batch, sweep, planned, owed, dropped, crashes>>

Worker ==
  \/ Consume \/ ServeRequest \/ BatchDone \/ SweepDone \/ Restart
  \/ \E t \in Tenants : ServeScheduled(t)

Next ==
  \/ \E t \in Tenants : StartTenant(t) \/ StopTenant(t) \/ RequestCycle(t)
  \/ Tick \/ Worker \/ Crash

Spec == Init /\ [][Next]_vars
(* The loop runs and is restarted by its supervisor, and time passes.      *)
FairSpec == Spec /\ WF_vars(Worker) /\ WF_vars(Tick)

-----------------------------------------------------------------------------
(* Every request for a cycle is served, however many are queued, unless    *)
(* the process dies with it in hand.                                       *)
RequestsServed == \A t \in Tenants : t \in owed ~> t \notin owed \/ t \in dropped

(* worker.py: "every started tenant is planned for, not just the first".   *)
(* A tenant that stays started is served again and again, whatever the     *)
(* cycles of others come to; the code can break this in one way only, by   *)
(* successful requests (of any tenant) that keep putting off the sweep.    *)
PlannedUnlessOvertaken ==
  \A t \in Tenants :
    <>[](t \in running) =>
      \/ []<>(served.tenant = t)
      \/ []<>(served.how = "on_demand" /\ served.decided)

(* A decision of a tenant, on demand or not, earns it the full cadence: no *)
(* scheduled cycle for it before Cycle ticks, unless the process restarts, *)
(* whichever tenants fail in the same sweep.                               *)
FullCadence ==
  [][served'.how = "scheduled" /\ served' # served => quiet[served'.tenant] = 0]_vars
=============================================================================
