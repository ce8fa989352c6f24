# A verification project for the Renewable Energy Orchestrator

The platform reads telemetry of solar plants, batteries, wind and grid meters, plans the next
hours with a linear program, and sends setpoints to equipment, unattended or after an operator's
approval. This directory holds TLA+ models of the parts that keep state and act concurrently,
TLC runs of them, and TLAPS proofs. Paths below are relative to `src/platform/` (`reo_common/`
stands for `packages/reo_common/reo_common/`).

Run everything from this directory: `tlc -workers 2 -config Dispatch.cfg MCDispatch.tla`
model-checks, `tlapm Dispatch_proofs.tla` checks proofs. `PROJECT.json` lists the runs, the source
lines of every definition (`map`), the mutations every property is tested against (`mutants`; their
definitions stand in the modules under the word "Mutant" and are used by nothing else), the hazards
of the code and the disagreements found.

## 1. Inventory

Services: the **api** (`backend/`, FastAPI, with three background threads: telemetry consumer,
connector poller, folder watcher), the **optimizer worker** (`policy/`), the **agent worker**
(`agent/`), the **export worker** (`output/export-worker/`), the **OT gateway**
(`guardrails/ot-gateway-sim/`), the edge simulator and the frontend. They share one PostgreSQL
database (rows; READ COMMITTED; no `SELECT FOR UPDATE` anywhere), one Redis (streams, flags,
caches), one object store. Requests go over HTTP, hand-offs between services over Redis streams
with one consumer group per service.

| Component | State it keeps | Operations | Talks to | What makes it correct |
|---|---|---|---|---|
| OT command gateway, `guardrails/ot-gateway-sim/main.py` | the e-stop flag in Redis; the telemetry row an execution writes | prepare, commit, estop | called over HTTP by the dispatch client; reads assets, readings, outages itself | nothing passes its check under an e-stop; commit checks again what prepare checked |
| Dispatch client, `policy/engine/execution.py` | Command and Signal rows | build a signal, dispatch it | gateway (two requests with 10 s timeouts), audit log | the ledger never claims what did not happen |
| Approvals, autonomy and e-stop, `backend/app/routers/governance.py` | Approval rows, AutonomyPolicy, ObjectivePolicy | decide, set a policy, stop | dispatch client inside its own transaction | one decision per approval, one dispatch per decision; four eyes; expiry |
| Decision cycle, `policy/cycle.py`, `policy/engine/autonomy.py` | Decision, Action, Signal, Approval rows of one transaction | gates, forecast, solve, risk, route each action | dispatch client, audit log, event bus | only what the policy in force allows runs unattended |
| Audit log, `output/audit.py` | the hash chain of each tenant | append, verify | called inside the transaction of everything else | an untouched chain verifies; an edit or a removal within it does not |
| Event bus and consumer, `reo_common/events.py`, `backend/app/ingestion/telemetry_consumer.py` | streams, groups, pending entries; telemetry and quarantine rows | publish, consume, recover, wait | every producer of readings | no reading vanishes silently; none is stored twice or rewritten |
| Connector Studio and poller, `backend/app/routers/connectors.py`, `backend/app/ingestion/connector_poller.py` | connector rows; the content gate (fingerprint, mark) in Redis | create, test, activate, disable, ingest, poll | external sources; event bus; operations | maker/checker, where the creator has not switched it off; the gate never skips what was not ingested; nothing ingested twice |
| Start/stop, `backend/app/routers/operations.py` | `Tenant.operating_state` | start, stop, automatic start | poller, optimizer worker | runs only with a source; stays stopped when stopped |
| Reference dataset ingestion, `backend/app/ingestion/hackathon_dataset.py` | customers, daily readings, tariffs | ingest one file | called by the connectors | order of the files; no partial day frozen |
| Optimizer worker, `policy/worker.py` | next-due time per tenant | on-demand and scheduled cycles | stream `reo.decisions`, decision cycle | every running tenant gets its cycles |
| Agent worker, `agent/` | explanations, agent findings | one pass of all agents per decision; runs the evaluations | model gateway, event bus | a pass is visible whole or not at all; one failing decision does not cost the others theirs |
| Evaluation, `evaluation/` | in-flight marker in Redis | run an evaluation | model gateway | no two at a time |
| Export worker, `output/export-worker/worker.py`, `routers/exports.py` | export jobs, workbooks in the object store | ask for a job, build it, mark it | api, stream, object store | every job ends, and one that says complete can be downloaded |
| Model gateway and its guardrails, `reo_common/model_gateway.py`, `guardrails/validator.py` | rate windows, circuit breaker | one completion with fallback | external model | bounded calls; invented numbers never pass |
| Document intake, `routers/ingestion.py` | proposals, documents, mapping rules, constraints | upload, approve, reject, apply a constraint | model gateway, object store, event bus | no rows of an unknown shape without a reviewed mapping; each item decided once |
| Folder watcher, `backend/app/ingestion/folder_watcher.py` | checksums of files taken, in Redis | scan, publish, mark | event bus | each file once, and every file in the end |
| Planning, `policy/{cycle,solver,scenarios,actions_builder}.py`, `guardrails/validator.py` | rows of one decision | derate, solve, validate, perturb, build actions | registry, intake | a decision fails only for a cause in its inputs, or because the solver came to no answer; actions stay within their envelopes |
| Forecast models, `reo_common/forecast_ml.py`, `policy/forecast.py`, `routers/forecasting.py` | model rows, the operator's criteria | accept or set criteria, retrain, choose a source | decision cycle | a model in force has the mode, improvement and age the operator's criteria ask for, and was trained on the history they asked for then |
| Accounts and roles, `routers/admin.py`, `routers/auth.py` | users and their roles | sign in (password, SSO), create, update | every request is authorised by the row | a tenant keeps an administrator |
| Login throttle, `backend/app/security_http.py` | failure counters with a life time, in Redis | count, refuse, clear | login | guesses are bounded, and a lock ends |
| Portfolio registry, `routers/portfolio_registry.py` | sites, assets, portfolios | create, patch, retire | decision cycle | one grid interconnection, no two assets of one name |
| Policies and settings | rows and 30 s caches | set, resolve | decision cycle | the most specific policy wins |
| Dashboards, read models, frontend, launcher, migrations, edge simulator, infrastructure | none, or start-up only | read; start | | no behaviour over time of their own |

What is hard here:

* **Two actors on one row without a lock.** Every check-then-write of the api (approve, activate a
  connector, decide a proposal) reads, answers 409 on what it read, and writes later. The row lock
  taken by the flush is the only thing that serialises them.
* **A transaction around an outward call.** Dispatch happens inside the transaction that records it:
  a rollback or a crash after the gateway executed leaves equipment moved and no record.
* **Acknowledge, then commit.** The telemetry consumer acknowledges stream entries one by one and
  commits a batch once.
* **A chain across transactions.** Each audit event chains on the newest one its transaction sees.
* **State checked and then outdated:** the gateway sleeps between its check and its execution, the
  cycle resolves the policy once for all its actions, the poller lists sources once per pass.
* **Commits in the middle.** A decision cycle commits its forecasts and then reads ratings, limits and derates
  anew; an approval of a proposal publishes its readings before it commits.
* **Two commands where one is needed:** INCR and EXPIRE of the throttle, publish and mark of the folder watcher,
  commit and publish of an export job.
* **Loops that must go on:** consumer, poller, watcher and workers swallow exceptions and continue, with gaps.

`PROJECT.json` names every hazard with its line and the properties that watch it.

## 2. Modules

| Module | Models | Composed of |
|---|---|---|
| `OTGateway` | prepare, commit, execution, e-stop, faults of the gateway | |
| `Dispatch` | decide_approval, the routing half of run_cycle, dispatch_signal, portfolio autonomy policy | EXTENDS `OTGateway` |
| `CommandOrders` | abstract specification: what the dispatch path promises about equipment | implemented by `Dispatch` (property `ImplementsOrders`) |
| `AuditChain` | append, commit, rollback, verification, tampering | |
| `TelemetryPipeline` | stream, consumer group, consumer thread, quarantine, `wait_until_processed` | |
| `DataSources` | connector life cycle, ingests and their gate, poller, start/stop | |
| `ModelGateway` | a model call: rate limiter, circuit breaker, two attempts, the thread pool and its timeout | |
| `ApiRecords` | either the audit log or the data sources | EXTENDS `AuditChain`, `DataSources` |
| `RedisPaths` | either the telemetry path or the model calls | EXTENDS `TelemetryPipeline`, `ModelGateway` |
| `OptimizerWorker` | the optimizer worker's loop: requested and scheduled cycles, cadence, retry, restart | |
| `AgentWorker` | the agent worker's loop: passes over decisions, evaluations and their in-flight marker | |
| `Workers` | either worker | EXTENDS `OptimizerWorker`, `AgentWorker` |
| `Intake` | uploads, proposals, mapping rules, documents and the constraints made of them | |
| `FolderWatch` | the watched folder and its thread | |
| `Exports` | export jobs, their stream, their worker, the object store | |
| `Accounts` | users, roles, login and SSO, the protection of the last administrator | |
| `LoginThrottle` | the counters of failed logins | |
| `Registry` | creation and patching of sites and assets | |
| `Forecasting` | criteria, model rows, retraining, the source of each forecast of a cycle | |
| `Planning` | forecasts to actions: derates, the constraints of the linear program, validator, scenarios, orders | |
| `BackOffice` | any of the eight modules above | EXTENDS all of them |
| `Dispatch_proofs`, `AuditChain_proofs`, `TelemetryPipeline_proofs`, `DataSources_proofs`, `ModelGateway_proofs`, `Workers_proofs` | theorems | EXTEND their module |
| `Office_proofs` | theorems about `Intake`, `Registry`, `Accounts`, `Exports`, `FolderWatch` and `LoginThrottle` | EXTENDS `BackOffice` |
| `Cycle_proofs` | theorems about `Planning` and `Forecasting`, and `BackOffice` as a whole | EXTENDS `Office_proofs` |
| `MCDispatch`, `MCAuditChain`, `MCDataSources`, `MCApiRecords`, `MCTelemetry`, `MCRedisPaths`, `MCWorkers`, `MCBackOffice` | constants of the runs | EXTEND their module |

`Workers`, `ApiRecords`, `RedisPaths` and `BackOffice` put together parts that, as far as they are modelled, touch no row
or key of one another: a behaviour is one of a single part (`worker`, `subject`, `path`, `part`) while the others stand still. The product of
the parts' states would add no step any part can tell from another.

### OTGateway and Dispatch

A dispatch attempt is named by its nonce. `request[n]` is the body of its requests, `gw[n]` where the
gateway stands with it. `IndependentValidate` is the gateway's check, evaluated by `Prepare` and again by
`CommitCheck`; `cleared` is the sleep between check and execution, during which nothing is checked
again. What the gateway reads of an asset is one bit, `commandable`, that the environment flips at any
time. `GatewayCrash` covers a request that is never answered.

On the api's side `db[a]` are the committed rows about action `a` (Decision mode, Approval, Signal),
`work[a]` their version in the transaction that holds the row (`holder[a]`), `cmd[n]` the Command
row and `ledger` the committed ones. A session is an operator's request or the optimizer; `pc` says where it
stands. `ReadApproval` is the unlocked read with all the checks of `decide_approval`;
`ApproveAndDispatch` is its flush (it waits for `holder[a]`), the queued signal and the first request;
`PrepareReady` ... `CommitFailed` are the gateway's possible answers, `CommitFailed` and `PrepareFailed` being
enabled at any time since a client may time out just before the answer. `StartCycle` is a cycle at
the point where it resolves the autonomy mode; `RouteAutonomous`, `RouteForApproval`, `SkipAdvisory` are the
three ways its loop handles an action. `Rollback` ends any session anywhere.

The refinement: an *order* of `CommandOrders` is a nonce that was sent, with the actor of its Command; its
status is a function of `gw`. The abstract module says: orders for an action come from any number of
operators or, once and alone, from the optimizer; a cleared order was cleared while the stop was
released; an order runs at most once.

### AuditChain

`rows` are the committed events, `pending[w]` those flushed by open transaction `w`, `read[w]` the hash it has
read and not chained on yet. `LastHash` sees what READ COMMITTED shows. A hash is the tuple it is
computed from. `VerifyChain` is `verify_chain` over one tenant in the order of the stamps. `overlapped`,
`edited` and `deleted` are history variables.

### TelemetryPipeline

Entries are named by their position in the stream. `delivered` and `pel` are the group's state in
Redis; `todo`, `tx`, `doomed` the consumer's batch and transaction; `table` the committed rows, keyed by
what `uq_telemetry_reading` is on. Faults: a lost reply of `xreadgroup`, a failed commit, a failed
acknowledgement, a lost connection in mid-batch (each later insert raises and is quarantined, as the code does), a
crash of the process. `EnsureGroupFails` is an error of Redis where the thread starts, before its loop and outside any
`try` (`telemetry_consumer.py:157`): the thread is "dead" while the api stays up, and only a crash of the process, which
the container's restart policy answers, brings it back.

### DataSources

A source is the set of event times it holds. `Begin...` is the read and check of a request,
`Finish...` its write; an ingest goes through fetched, published, committed, and `CommitGate`
moves fingerprint and mark; `IngestFails` ends it at any of these points, with any part of the
readings published. `Exempt` are the connectors created with `requires_maker_checker` false: `MayActivate` lets their
creator through, as `activate_connector` does. Only the poller is gated; a manual ingest takes everything. `taken`, `repeats`,
`disturbed` and `stopped` are history variables.

### ModelGateway

A command to Redis is one step, so a call is a sequence: `Allow` is the limiter, `CheckBreaker` the
breaker, `Submit` hands the attempt to the pool of the process, `ForgetFailures` and `CloseBreaker` are the two
deletions of `record_success`, `CountFailure` and `TripBreaker` the commands of `record_failure`, and
`TryAgain` decides on the second attempt. `queue[p]` is a process's pool: the first `Threads` jobs run,
the others wait; a job whose caller has timed out stays in it under the name "abandoned". `AllowFailsOpen`,
`CheckFailsOpen` and `RecordFails` are errors of Redis, on which the code lets the call go on.
`reached`, `unmetered` and `late` are history variables.

### OptimizerWorker

`pc` is the place in the loop of `policy/worker.py`: a batch of requests (`Consume`, `ServeRequest`), then,
if `due` is 0, a sweep over the tenants that were running when it began (`BatchDone`, `ServeScheduled`,
`SweepDone`). `due` and `quiet` count down with time; `Restart` sweeps at once. `served`, `owed`, `dropped`
and `quiet` are history variables. A cycle is one step: the loop does nothing else meanwhile, and what happens inside it
is in `Dispatch`.

### AgentWorker

One loop again, over two streams in turn; `at` is the place in it and `hand` the batch. A pass asks its agents one
by one (`AskAgent`) and commits at its end (`CommitPass`); `PassFails` rolls it back. An evaluation ends with the
deletion of the marker (`ClearMarker`), whoever set it. The api's side is `RequestEval` (SET NX) and `QueueEval`.
`EvalFails` is an exception of a model or the database in mid-evaluation, which the code's `finally` follows; it may
happen at any time and is no fault. `EvalNotStarted` is an exception before the `try`, which no `finally` follows.
`Pending` is the number of evaluations between the request and their end. `lost`, `expiries` and `struck` are history
variables; `struck` says that something happened after which the code does not give the marker back.

### Intake

An upload is one step when the shape is known (`UploadFixed`) or a rule exists for its signature
(`UploadReuse`); otherwise the handler waits for the model (`asking`, one at a time since the async handler blocks
the loop) and files a proposal or an extract. Requests of the thread pool check the status
without a lock (`Check`), an approval then applies the mapping and publishes (`Ingest`) and commits
(`CommitApprove`); rows of customers come in with the commit, readings before it. `Yields` is `apply_mapping`: a
mapping yields rows only for the spelling of the header it was made for, whereas the signature that finds
the rule ignores case. `arrived`, `approved` and `late` are history variables.

### FolderWatch

`watcher` is the place of the thread: it looks for the default tenant (outside any `try`, `LookupFails` kills it),
waits, scans. A scan takes names in order: `Skip`, or `Publish` and then `Mark`; `Unreadable` and
`RedisFails` end the whole scan, and so does `PublishRaises`, a content that parses but that the event bus cannot write
(`Unwritable`; a date of a workbook is passed on as it is and `json.dumps` raises). The readings before it are published, the
file is not marked, and the next scan does the same again. Files are put, replaced, removed and locked by the world at any time. `copies` counts the
times a content was published in full.

### Exports

`RequestExport` commits the job, `PublishExport` puts it on the stream, `PublishLost` is the failure in between. The worker's
`step` goes through build, put and finish; `StepFails` is an exception anywhere, with or without the effect of
the step, `MarkFailed` the handler that follows it, `MarkFails` its own failure, `CrashExporter` the loss of the batch in
hand. `ledger` is the version of what the workbook is made from. `stranded` is a history variable.

### Accounts and LoginThrottle

An administrative request is authorised by the row of its caller (`Authorise`), reads the account it is about
(`ReadUser`), counts the active administrators (`CountAdmins`) and commits (`CommitUpdate`, which writes only the fields that
differ from what was read). `overtaken` marks the requests during which another one committed. SSO and `Bootstrap`
create accounts. The throttle counts with INCR (`CountFailure`) and sets the life time of a counter with a
second command after the first failure (`Expire`, `ExpireLost`); `TickThrottle` is time. `timeless` is a history variable.

### Registry

`DraftAsset` and `DraftSite` are the checks of a creation, `CommitAsset` and `CommitSite` its insert; `saw` is what was
there when it checked. `PatchAsset` renames, retires and reinstates without a check.

### Forecasting

`Snapshot` is what a cycle or a request to retrain reads: criteria, assets, which rows are absent, whether one is
stale. `FinishCycle` retrains if need be, under the unique key (`Clash`), and issues the forecasts; `FinishWithoutModels`
is a failed training, on which the cycle falls back. `Qualifies` is `models_to_apply`, used for the forecast and for what
the operator is shown. A fit is any improvement on any amount of history. A row keeps `n`, the hours it was trained on
(`n_samples`), and, as history, `asked`, the `min_training_hours` in force then: `models_to_apply` looks at mode,
improvement and age of a row and never at its hours.

### Planning

The decision cycle by its commits: `MakeForecasts` up to the first one, `LoadInputs` the state read again after it, `Conclude`
the rest. `HourFits` and `Feasible` are the constraints of the linear program, `Validates` is `validate_plan`,
`Perturb` the named scenarios, `Orders` the actions of the first hour with their `max_kw`. The program may return any
feasible plan: prices and the objective are left out, so what is shown holds for every objective. It may also come to no
answer (no solver, abnormal end; `solver.py:106`, `:179`), in `planStatus` "ERROR", with a feasible plan or without.
`refused` are the scenarios recorded as infeasible. `PatchRating` and
`FileDerate` are the registry and the intake in between.

## 3. Runs

| Run | Question | Bounds |
|---|---|---|
| `dispatch` | Two racing approvers, an optimizer, e-stop, policy edits, timeouts and one rolled-back transaction: is the ledger true, is dispatch exclusive, does an unattended action run once, do decisions agree with the ledger, how often is an action sent, does routing follow the policy, does the e-stop quiesce, does `Dispatch` implement `CommandOrders`? | 1 battery charge of medium risk, within its envelope; policies that let it run unattended; 2 deciders, 3 attempts, clock to 1, approval window 0, validity 1, 1 rollback |
| `dispatch_sessions` | Two operators contend for the row of one action while its holder waits for a gateway that may never answer: do all sessions end? | 2 actions (a grid buy and an advisory one), both for approval; 2 deciders, 2 attempts, clock to 1, no rollback |
| `decision_race` | violation, see findings | 1 action, 2 deciders, 2 attempts, clock to 2, no rollback |
| `api_records` | Audit log: is it anchored, does it verify without overlap, is tampering evident? Data sources: does the gate follow the data, does the poller repeat, was every active connector checked by a second person unless exempt? | log: 2 writers, 2 tenants, 4 events, 2 tamperings; sources: 2 connectors (a table and a feed, the feed exempt), 2 users, 2 event times, 3 requests, poller and manual ingest |
| `audit_fork` | violation, see findings | 2 writers, 2 tenants, 4 events, 1 tampering |
| `audit_truncated` | violation, see findings | 2 writers, 2 tenants, 2 events, 1 tampering |
| `maker_checker` | violation, see findings | 1 exempt connector, 2 users, 3 requests |
| `stop_undone` | violation, see findings | 1 connector, 2 users, the poller, 3 requests |
| `redis_paths` | Telemetry: is loss bounded by faults, does every entry settle, what may a waiting poller conclude? Model calls: how much can reach the provider, what does an open breaker let through, are failures forgotten, do calls end? | telemetry: stream cap 2, batch 2, 3 entries, each fit to be stored or of an unknown asset, 2 faults; calls: 2 callers in one process with a pool of one thread, 4 calls, 2 a minute and 3 a day, threshold 2, cooldown 1, a failure remembered for 2, clock to 2 (two windows of the limiter), 1 error of Redis or crash |
| `telemetry_loss` | violation, see findings | stream cap 4, batch 2, 3 good entries, 1 fault |
| `workers` | Is every request served, does every started tenant go on being planned for, does a decision earn the full cadence? How many evaluations wait or run at once, when is the marker given back, is a pass atomic, is every decision explained? | optimizer: 2 tenants, 3 requests in the stream, batch 2, cadence 2, retry 1, 1 crash; agents: 2 decisions in one batch, 3 agents, 3 requests for an evaluation, evaluations that end by an exception at any time, 1 expiry, 1 further fault |
| `back_office` | Do rows come in by reviewed mappings only, is an item decided once, is every file taken, does every job and every lock-out end, does a tenant keep its administrator, is there one grid, are forecasts made by models in force, does a plan fail only for cause, do actions stay within their envelopes? | see below |

Bounds of `back_office`: intake, two tables whose headers differ in case only, one of them of customers, a document and
a file of known shape, 2 requests, 2 items; folder, 2 names, contents of each kind (good, empty, unreadable, not writable to the stream), 2 faults; exports, 2 jobs,
batch 2, 1 change of the ledger, 2 mishaps; accounts, 2 users, 2 updates; throttle, 1 account, 2 logins at once, limit 2,
window 2, 1 lapse of Redis; registry, 2 asset rows, 2 site rows, 2 names; forecasting, 1 asset, at least 2 hours of history,
clock to 2; planning, horizon 2, a plant rated 1 or 2 and a load rated 2, import 1 and export 0, a battery of 1 kW with a
state of charge of 1 or below its limit, a derate of -50 % in the second hour, shedding up to 50 %, a solver that may come to no answer.

Why the bounds suffice: a race needs two sessions on one row, and every property of two attempts,
events or readings is violated by a pair of them when it is violated at all (the mutants of each run
confirm that the interesting cases do occur). Batch 2 with 3 entries gives a full batch, a partial one, and a
trim with the cap at 2. The clock distinguishes before, at and after the approval window and the end of a
command's validity. Symmetry is used only where the run has no liveness property. In `back_office`
two of everything that can overlap are enough for every race of a check and a write; export 0 makes curtailment necessary
and import 1 below the load makes shedding necessary, so that both orders occur; the negative derate and the low
state of charge are the causes of failure in the inputs.

**Fairness.** `dispatch_sessions`: a session that has started proceeds (its thread runs, its HTTP client has a
timeout of ten seconds, a waiter for a row goes on when its holder has ended). Operators need not act and
the gateway need not answer: `Proceed` contains neither. `redis_paths`: the consumer thread takes
its next step, which includes being started again after a crash of the api process (`restart: unless-stopped` in the
compose file) but not after its own end while the process stays up: a dead thread stays dead, and `EveryEntrySettles`
says so; the wait of the poller has a deadline, so it ends one way or the other; each caller of the model takes its own
next step, which includes its timeout, and the provider need not answer. `workers`: each loop takes its next step and is
restarted by its supervisor; for the optimizer time passes as well. `back_office`: the watcher's thread takes its next step
(not when it is dead: only an operator restarts the api), the export worker takes its own, a request that
has committed a job publishes it or fails, the time to live of a counter runs out, and a login that has counted a first failure goes on. No fairness is assumed of producers,
operators, faults or the network.

**Deadlock** is checked in all runs but `api_records`, `maker_checker`, `stop_undone`, `redis_paths`, `telemetry_loss` and
`back_office`, where the model stops because a bound on events, requests, entries, calls or jobs is used up.

### What holds only without a second actor

An operator's decision need not be the last word on its action, and an action may be executed twice: two approvers that
both read `pending` both pass the check, the later flush overwrites the earlier outcome and dispatches again (finding
`decision_race`); and a transaction rolled back after the gateway executed leaves the approval pending, so that it can be
approved, and the action executed, once more. The gateway does not look at the nonce or idempotency key of a request. What
holds whatever overlaps and rolls back is stated in `dispatch`, with racing approvers and a rollback in the run:

* `OutcomeMatchesLedger`: a pending Approval has no committed dispatch; an approved one has a committed dispatch of its
  approver; an operator whose rejection or hold stands has none. Another operator's may stand beside it.
* `RepeatsBounded`: a session sends an action once, and once more at most for each transaction rolled back. Over all sessions
  that is one dispatch for each operator, which is what a gateway that checked the idempotency key would have to prevent.

`ChainAlwaysVerifies` fails (finding `audit_fork`) as two overlapping transactions of a tenant chain on
the same event. `UntamperedVerifies` excludes exactly those tenants, and `Anchored` says what is still true of them. `TamperEvident` is about events with a remaining
successor or a changed body: removing the newest events, or all, goes unseen (finding `audit_truncated`).

Three liveness or release properties carry a condition as well:

* `EveryEntrySettles`: unless the consumer thread died at its start, when nothing in a running process restarts it
  (`ingestion/telemetry_consumer.py:157`).
* `MarkerReleased`: the marker is set only for an evaluation that is queued or running, however evaluations end, unless since it was set
  its request could not be queued, the worker died, an evaluation failed before its `try`, or Redis did not take the delete. The
  expiry of the marker is then all there is.
* `ActiveWasChecked`: unless the connector was created exempt (finding `maker_checker`). An operator's disable that commits
  while a test is under way is overwritten by the test's status (`routers/connectors.py:306`); no property is about it.

The properties of `back_office` carry the same kind of condition, and each condition is an observation on the code:

* `AdminStays`: two updates that overlap may each count the other's administrator and leave none (`routers/admin.py:187`).
* `OneGrid`: two creations that overlap, a reinstated asset or a renamed one give two grids or two assets of one name
  (`routers/portfolio_registry.py:150`, `:194`); the cycle plans against whichever comes first.
* `DecidedOnce`: an approval or constraint under way when an item is decided still takes effect, and readings of an approval that
  then fails are on the stream already (`routers/ingestion.py:252`).
* `EveryFileTaken`: one file that cannot be read, or whose readings cannot be written to the stream, keeps itself and the files after
  it waiting, at every scan (`ingestion/folder_watcher.py:70`), and an exception of the tenant lookup ends the thread until the api is
  restarted (`:60`, `:84`).
* `JobsEnd`: a job whose publication fails stays pending, and the batch of a worker that dies stays as it was
  (`routers/exports.py:76`).
* `LockoutEnds`: a counter whose EXPIRE is lost locks its account for good, since only a success clears it and none is let through
  (`backend/app/security_http.py:85`).
* `FailsForCause`: a state of charge outside the limits, a derate below zero or a demand that import cannot
  serve; or the solver came to no answer, and then the plan's status is ERROR (`solver.py:106`, `:179`). The message of that
  status also reads "infeasible under current constraints" (`:186`), which the property shows to be untrue in general: a plan may exist.
* `EnvelopeHolds`: a rating lowered between the two commits of a cycle, or since a model was trained, gives an order above
  its own `max_kw`, which the gateway then refuses.

### Where a comment says more than the code does

Besides the findings, which are runs of their own, five sentences of the source and its guide hold only with a
condition. The property states what is true, with the condition in it:

* `reo_common/events.py`, on the in-flight marker: at most one evaluation is queued or running. The marker
  may expire while its evaluation waits behind decisions. `EvalsBounded`: one, and one more per expiry.
* `policy/worker.py`: every started tenant is planned for. A successful request restarts the cadence of
  all tenants. `PlannedUnlessOvertaken`: unless successful requests keep coming.
* `docs/USAGE_GUIDE.md`, on the cooldown of the breaker. A call under way when the breaker opened may succeed
  and close it. `LateAttemptsBounded`: a caller finishes the call it is in, and no more.
* `wait_until_processed` of `reo_common/events.py`: a positive answer means that the entries were
  acknowledged, not that their rows are committed. `ProcessedMeansSettled` says what the poller may conclude.
* `reo_common/forecast_ml.py:221`, `docs/USAGE_GUIDE.md:531`: hours of history "before a model is trusted at all". A model
  in force is not compared with a `min_training_hours` decided after it was trained until it is retrained, at most
  `retrain_hours` later. `ModelInForce`: as many hours as were asked for when it was trained.

Also, `agent/worker.py` sets the status of a failed decision to "proposed" with the comment "unchanged";
the model does so too, and `PassAtomic` says that it happens at most once and with the explanation.

### Findings

1. `decision_race`: a committed rejection does not stop a second approver's approval from reaching the equipment.
2. `audit_fork`: the chain of an untampered log does not verify after two overlapping transactions.
3. `audit_truncated`: a log whose newest events, or all, were deleted verifies.
4. `telemetry_loss`: a batch whose commit fails has been acknowledged and is not redelivered.
5. `maker_checker`: whoever creates a connector can switch the second person off for it and activate it alone.
6. `stop_undone`: a tenant that was stopped is started again by the next poll that brings rows.

## 4. Proofs

Proved with TLAPS for all values of the constants that meet the modules' named assumptions (which
TLC evaluates in the runs):

| Theorem | Says | Argument |
|---|---|---|
| `Dispatch_proofs!TypeCorrect` | `Spec => []TypeOK` | `IInv`; typing needs `LocalsOK`, since a session's `item` and `nonce` are meaningful only at some `pc` |
| `Dispatch_proofs!DispatchExclusiveCorrect` | no two sessions dispatch one action | `LocksOK`: a session that dispatches holds the row of its item |
| `Dispatch_proofs!AutonomousOnceCorrect` | an unattended dispatch is the action's only one | `OrdersOK`: an action the optimizer has sent was planned, and has no pending approval, committed or in work; an action still to be routed was never sent |
| `Dispatch_proofs!EstopQuiescesCorrect` | under an e-stop nothing new passes the check | directly from the gateway's actions |
| `Dispatch_proofs!LedgerTruthCorrect` | what a committed Command or Signal says is what happened at the gateway | `CommandsOK`: a Command's answer is the gateway's, and the nonce a session has in hand is its own, sent for its item and unanswered; `SignalsBacked`: an acknowledged Signal has an acknowledged Command, committed or in the transaction that writes the Signal; `NothingSent`: a decision that has not begun to dispatch has sent nothing |
| `Dispatch_proofs!PolicyBoundsCorrect` | what reaches the gateway was planned and within the policy it was decided under | `ModesOK`: an Approval stands only under a mode that allows commands, what is still to be routed has the mode the cycle resolved, and only a cycle changes an action's mode; `OrdersWithin`: every request sent so far is within bounds |
| `Dispatch_proofs!ImplementsOrdersCorrect` | `Dispatch` implements `CommandOrders` | each gateway step moves the one order of its nonce (`GatewayRefines`), each request places one within the policy (`SendRefines`, from `PolicyInv`), every other step changes no order or is the stop switch |
| `Dispatch_proofs!OutcomeMatchesLedgerCorrect` | decisions agree with the committed dispatches, for any number of racing operators and rollbacks | `RowsOK`: the dispatches an open transaction has made are those of its session and item (`Owned`); an approver's lock is that of an approval in work; what the cycle has routed for approval was never sent; an operator who has not decided has no committed dispatch of it (`Fresh`) |
| `Dispatch_proofs!RepeatsBoundedCorrect` | a session sends an action once, and once per rollback | `Counted`: an operator has sent an action once per rollback, and once more only if a dispatch of it is under way or committed |
| `AuditChain_proofs!AnchoredCorrect` | the log is a tree of committed events of the tenant | `AnchorOK`: the same of flushed events and of the hash in hand |
| `AuditChain_proofs!UntamperedVerifiesCorrect` | without overlap the log verifies | `LinkOK`: the open transaction's view is linked and ends in the hash in hand; the newest event exists because stamps are below the clock (well-founded induction on naturals, cited as `WFMin`) |
| `AuditChain_proofs!TamperEvidentCorrect` | an edited event, or one that remains after its predecessor was removed, keeps the log from verifying, overlaps or not | `StampsOK`: a stamp names one event ever; `HashesOK`: a hash is that of the body written, and the body is gone just if the event was edited; so no event left can stand in for a removed one |
| `TelemetryPipeline_proofs!LossBoundedCorrect` | at most a batch of readings is lost per fault, and none without | `LossInv`: of the entries that are neither pending, quarantined, stored nor trimmed (`AtRisk`), all but a set `B` were lost to earlier faults; `B` is what the batch in hand has acknowledged, its rows are in the open transaction, and with what is still to do it fits into a batch. A commit takes `B` out, a fault gives it up (`NewBatch`, `GiveUp`). It needs that a batch is all that is unread up to its last entry (`OldestOf`), or `delivered` could pass entries nobody holds |
| `TelemetryPipeline_proofs!ProcessedMeansSettledCorrect` | what `wait_until_processed` may be relied on for | `WaitOk`: after a positive answer everything up to the target was handed out and nothing of it is pending, nor will be again, since the group only hands out later entries |
| `DataSources_proofs!ActiveWasCheckedCorrect` | maker and checker, for connectors not created exempt | `RequestsChecked`: a request that will activate was checked against a creator, and a creator never changes |
| `DataSources_proofs!GateFollowsDataCorrect` | what the poller will skip has been ingested | `IngestFollows`: what an ingest in flight will write to the gate is covered by what is taken or what it is about to publish |
| `DataSources_proofs!PollerNoRepeatCorrect` | the poller alone repeats nothing | `BelowMark`: of a gate nothing upset, all that was taken lies below the mark, or the mark the poller is about to write, and what it has in hand above |
| `ModelGateway_proofs!FailuresExpireCorrect` | the failure counter has a life, or its writer is between the two commands, or met a fault | directly inductive with the types |
| `ModelGateway_proofs!LateAttemptsBoundedCorrect` | under an open breaker a caller submits no more than the call it is in | `LateOk`: what it has submitted and what its call may still submit (`Left`) stay within two, and two more per error of Redis; under a closed breaker there are no late attempts |
| `ModelGateway_proofs!SpendBoundedCorrect` | what reaches the provider is bounded by the windows | `SpendInv`: what reached it, what waits behind the threads of a pool (`Behind`) and what the calls may still submit (`Owing`) stay within two for each call let through, which the counters bound (`InMinutes`, `InDay`); `PoolInv`: a job not given up belongs to one caller, who waits for it |
| `Workers_proofs!FullCadenceCorrect` | a decision keeps the schedule from planning for its tenant before the cadence has passed | `CadenceInv`: outside a sweep the one due time covers every tenant's cadence; in a sweep the tenants to come have none left, and any that is left came from this sweep |
| `Workers_proofs!EvalsBoundedCorrect` | at most one evaluation, and one more per expired marker | `MarkerCovers`: while the marker is not set, the evaluations there are have been paid for by expiries |
| `Workers_proofs!MarkerReleasedCorrect` | no marker without an evaluation, however evaluations end, unless it was struck | directly inductive with the types: every step that takes the last evaluation away deletes the marker or sets `struck` |
| `Workers_proofs!PassAtomicCorrect` | findings, explanation and status of a decision change in one commit, once | `PassInv`: what is in hand or still to come is explained by nobody, and no decision is there twice |
| `Workers_proofs!WorkersCorrect` | the two workers together keep all of the above | every behaviour of `Workers` is one of each worker (`WorkersAreWorkers`) |
| `Office_proofs!ReviewedFirstCorrect` | rows of an unknown shape come in by a reviewed mapping only, and so do the rules | `IntakeInv`: an approval under way works on a mapping that was approved when it began, and one that will add no rule has seen a rule, which nothing takes away |
| `Office_proofs!DecidedOnceCorrect` | a decided item has a further effect only through a request that was under way when it was decided | `LateOK`: whoever still works on a decided item was at it then, since the check lets nobody start on one; and what a step does to an item is done by a request that works on it (`EffectsOwned`) |
| `Office_proofs!OneGridCorrect` | two grids, or two rows of one name, mean a patch or overlapping creations | `RegistryInv`: every row, drafted or committed, clashes with none of the rows it saw that no patch has touched; each portfolio was made by a site that saw no other |
| `Office_proofs!AdminStaysCorrect` | only an update that was overtaken takes a tenant its last administrator | an update that nobody overtook finds the administrators it counted |
| `Office_proofs!CompleteDownloadsCorrect` | the safety part of `JobsEnd`: a complete job has the workbook of its checksum under its key | `InWork`: from its start to its end the job in work is the first of the batch and "running", and before it is marked complete what lies under its key is the workbook in memory |
| `Office_proofs!TakenOnceCorrect` | the safety part of `EveryFileTaken` | `FolderInv`: a content neither marked nor being published was published once per failure at most |
| `Office_proofs!GuessesBoundedCorrect` | the safety part of `LockoutEnds` | `ThrottleInv`: the failures counted and the logins let through that have not counted yet stay below the limit, one for each login served at once and one for each error of Redis |
| `Cycle_proofs!FailsForCauseCorrect` | a decision fails, or a scenario is recorded infeasible, only for a cause in its inputs, or under a plan whose status is ERROR | `PlanInv`: types and signs of the inputs, and what follows for them: the plan that leaves the battery at rest, curtails what cannot be used and sheds what cannot be served is feasible, and every feasible plan validates |
| `Cycle_proofs!EnvelopeHoldsCorrect` | an action exceeds its envelope only where a rating was lowered under the forecast | the same: derated generation is at most the forecast, and a forecast at most its basis |
| `Cycle_proofs!ModelInForceCorrect` | a forecast by a model rests on criteria an operator decided, on a model of the mode, improvement and age they ask for, and on the history asked for when it was trained | `ForecastInv`: every row was trained on what was asked (`Taught`), so a row that is read was too; what a running cycle has read are criteria that were decided on or call for physics, and unless it will train, rows young enough for them; a retraining that overlaps only makes rows younger; while nothing it reads has changed, they are those in force |
| `Cycle_proofs!OfficeCorrect` | the ten safety properties of the back office hold of all parts together | every behaviour of `BackOffice` is one of each part (`OfficeIsItsParts`) |

The theorems on `Planning` hold for any horizon, ratings, limits and derates under `PlanningAssumption` and
`DeratesAssumption`; the latter says that a set of caps has a least one, which is what finitely many derates mean.
The assumptions of the other modules are of the same kind: a bound is a natural number, a marker for "none" is no value of
the kind it stands in for (`nobody`, `noModel`, `absent`), the threads that serve logins are finitely many, and, in
`ModelGateway`, a failure is remembered for longer than the breaker cools down, as the code's constants are.
The bounds of the runs (attempts, entries, faults, the clock) are constants of the theorems, any natural numbers.

The inductive invariants are needed because hardly any of the properties is inductive: each talks about
committed or past state, while the next step takes its values from locals of a session or a loop. Each
property was first checked by TLC on the instance of the run.

Model-checked only: the liveness properties `SessionsEnd`, `EveryEntrySettles`, `CallsEnd`, `RequestsServed`,
`PlannedUnlessOvertaken`, `ExplainedOrLost`, and what `EveryFileTaken`, `JobsEnd` and `LockoutEnds` say beyond their safety
parts: fairness and ENABLED are out of the prover's reach. The theorems about `Exports`, `FolderWatch` and `LoginThrottle` are
about their steps without fairness. Every safety invariant and action property that a passing run checks is proved.

## 5. Not modelled, and why

* Reads (dashboards, searches, read models, the what-if endpoint of the scenario lab): no behaviour over time. Customers are only read outside intake and the reference dataset.
* Numbers: prices and the objective, quantiles, how a model is fitted, weather. `Planning` takes any feasible plan and
  `Forecasting` any improvement; risk classes and the maintenance advice are labels on their results.
* In `Accounts`: expiry of tokens, hashing of passwords, roles that do not administer. Tenant isolation: the filter is a rewrite of each
  statement; models have one tenant except `AuditChain` and `OptimizerWorker`.
* The frontend, the launcher, migrations, the edge simulator and infrastructure: start-up, presentation or test equipment.
* In `Dispatch`: the gates before the autonomy mode is resolved only decide whether a plan exists and may be
  proposed; both are free choices of `StartCycle`. Autonomy policies at asset scope: see the plan. The expiry of an approval is read from the
  clock before the row lock is waited for (`governance.py:97`), so one that expires in the wait is still dispatched; no property is about it.
* In `ModelGateway`: evaluations call through a gateway with counters of its own and no breaker; a breaker that is
  switched off; the change of day. What is asked and answered, and the validation of answers.
* In `DataSources`: a folder of files is one source, and the event times carry no values. A poll pass lists its connectors once
  (`connector_poller.py:55`); one disabled during the pass is still polled in it, as the model allows.

## 6. Plan

Done: all modules of section 2. Next, in this order:

1. `Policies`: asset-scoped autonomy with concurrent edits and the settings cache; that the most specific policy
   wins, against `run_cycle` resolving without an asset; objective policy versions.
2. Risk classes, maintenance advice and ticket status on top of `Planning`.
3. The two workers and a cycle in one behaviour, with the decision stream between them, in place of `Workers`.
4. Proofs: abstract specifications of the telemetry pipeline and of the exports, with the refinement step by step.
