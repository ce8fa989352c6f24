------------------------------- MODULE DataSources -------------------------------
(***************************************************************************)
(* Connector Studio (backend/app/routers/connectors.py), the poller that   *)
(* re-reads every active source (ingestion/connector_poller.py) and the    *)
(* start and stop of a tenant's optimizer (routers/operations.py).         *)
(*                                                                         *)
(* A request reads the row it decides on and writes it later, without a    *)
(* lock: Begin and Finish are two steps, and a test makes an outbound call *)
(* between them.  SQLAlchemy writes a column only when the value assigned  *)
(* differs from the value read.  An ingest fetches the source, publishes   *)
(* what is new, commits its transaction, and only then moves the content   *)
(* gate (fingerprint and high-water mark) in Redis.                        *)
(*                                                                         *)
(* Abstractions: one tenant; a source is the set of the event times it     *)
(* holds for one asset and metric; two contents have the same fingerprint  *)
(* exactly when they are equal; sources are single files, tables or feeds. *)
(***************************************************************************)
EXTENDS Integers, FiniteSets

CONSTANTS Connectors, Users,
          Admins,     \* users that are platform admins
          Kind,       \* kind of a connector
          Exempt,     \* connectors created with requires_maker_checker False
          Sessions,   \* who ingests: the poller, and an operator by hand
          MaxStamp,    \* bound: event times of a source
          MaxCalls    \* bound: operator requests

Gating == {"database", "data_table"}
Pollable == Gating \union {"iot", "market_energy_purchase"}
(* Kinds whose rows are readings with their own event times; the others    *)
(* are stamped afresh on every ingest and have a fingerprint only.         *)
Marked == {"data_table", "iot"}

ASSUME SourcesAssumption ==
  /\ "poller" \in Sessions /\ Sessions \subseteq {"poller", "manual"}
  /\ Admins \subseteq Users /\ "nobody" \notin Users /\ MaxStamp \in Nat /\ MaxCalls \in Nat
  /\ Exempt \subseteq Connectors /\ Kind \in [Connectors -> Pollable \union {"scada", "generic"}]

VARIABLES status, creator, activator,  \* the connector rows
          operating,    \* Tenant.operating_state
          request,      \* the request of each user in progress
          calls,
          source,       \* what each source holds
          ready,        \* the assets that its rows are mapped onto exist
          fingerprint, mark,  \* the content gate of each connector
          ingest,       \* the ingest of the poller and of the operator
          queue,        \* connectors the poll pass has still to visit
          triggered,    \* the pass brought in new rows
          taken,        \* history: event times ingested from each source
          repeats,      \* history: event times the poller ingested again
          disturbed,    \* history: gates that a failure or a manual ingest upset
          stopped       \* history: an operator stopped a running optimizer

connectorRows == <<status, creator, activator>>
gates == <<fingerprint, mark>>
poller == <<ingest, queue, triggered>>
history == <<taken, repeats, disturbed>>
sourcesVars == <<connectorRows, operating, request, calls, source, ready, gates, poller, history, stopped>>

Times == 1..MaxStamp
NoDigest == {0}
Nobody == "nobody"
Latest(S) == IF S = {} THEN 0 ELSE CHOOSE t \in S : \A u \in S : u <= t
NoRequest == [op |-> "none"]
NoIngest == [pc |-> "idle"]

SourcesInit ==
  /\ status = [c \in Connectors |-> "absent"]
  /\ creator = [c \in Connectors |-> Nobody] /\ activator = creator
  /\ operating = "idle" /\ stopped = FALSE
  /\ request = [u \in Users |-> NoRequest] /\ calls = 0
  /\ source = [c \in Connectors |-> {}]
  /\ ready = [c \in Connectors |-> FALSE]
  /\ fingerprint = [c \in Connectors |-> NoDigest]
  /\ mark = [c \in Connectors |-> 0]
  /\ ingest = [s \in Sessions |-> NoIngest]
  /\ queue = {} /\ triggered = FALSE
  /\ taken = [c \in Connectors |-> {}] /\ repeats = taken
  /\ disturbed = [c \in Connectors |-> FALSE]

-----------------------------------------------------------------------------
(* Requests on a connector: create, test, activate, disable.               *)
HasActiveSource == \E c \in Connectors : status[c] = "active" /\ Kind[c] \in Gating

(* Mutant: only a draft is checked for maker and checker.                  *)
MayActivateTested(u, c) ==
  /\ status[c] \in {"draft", "testing"}
  /\ creator[c] # u \/ u \in Admins \/ c \in Exempt \/ status[c] = "testing"

(* A connector may be exempted from maker and checker when it is created.  *)
MayActivate(u, c) ==
  /\ status[c] \in {"draft", "testing"}
  /\ creator[c] # u \/ u \in Admins \/ c \in Exempt

Call(u, r) ==
  /\ request[u] = NoRequest /\ calls < MaxCalls
  /\ calls' = calls + 1
  /\ request' = [request EXCEPT ![u] = r]

CreateConnector(u, c) ==
  /\ status[c] = "absent" /\ calls < MaxCalls
  /\ calls' = calls + 1
  /\ status' = [status EXCEPT ![c] = "draft"]
  /\ creator' = [creator EXCEPT ![c] = u]
  /\ UNCHANGED <<activator, operating, request, source, ready, gates, poller, history, stopped>>

BeginTest(u, c) ==
  /\ status[c] # "absent"
  /\ Call(u, [op |-> "testing", on |-> c, seen |-> status[c]])
  /\ UNCHANGED <<connectorRows, operating, source, ready, gates, poller, history, stopped>>

BeginDisable(u, c) ==
  /\ status[c] # "absent"
  /\ Call(u, [op |-> "disabled", on |-> c, seen |-> status[c]])
  /\ UNCHANGED <<connectorRows, operating, source, ready, gates, poller, history, stopped>>

BeginActivate(u, c) ==
  /\ MayActivate(u, c)
  /\ Call(u, [op |-> "active", on |-> c, seen |-> status[c]])
  /\ UNCHANGED <<connectorRows, operating, source, ready, gates, poller, history, stopped>>

FinishConnector(u) ==
  /\ request[u].op \in {"testing", "disabled", "active"}
  /\ LET r == request[u] IN
       /\ status' = IF r.op = r.seen THEN status ELSE [status EXCEPT ![r.on] = r.op]
       /\ activator' = IF r.op = "active" THEN [activator EXCEPT ![r.on] = u] ELSE activator
  /\ request' = [request EXCEPT ![u] = NoRequest]
  /\ UNCHANGED <<creator, operating, calls, source, ready, gates, poller, history, stopped>>

-----------------------------------------------------------------------------
(* start_operations and stop_operations.                                   *)
BeginStart(u) ==
  /\ HasActiveSource
  /\ Call(u, [op |-> "running", seen |-> operating])
  /\ UNCHANGED <<connectorRows, operating, source, ready, gates, poller, history, stopped>>

BeginStop(u) ==
  /\ Call(u, [op |-> "idle", seen |-> operating])
  /\ UNCHANGED <<connectorRows, operating, source, ready, gates, poller, history, stopped>>

FinishOperations(u) ==
  /\ request[u].op \in {"running", "idle"}
  /\ operating' = IF request[u].op = request[u].seen THEN operating ELSE request[u].op
  /\ stopped' = (request[u].op = "idle" /\ (request[u].seen = "running" \/ stopped))
  /\ request' = [request EXCEPT ![u] = NoRequest]
  /\ UNCHANGED <<connectorRows, calls, source, ready, gates, poller, history>>

-----------------------------------------------------------------------------
(* The world: a reading is added to a source, late ones too; the assets    *)
(* that the rows of a source are mapped onto are registered.               *)
SourceGrows(c) ==
  /\ \E t \in Times \ source[c] : source' = [source EXCEPT ![c] = @ \union {t}]
  /\ UNCHANGED <<connectorRows, operating, request, calls, ready, gates, poller, history, stopped>>

RegisterAssets(c) ==
  /\ ~ready[c] /\ Kind[c] \notin Marked
  /\ ready' = [ready EXCEPT ![c] = TRUE]
  /\ UNCHANGED <<connectorRows, operating, request, calls, source, gates, poller, history, stopped>>

-----------------------------------------------------------------------------
(* poll_once: the active sources are listed once, at the start of a pass.  *)
PollStart ==
  /\ ingest["poller"] = NoIngest /\ queue = {} /\ ~triggered
  /\ queue' = {c \in Connectors : status[c] = "active" /\ Kind[c] \in Pollable}
  /\ UNCHANGED <<connectorRows, operating, request, calls, source, ready, gates, ingest,
                 triggered, history, stopped>>

(* The pass ends: a running tenant is sent a request for a decision cycle, *)
(* which is an event on the optimizer's stream.                            *)
PollEnd ==
  /\ ingest["poller"] = NoIngest /\ queue = {} /\ triggered
  /\ triggered' = FALSE
  /\ UNCHANGED <<connectorRows, operating, request, calls, source, ready, gates, ingest,
                 queue, history, stopped>>

(* Who may ingest: the poller what it listed, an operator what is active.  *)
MayIngest(s, c) ==
  /\ ingest[s] = NoIngest
  /\ IF s = "poller" THEN c \in queue
     ELSE status[c] = "active" /\ Kind[c] \in Pollable

Visit(s, c) == queue' = IF s = "poller" THEN queue \ {c} ELSE queue

(* Mutant: a reading as old as the mark is taken again.                    *)
OnlyNotOlder(s, c) ==
  {t \in source[c] : s = "poller" => t >= mark[c]}

(* _ContentGate.only_new                                                   *)
OnlyNew(s, c) ==
  {t \in source[c] : s = "poller" => t > mark[c]}

(* The rows an ingest takes: those only_new lets through, or for rows that *)
(* are stamped afresh all of them, if there is something to map them onto. *)
Fresh(s, c) ==
  IF Kind[c] \in Marked THEN OnlyNew(s, c)
  ELSE IF ready[c] THEN source[c] ELSE {}

(* The poller finds the content it saw last (_ContentGate.check).          *)
FetchUnchanged(c) ==
  /\ MayIngest("poller", c)
  /\ fingerprint[c] = source[c]
  /\ Visit("poller", c)
  /\ UNCHANGED <<connectorRows, operating, request, calls, source, ready, gates, ingest,
                 triggered, history, stopped>>

(* New content without a newer reading: only the fingerprint is kept.      *)
FetchStale(c) ==
  /\ MayIngest("poller", c)
  /\ fingerprint[c] # source[c] /\ source[c] # {}
  /\ Kind[c] \in Marked /\ OnlyNew("poller", c) = {}
  /\ Visit("poller", c)
  /\ fingerprint' = [fingerprint EXCEPT ![c] = source[c]]
  /\ UNCHANGED <<connectorRows, operating, request, calls, source, ready, mark, ingest,
                 triggered, history, stopped>>

(* Mutant: the gate is moved before the ingest has succeeded.              *)
FetchAndRemember(s, c) ==
  /\ MayIngest(s, c)
  /\ s = "poller" => fingerprint[c] # source[c]
  /\ source[c] # {}
  /\ Visit(s, c)
  /\ ingest' = [ingest EXCEPT ![s] =
       [pc |-> "fetched", on |-> c, content |-> source[c], fresh |-> Fresh(s, c), mark |-> 0]]
  /\ fingerprint' = [fingerprint EXCEPT ![c] = source[c]]
  /\ mark' = [mark EXCEPT ![c] = IF Kind[c] \in Marked THEN Latest(source[c]) ELSE 0]
  /\ UNCHANGED <<connectorRows, operating, request, calls, source, ready, triggered, history, stopped>>

FetchNew(s, c) ==
  /\ MayIngest(s, c)
  /\ s = "poller" => fingerprint[c] # source[c]
  /\ source[c] # {}
  /\ Kind[c] \in Marked /\ s = "poller" => OnlyNew(s, c) # {}
  /\ Kind[c] = "market_energy_purchase" => ready[c]
  /\ Visit(s, c)
  /\ ingest' = [ingest EXCEPT ![s] =
       [pc |-> "fetched", on |-> c, content |-> source[c], fresh |-> Fresh(s, c),
        mark |-> IF Kind[c] \in Marked /\ Latest(source[c]) > mark[c]
                 THEN Latest(source[c]) ELSE 0]]
  /\ disturbed' = IF s = "manual" THEN [disturbed EXCEPT ![c] = TRUE] ELSE disturbed
  /\ UNCHANGED <<connectorRows, operating, request, calls, source, ready, gates,
                 triggered, taken, repeats, stopped>>

(* The source cannot be read, or holds no row at all.                      *)
FetchFails(c) ==
  /\ MayIngest("poller", c)
  /\ Visit("poller", c)
  /\ UNCHANGED <<connectorRows, operating, request, calls, source, ready, gates, ingest,
                 triggered, history, stopped>>

Take(s, c, S) ==
  /\ taken' = [taken EXCEPT ![c] = @ \union S]
  /\ repeats' = IF s = "poller"
                THEN [repeats EXCEPT ![c] = @ \union (S \intersect taken[c])]
                ELSE repeats

PublishReadings(s) ==
  /\ ingest[s].pc = "fetched"
  /\ Take(s, ingest[s].on, ingest[s].fresh)
  /\ ingest' = [ingest EXCEPT ![s].pc = "published"]
  /\ UNCHANGED <<connectorRows, operating, request, calls, source, ready, gates, queue,
                 triggered, disturbed, stopped>>

StartsOptimizer(s) == ingest[s].fresh # {} /\ Kind[ingest[s].on] \in Gating

(* _finish_ingest and _finish_non_gating_ingest, with mark_started_if_idle *)
(* and the commit.                                                         *)
FinishIngest(s) ==
  /\ ingest[s].pc = "published"
  /\ operating' = IF StartsOptimizer(s) THEN "running" ELSE operating
  /\ ingest' = [ingest EXCEPT ![s].pc = "committed"]
  /\ UNCHANGED <<connectorRows, request, calls, source, ready, gates, queue,
                 triggered, history, stopped>>

(* _ContentGate.commit, and the poller's bookkeeping.                      *)
CommitGate(s) ==
  /\ ingest[s].pc = "committed"
  /\ LET i == ingest[s] IN
       /\ fingerprint' = [fingerprint EXCEPT ![i.on] = i.content]
       /\ mark' = IF i.mark = 0 THEN mark ELSE [mark EXCEPT ![i.on] = i.mark]
       /\ triggered' = (triggered \/ (s = "poller" /\ i.fresh # {}))
  /\ ingest' = [ingest EXCEPT ![s] = NoIngest]
  /\ UNCHANGED <<connectorRows, operating, request, calls, source, ready, queue, history, stopped>>

(* An exception at any point of an ingest: Redis or the database fails,    *)
(* or the process dies.  What was published stays published.               *)
IngestFails(s) ==
  /\ ingest[s] # NoIngest
  /\ LET i == ingest[s] IN
       \E part \in SUBSET (IF i.pc = "fetched" THEN i.fresh ELSE {}) :
         /\ Take(s, i.on, part)
         /\ disturbed' = [disturbed EXCEPT ![i.on] = TRUE]
  /\ ingest' = [ingest EXCEPT ![s] = NoIngest]
  /\ UNCHANGED <<connectorRows, operating, request, calls, source, ready, gates, queue,
                 triggered, stopped>>

(* The api process is restarted in the middle of a pass.                   *)
CrashPoller ==
  /\ queue # {} \/ triggered
  /\ ingest["poller"] = NoIngest
  /\ queue' = {} /\ triggered' = FALSE
  /\ UNCHANGED <<connectorRows, operating, request, calls, source, ready, gates, ingest,
                 history, stopped>>

Operators ==
  \E u \in Users :
    \/ \E c \in Connectors :
         CreateConnector(u, c) \/ BeginTest(u, c) \/ BeginDisable(u, c) \/ BeginActivate(u, c)
    \/ FinishConnector(u) \/ BeginStart(u) \/ BeginStop(u) \/ FinishOperations(u)

Ingesting ==
  \/ PollStart \/ PollEnd \/ CrashPoller
  \/ \E c \in Connectors :
       FetchUnchanged(c) \/ FetchStale(c) \/ FetchFails(c) \/ \E s \in Sessions : FetchNew(s, c)
  \/ \E s \in Sessions : PublishReadings(s) \/ FinishIngest(s) \/ CommitGate(s) \/ IngestFails(s)

World == \E c \in Connectors : SourceGrows(c) \/ RegisterAssets(c)

SourcesNext == Operators \/ Ingesting \/ World

SourcesSpec == SourcesInit /\ [][SourcesNext]_sourcesVars

-----------------------------------------------------------------------------
(* The gate never runs ahead of the data: whatever content the poller will *)
(* skip from now on has been ingested, but for readings older than one     *)
(* that was ("a failed ingest is retried on the next poll").               *)
GateFollowsData ==
  \A c \in Connectors : Kind[c] \in Marked =>
    /\ mark[c] # 0 => mark[c] \in taken[c]
    /\ fingerprint[c] # NoDigest =>
         \A t \in fingerprint[c] : \E u \in taken[c] : u >= t

(* The poller ingests no reading twice, as long as no ingest of the        *)
(* connector failed half way and no operator ingested it by hand: the      *)
(* poller alone cannot append a duplicate series.                          *)
PollerNoRepeat ==
  \A c \in Connectors : Kind[c] \in Marked /\ ~disturbed[c] => repeats[c] = {}

(* Maker and checker: whatever tests, disables and activations overlap, an *)
(* active connector was activated by somebody else than its creator, or by *)
(* a platform admin, unless it was created exempt from the rule.           *)
ActiveWasChecked ==
  \A c \in Connectors \ Exempt : status[c] = "active" =>
    activator[c] # Nobody /\ (activator[c] # creator[c] \/ activator[c] \in Admins)

(* connectors.py: "activation requires a *different* human than the one    *)
(* who created it (maker-checker)", of any connector; for a platform admin *)
(* docs/USAGE_GUIDE.md makes an exception, "the one exception".            *)
CheckedByAnother ==
  \A c \in Connectors : status[c] = "active" =>
    activator[c] # creator[c] \/ activator[c] \in Admins

(* docs/USAGE_GUIDE.md: "A tenant that is idle (optimizer not started)     *)
(* just ingests": once the operator's Stop is in force, only a Start makes *)
(* the optimizer run again.                                                *)
StopSticks == stopped => operating = "idle"
=============================================================================
