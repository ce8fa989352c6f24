-------------------------- MODULE DataSources_proofs --------------------------
(***************************************************************************)
(* Proofs of ActiveWasChecked, GateFollowsData and PollerNoRepeat, for any *)
(* number of connectors, users and event times.                            *)
(*                                                                         *)
(* For the first, a request that will activate was checked against a       *)
(* creator who can no longer change.  For the others, the invariant says   *)
(* what an ingest in flight will make true of its gate: what it fetched is *)
(* covered by what is taken, or will be once it publishes, and the mark it *)
(* carries is among that; and as long as nothing upset the gate of a       *)
(* connector, all that was taken lies below the mark, or below the one     *)
(* that the poller is about to write.                                      *)
(***************************************************************************)
EXTENDS DataSources, TLAPS, NaturalsInduction, WellFoundedInduction

-----------------------------------------------------------------------------
(* Maker and checker.                                                      *)
Writes == {"testing", "disabled", "active"}
Statuses == Writes \union {"absent", "draft"}
Target(u) == request[u].on

RowsTyped ==
  /\ status \in [Connectors -> Statuses]
  /\ creator \in [Connectors -> Users \union {Nobody}]
  /\ activator \in [Connectors -> Users \union {Nobody}]
  /\ request = [u \in Users |-> request[u]]
  /\ \A u \in Users : request[u].op \in Writes =>
       /\ request[u].on \in Connectors
       /\ request[u].seen \in Statuses

(* The connector of a request exists, so that its creator is settled, and  *)
(* one that will be activated was not active when it was read.             *)
RequestsChecked ==
  \A u \in Users : request[u].op \in Writes =>
    /\ status[Target(u)] # "absent"
    /\ request[u].op = "active" =>
         /\ request[u].seen # "active"
         /\ creator[Target(u)] # u \/ u \in Admins \/ Target(u) \in Exempt

CheckInv == RowsTyped /\ RequestsChecked /\ ActiveWasChecked

-----------------------------------------------------------------------------
(* The content gate.                                                       *)
GateTyped ==
  /\ source \in [Connectors -> SUBSET Times] /\ taken \in [Connectors -> SUBSET Times]
  /\ repeats \in [Connectors -> SUBSET Times] /\ disturbed \in [Connectors -> BOOLEAN]
  /\ fingerprint = [c \in Connectors |-> fingerprint[c]]
  /\ mark \in [Connectors -> Nat] /\ queue \subseteq Connectors

InFlight == [pc : {"fetched", "published", "committed"}, on : Connectors,
             content : SUBSET Times, fresh : SUBSET Times, mark : Nat]
IngestTyped ==
  /\ ingest = [s \in Sessions |-> ingest[s]]
  /\ \A s \in Sessions : ingest[s] = NoIngest \/ ingest[s] \in InFlight

Covered(S, T) == \A t \in S : \E u \in T : u >= t

(* What is taken of a connector once the ingest in hand is through.        *)
Taking(i) == taken[i.on] \union (IF i.pc = "fetched" THEN i.fresh ELSE {})

(* What an ingest will write to the gate is borne out by what it takes.    *)
IngestFollows ==
  \A s \in Sessions : ingest[s] # NoIngest /\ Kind[ingest[s].on] \in Marked =>
    /\ Covered(ingest[s].content, Taking(ingest[s]))
    /\ ingest[s].mark # 0 => ingest[s].mark \in Taking(ingest[s])

(* An ingest by hand upsets the gate.                                      *)
ByHandDisturbs ==
  \A s \in Sessions \ {"poller"} : ingest[s] # NoIngest => disturbed[ingest[s].on]

(* The poller is between publishing the readings of c and moving its mark. *)
Moving(c) ==
  /\ ingest["poller"] # NoIngest /\ ingest["poller"].on = c
  /\ ingest["poller"].pc # "fetched"
Level(c) == IF Moving(c) THEN ingest["poller"].mark ELSE mark[c]

(* Of a gate that nothing upset: what is taken is not above the mark, and  *)
(* what the poller has in hand is.                                         *)
BelowMark ==
  \A c \in Connectors : Kind[c] \in Marked /\ ~disturbed[c] =>
    /\ \A t \in taken[c] : t <= Level(c)
    /\ ingest["poller"] # NoIngest /\ ingest["poller"].on = c =>
         /\ ingest["poller"].mark > mark[c]
         /\ \A t \in ingest["poller"].fresh : mark[c] < t /\ t <= ingest["poller"].mark

GateInv ==
  /\ GateTyped /\ IngestTyped /\ IngestFollows /\ ByHandDisturbs /\ BelowMark
  /\ GateFollowsData /\ PollerNoRepeat

-----------------------------------------------------------------------------
(* The gates and the ingests leave the connector rows and requests alone.  *)
LEMMA CheckKept ==
  ASSUME CheckInv, UNCHANGED <<connectorRows, request>>
  PROVE  CheckInv'
BY DEF CheckInv, RowsTyped, RequestsChecked, ActiveWasChecked, Target, connectorRows

(* A new connector has no request yet; a request that begins finds its     *)
(* connector there.                                                        *)
LEMMA BeginKeeps ==
  ASSUME CheckInv, NEW u \in Users, NEW c \in Connectors,
         CreateConnector(u, c) \/ BeginTest(u, c) \/ BeginDisable(u, c) \/ BeginActivate(u, c)
  PROVE  CheckInv'
<1> USE SourcesAssumption DEF CheckInv, Nobody
<1>1. CASE CreateConnector(u, c)
  <2>1. /\ status[c] = "absent" /\ request' = request /\ activator' = activator
        /\ status' = [status EXCEPT ![c] = "draft"] /\ creator' = [creator EXCEPT ![c] = u]
    BY <1>1 DEF CreateConnector
  <2>2. RowsTyped'
    BY <2>1 DEF RowsTyped, Statuses, Writes
  <2>3. RequestsChecked'
    BY <2>1 DEF RequestsChecked, RowsTyped, Target
  <2>4. ActiveWasChecked'
    BY <2>1 DEF ActiveWasChecked, RowsTyped
  <2> QED
    BY <2>2, <2>3, <2>4
<1>2. CASE BeginTest(u, c) \/ BeginDisable(u, c) \/ BeginActivate(u, c)
  <2>1. /\ UNCHANGED connectorRows /\ status[c] # "absent"
        /\ \E op \in Writes :
             /\ request' = [request EXCEPT ![u] = [op |-> op, on |-> c, seen |-> status[c]]]
             /\ op = "active" =>
                  status[c] # "active" /\ (creator[c] # u \/ u \in Admins \/ c \in Exempt)
    BY <1>2 DEF BeginTest, BeginDisable, BeginActivate, Call, MayActivate, Writes
  <2>2. PICK op \in Writes :
          /\ request' = [request EXCEPT ![u] = [op |-> op, on |-> c, seen |-> status[c]]]
          /\ op = "active" =>
               status[c] # "active" /\ (creator[c] # u \/ u \in Admins \/ c \in Exempt)
    BY <2>1
  <2>3. /\ request' = [v \in Users |-> request'[v]]
        /\ request'[u] = [op |-> op, on |-> c, seen |-> status[c]]
        /\ \A v \in Users \ {u} : request'[v] = request[v]
    BY <2>2 DEF RowsTyped
  <2>4. RowsTyped'
    BY <2>1, <2>3 DEF RowsTyped, connectorRows
  <2>5. RequestsChecked'
    BY <2>1, <2>2, <2>3 DEF RequestsChecked, Target, connectorRows
  <2> QED
    BY <2>1, <2>4, <2>5 DEF ActiveWasChecked, connectorRows
<1> QED
  BY <1>1, <1>2

(* Only a request that was checked makes a connector active.               *)
LEMMA FinishKeeps ==
  ASSUME CheckInv, NEW u \in Users, FinishConnector(u)
  PROVE  CheckInv'
<1> USE SourcesAssumption DEF CheckInv, Nobody
<1> DEFINE c == request[u].on
           op == request[u].op
<1>1. /\ op \in Writes /\ c \in Connectors /\ status[c] # "absent"
      /\ op = "active" =>
           request[u].seen # "active" /\ (creator[c] # u \/ u \in Admins \/ c \in Exempt)
  BY DEF FinishConnector, Writes, RowsTyped, RequestsChecked, Target
<1>2. /\ creator' = creator
      /\ status' = IF op = request[u].seen THEN status ELSE [status EXCEPT ![c] = op]
      /\ activator' = IF op = "active" THEN [activator EXCEPT ![c] = u] ELSE activator
      /\ request' = [request EXCEPT ![u] = NoRequest]
  BY DEF FinishConnector
<1> HIDE DEF c, op
<1>3. /\ request' = [v \in Users |-> request'[v]]
      /\ request'[u].op \notin Writes
      /\ \A v \in Users \ {u} : request'[v] = request[v]
  BY <1>2 DEF RowsTyped, NoRequest, Writes
<1>4. RowsTyped'
  BY <1>1, <1>2, <1>3 DEF RowsTyped, Statuses
<1>5. \A d \in Connectors : status[d] # "absent" => status'[d] # "absent"
  BY <1>1, <1>2 DEF RowsTyped, Writes
<1>6. RequestsChecked'
  <2> SUFFICES ASSUME NEW v \in Users, request'[v].op \in Writes
               PROVE  /\ status'[request'[v].on] # "absent"
                      /\ request'[v].op = "active" =>
                           /\ request'[v].seen # "active"
                           /\ creator'[request'[v].on] # v \/ v \in Admins \/ request'[v].on \in Exempt
    BY DEF RequestsChecked, Target
  <2>1. v # u /\ request'[v] = request[v] /\ request[v].on \in Connectors
    BY <1>3 DEF RowsTyped
  <2> QED
    BY <2>1, <1>2, <1>5 DEF RequestsChecked, Target
<1>7. ActiveWasChecked'
  <2> SUFFICES ASSUME NEW d \in Connectors \ Exempt, status'[d] = "active"
               PROVE  activator'[d] # Nobody /\ (activator'[d] # creator'[d] \/ activator'[d] \in Admins)
    BY DEF ActiveWasChecked
  <2>1. CASE d = c /\ op = "active"
    BY <2>1, <1>1, <1>2 DEF RowsTyped
  <2>2. CASE d # c \/ op # "active"
    BY <2>2, <1>1, <1>2 DEF RowsTyped, ActiveWasChecked
  <2> QED
    BY <2>1, <2>2
<1> QED
  BY <1>4, <1>6, <1>7

(* A request to start or stop the optimizer concerns no connector.         *)
LEMMA OperationsKeep ==
  ASSUME CheckInv, NEW u \in Users, BeginStart(u) \/ BeginStop(u) \/ FinishOperations(u)
  PROVE  CheckInv'
<1>1. UNCHANGED connectorRows
  BY DEF BeginStart, BeginStop, FinishOperations
<1>2. /\ request' = [v \in Users |-> request'[v]]
      /\ request'[u].op \notin Writes
      /\ \A v \in Users \ {u} : request'[v] = request[v]
  BY DEF BeginStart, BeginStop, FinishOperations, Call, NoRequest, Writes, CheckInv, RowsTyped
<1> QED
  BY <1>1, <1>2 DEF CheckInv, RowsTyped, RequestsChecked, ActiveWasChecked, Target, connectorRows

LEMMA CheckInit == SourcesInit => CheckInv
BY DEF SourcesInit, CheckInv, RowsTyped, RequestsChecked, ActiveWasChecked, Statuses, Writes, NoRequest

LEMMA CheckStep == CheckInv /\ [SourcesNext]_sourcesVars => CheckInv'
<1> SUFFICES ASSUME CheckInv, [SourcesNext]_sourcesVars PROVE CheckInv'
  OBVIOUS
<1>1. CASE Operators
  BY <1>1, BeginKeeps, FinishKeeps, OperationsKeep DEF Operators
<1>2. CASE Ingesting
  <2>1. UNCHANGED <<connectorRows, request>>
    BY <1>2 DEF Ingesting, PollStart, PollEnd, CrashPoller, FetchUnchanged, FetchStale,
                FetchFails, FetchNew, PublishReadings, FinishIngest, CommitGate, IngestFails
  <2> QED
    BY <2>1, CheckKept
<1>3. CASE World
  <2>1. UNCHANGED <<connectorRows, request>>
    BY <1>3 DEF World, SourceGrows, RegisterAssets
  <2> QED
    BY <2>1, CheckKept
<1>4. CASE UNCHANGED sourcesVars
  BY <1>4, CheckKept DEF sourcesVars
<1> QED
  BY <1>1, <1>2, <1>3, <1>4 DEF SourcesNext

(* routers/connectors.py, activate_connector: whatever requests overlap,   *)
(* an active connector was activated by somebody else than its creator, or *)
(* by a platform administrator, unless it was created exempt from the rule.*)
THEOREM ActiveWasCheckedCorrect == SourcesSpec => []ActiveWasChecked
<1>1. CheckInv => ActiveWasChecked
  BY DEF CheckInv
<1> QED
  BY <1>1, CheckInit, CheckStep, PTL DEF SourcesSpec

-----------------------------------------------------------------------------
(* A source that holds something has a newest reading.                     *)
LEMMA LatestExists ==
  ASSUME NEW S \in SUBSET Times, S # {}
  PROVE  Latest(S) \in S /\ \A t \in S : t <= Latest(S)
<1> USE SourcesAssumption DEF Times
<1> DEFINE Below == {MaxStamp - t : t \in S}
<1>1. Below \subseteq Nat /\ Below # {}
  <2>1. \A t \in S : MaxStamp - t \in Nat
    OBVIOUS
  <2>2. PICK t \in S : TRUE
    OBVIOUS
  <2>3. MaxStamp - t \in Below
    OBVIOUS
  <2> QED
    BY <2>1, <2>3
<1>2. \E x \in Below : \A y \in Below : <<y, x>> \notin OpToRel(<, Nat)
  BY <1>1, NatLessThanWellFounded, WFMin
<1>3. \A x, y \in Nat : y < x => <<y, x>> \in OpToRel(<, Nat)
  BY DEF OpToRel
<1>4. PICK x \in Below : \A y \in Below : ~(y < x)
  BY <1>1, <1>2, <1>3
<1>5. PICK r \in S : x = MaxStamp - r
  OBVIOUS
<1>6. \A t \in S : t <= r
  <2> SUFFICES ASSUME NEW t \in S PROVE t <= r
    OBVIOUS
  <2>1. ~(MaxStamp - t < MaxStamp - r)
    BY <1>4, <1>5
  <2> QED
    BY <2>1
<1> QED
  BY <1>6 DEF Latest

(* Operators' requests leave the gates alone.                              *)
LEMMA GateKept ==
  ASSUME GateInv, UNCHANGED <<source, gates, ingest, queue, history>>
  PROVE  GateInv'
BY DEF GateInv, GateTyped, IngestTyped, IngestFollows, Taking, ByHandDisturbs, BelowMark,
       Level, Moving, GateFollowsData, PollerNoRepeat, gates, history

(* A source that grows, or a queue that moves on, changes no gate.         *)
LEMMA WorldKeeps ==
  ASSUME GateInv, source' \in [Connectors -> SUBSET Times], queue' \subseteq Connectors,
         UNCHANGED <<gates, ingest, history>>
  PROVE  GateInv'
BY DEF GateInv, GateTyped, IngestTyped, IngestFollows, Taking, ByHandDisturbs, BelowMark,
       Level, Moving, GateFollowsData, PollerNoRepeat, gates, history

(* Whoever may ingest has a connector and no other ingest under way.       *)
LEMMA MayIngestFacts ==
  ASSUME GateInv, NEW s \in Sessions, NEW c \in Connectors, Visit(s, c)
  PROVE  queue' \subseteq Connectors
BY DEF GateInv, GateTyped, Visit

(* Content without a newer reading is covered by the mark, and the mark is *)
(* a reading that was taken.                                               *)
LEMMA StaleKeeps ==
  ASSUME GateInv, NEW c \in Connectors, FetchStale(c)
  PROVE  GateInv'
<1> USE SourcesAssumption DEF GateInv
<1>1. /\ source[c] # {} /\ Kind[c] \in Marked /\ queue' \subseteq Connectors
      /\ \A t \in source[c] : ~(t > mark[c])
      /\ fingerprint' = [fingerprint EXCEPT ![c] = source[c]]
      /\ UNCHANGED <<source, mark, ingest, history>>
  BY MayIngestFacts DEF FetchStale, OnlyNew
<1>2. /\ source[c] \subseteq Times /\ mark[c] \in Nat
      /\ fingerprint' = [d \in Connectors |-> IF d = c THEN source[c] ELSE fingerprint[d]]
  BY <1>1 DEF GateTyped
<1>3. mark[c] # 0 /\ \A t \in source[c] : mark[c] >= t
  BY <1>1, <1>2 DEF Times
<1>4. mark[c] \in taken[c]
  BY <1>1, <1>3 DEF GateFollowsData
<1>5. GateFollowsData'
  BY <1>1, <1>2, <1>3, <1>4 DEF GateFollowsData, history
<1>6. GateTyped'
  BY <1>1, <1>2 DEF GateTyped, history
<1> QED
  BY <1>1, <1>5, <1>6 DEF IngestTyped, IngestFollows, Taking, ByHandDisturbs, BelowMark,
     Level, Moving, PollerNoRepeat, history

(* What a fetch has in hand: the newest reading of the source is among what*)
(* it will take, and for the poller all of that lies above the mark.       *)
LEMMA FetchedFacts ==
  ASSUME GateInv, NEW s \in Sessions, NEW c \in Connectors, NEW m,
         source[c] # {}, Kind[c] \in Marked /\ s = "poller" => OnlyNew(s, c) # {},
         m = IF Kind[c] \in Marked /\ Latest(source[c]) > mark[c]
             THEN Latest(source[c]) ELSE 0
  PROVE  /\ m \in Nat /\ Fresh(s, c) \subseteq source[c] /\ source[c] \subseteq Times
         /\ Kind[c] \in Marked =>
              /\ \E t \in Fresh(s, c) : \A u \in source[c] : u <= t
              /\ m # 0 => m \in Fresh(s, c)
              /\ s = "poller" =>
                   /\ m > mark[c]
                   /\ \A t \in Fresh(s, c) : mark[c] < t /\ t <= m
<1> DEFINE n == Latest(source[c])
<1>1. source[c] \in SUBSET Times /\ mark[c] \in Nat
  BY DEF GateInv, GateTyped
<1>2. n \in source[c] /\ \A t \in source[c] : t <= n
  BY <1>1, LatestExists
<1>3. \A t \in source[c] : t \in Nat
  BY <1>1, SourcesAssumption DEF Times
<1>4. m = IF Kind[c] \in Marked /\ n > mark[c] THEN n ELSE 0
  OBVIOUS
<1> HIDE DEF n
<1>5. m \in Nat /\ Fresh(s, c) \subseteq source[c]
  BY <1>2, <1>3, <1>4 DEF Fresh, OnlyNew
<1>6. ASSUME Kind[c] \in Marked, s = "poller"
      PROVE  /\ n \in Fresh(s, c) /\ m = n /\ n > mark[c]
             /\ \A t \in Fresh(s, c) : mark[c] < t /\ t <= n
  <2>1. Fresh(s, c) = {t \in source[c] : t > mark[c]}
    BY <1>6 DEF Fresh, OnlyNew
  <2>2. PICK t \in source[c] : t > mark[c]
    BY <2>1, <1>6 DEF Fresh
  <2>3. n > mark[c]
    BY <2>2, <1>1, <1>2, <1>3
  <2> QED
    BY <2>1, <2>3, <1>1, <1>2, <1>3, <1>4, <1>6
<1>7. ASSUME Kind[c] \in Marked, s # "poller"
      PROVE  n \in Fresh(s, c) /\ (m # 0 => m = n)
  BY <1>7, <1>2, <1>4 DEF Fresh, OnlyNew
<1> QED
  BY <1>1, <1>2, <1>5, <1>6, <1>7

(* An ingest that begins.                                                  *)
LEMMA FetchKeeps ==
  ASSUME GateInv, NEW s \in Sessions, NEW c \in Connectors, FetchNew(s, c)
  PROVE  GateInv'
<1> DEFINE m == IF Kind[c] \in Marked /\ Latest(source[c]) > mark[c]
                THEN Latest(source[c]) ELSE 0
           e == [pc |-> "fetched", on |-> c, content |-> source[c],
                 fresh |-> Fresh(s, c), mark |-> m]
<1>1. /\ source[c] # {} /\ (Kind[c] \in Marked /\ s = "poller" => OnlyNew(s, c) # {})
      /\ ingest[s] = NoIngest /\ Visit(s, c)
      /\ ingest' = [ingest EXCEPT ![s] = e]
      /\ disturbed' = IF s = "manual" THEN [disturbed EXCEPT ![c] = TRUE] ELSE disturbed
      /\ UNCHANGED <<source, gates, taken, repeats>>
  BY DEF FetchNew, MayIngest
<1>2. /\ m \in Nat /\ Fresh(s, c) \subseteq source[c] /\ source[c] \subseteq Times
      /\ Kind[c] \in Marked =>
           /\ \E t \in Fresh(s, c) : \A u \in source[c] : u <= t
           /\ m # 0 => m \in Fresh(s, c)
           /\ s = "poller" =>
                /\ m > mark[c]
                /\ \A t \in Fresh(s, c) : mark[c] < t /\ t <= m
  BY <1>1, FetchedFacts
<1> HIDE DEF m
<1>3. /\ e.pc = "fetched" /\ e.on = c /\ e.content = source[c]
      /\ e.fresh = Fresh(s, c) /\ e.mark = m /\ e \in InFlight /\ e # NoIngest
  BY <1>2 DEF InFlight, NoIngest
<1> HIDE DEF e
<1>4. /\ ingest' = [r \in Sessions |-> ingest'[r]] /\ ingest'[s] = e
      /\ \A r \in Sessions \ {s} : ingest'[r] = ingest[r]
  BY <1>1 DEF GateInv, IngestTyped
<1>5. GateTyped' /\ IngestTyped'
  BY <1>1, <1>3, <1>4, MayIngestFacts DEF GateInv, GateTyped, IngestTyped, gates
<1>6. IngestFollows'
  <2> SUFFICES ASSUME NEW r \in Sessions, ingest'[r] # NoIngest, Kind[ingest'[r].on] \in Marked
               PROVE  /\ Covered(ingest'[r].content, Taking(ingest[r])')
                      /\ ingest'[r].mark # 0 => ingest'[r].mark \in Taking(ingest[r])'
    BY DEF IngestFollows
  <2>1. Taking(ingest[r])' = Taking(ingest'[r])
    BY <1>1 DEF Taking
  <2>2. CASE r = s
    <3>1. Taking(e) = taken[c] \union Fresh(s, c)
      BY <1>3 DEF Taking
    <3>2. Kind[c] \in Marked
      BY <2>2, <1>3, <1>4
    <3>3. PICK t \in Fresh(s, c) : \A u \in source[c] : u <= t
      BY <1>2, <3>2
    <3>4. Covered(source[c], Taking(e))
      <4>1. \A u \in source[c] : u \in Nat
        BY <1>2, SourcesAssumption DEF Times
      <4>2. t \in Nat /\ t \in Taking(e)
        BY <1>2, <3>1, <4>1
      <4> QED
        BY <3>3, <4>1, <4>2 DEF Covered
    <3> QED
      BY <2>1, <2>2, <3>1, <3>2, <3>4, <1>2, <1>3, <1>4
  <2>3. CASE r # s
    BY <2>1, <2>3, <1>4 DEF GateInv, IngestFollows
  <2> QED
    BY <2>2, <2>3
<1>7. \A d \in Connectors : disturbed[d] => disturbed'[d]
  BY <1>1 DEF GateInv, GateTyped
<1>8. ByHandDisturbs'
  <2>1. s # "poller" => disturbed'[c]
    BY <1>1, SourcesAssumption DEF GateInv, GateTyped
  <2> QED
    BY <2>1, <1>3, <1>4, <1>7 DEF GateInv, ByHandDisturbs, IngestTyped, InFlight
<1>9. BelowMark'
  <2> SUFFICES ASSUME NEW d \in Connectors, Kind[d] \in Marked, ~disturbed'[d]
               PROVE  /\ \A t \in taken[d] : t <= Level(d)'
                      /\ ingest'["poller"] # NoIngest /\ ingest'["poller"].on = d =>
                           /\ ingest'["poller"].mark > mark[d]
                           /\ \A t \in ingest'["poller"].fresh :
                                mark[d] < t /\ t <= ingest'["poller"].mark
    BY <1>1 DEF BelowMark, gates
  <2>1. ~disturbed[d] /\ "poller" \in Sessions
    BY <1>7, SourcesAssumption
  <2>2. CASE s = "poller"
    <3>1. ingest'["poller"] = e /\ ~Moving(d) /\ ~Moving(d)'
      BY <2>2, <1>1, <1>3, <1>4 DEF Moving
    <3>2. Level(d)' = mark[d] /\ Level(d) = mark[d]
      BY <3>1, <1>1 DEF Level, gates
    <3> QED
      BY <2>1, <2>2, <3>1, <3>2, <1>2, <1>3 DEF GateInv, BelowMark
  <2>3. CASE s # "poller"
    <3>1. ingest'["poller"] = ingest["poller"]
      BY <2>1, <2>3, <1>4
    <3>2. Level(d)' = Level(d)
      BY <3>1, <1>1 DEF Level, Moving, gates
    <3> QED
      BY <2>1, <3>1, <3>2 DEF GateInv, BelowMark
  <2> QED
    BY <2>2, <2>3
<1>10. GateFollowsData' /\ PollerNoRepeat'
  BY <1>1, <1>7 DEF GateInv, GateFollowsData, PollerNoRepeat, gates
<1> QED
  BY <1>5, <1>6, <1>8, <1>9, <1>10 DEF GateInv

(* What an ingest that is under way stands for.                            *)
LEMMA InFlightFacts ==
  ASSUME GateInv, NEW s \in Sessions, ingest[s] # NoIngest
  PROVE  /\ ingest[s] \in InFlight /\ ingest[s].on \in Connectors
         /\ Kind[ingest[s].on] \in Marked =>
              /\ Covered(ingest[s].content, Taking(ingest[s]))
              /\ ingest[s].mark # 0 => ingest[s].mark \in Taking(ingest[s])
         /\ s # "poller" => disturbed[ingest[s].on]
BY DEF GateInv, IngestTyped, IngestFollows, ByHandDisturbs, InFlight

(* More taken covers as much.                                              *)
LEMMA CoveredMore ==
  ASSUME NEW S, NEW T, NEW U, T \subseteq U, Covered(S, T)
  PROVE  Covered(S, U)
BY DEF Covered

(* The readings of an ingest, or part of them, are published: what is      *)
(* taken grows, and while no gate is upset it is the poller that publishes,*)
(* above all that was taken.                                               *)
LEMMA TakeFacts ==
  ASSUME GateInv, NEW s \in Sessions, ingest[s] # NoIngest, ingest[s].pc = "fetched",
         NEW S \in SUBSET ingest[s].fresh, Take(s, ingest[s].on, S)
  PROVE  /\ taken' \in [Connectors -> SUBSET Times] /\ repeats' \in [Connectors -> SUBSET Times]
         /\ taken'[ingest[s].on] = taken[ingest[s].on] \union S
         /\ \A d \in Connectors : taken[d] \subseteq taken'[d]
         /\ \A d \in Connectors \ {ingest[s].on} : taken'[d] = taken[d] /\ repeats'[d] = repeats[d]
         /\ \A d \in Connectors : Kind[d] \in Marked /\ ~disturbed[d] => repeats'[d] = repeats[d]
<1> DEFINE i == ingest[s]
           c == i.on
<1>1. /\ i \in InFlight /\ c \in Connectors /\ i.fresh \subseteq Times
      /\ s # "poller" => disturbed[c]
  BY InFlightFacts DEF InFlight
<1>2. /\ taken' = [taken EXCEPT ![c] = taken[c] \union S]
      /\ repeats' = IF s = "poller"
                    THEN [repeats EXCEPT ![c] = repeats[c] \union (S \intersect taken[c])]
                    ELSE repeats
  BY DEF Take
<1>3. /\ taken \in [Connectors -> SUBSET Times] /\ repeats \in [Connectors -> SUBSET Times]
      /\ mark \in [Connectors -> Nat]
  BY DEF GateInv, GateTyped
<1>4. ASSUME Kind[c] \in Marked, ~disturbed[c]
      PROVE  S \intersect taken[c] = {}
  <2>1. s = "poller" /\ ~Moving(c) /\ c \in Connectors
    BY <1>1, <1>4 DEF Moving
  <2>2. /\ \A t \in taken[c] : t <= mark[c]
        /\ \A t \in i.fresh : mark[c] < t
    BY <2>1, <1>4 DEF GateInv, BelowMark, Level
  <2>3. mark[c] \in Nat /\ \A t \in taken[c] \union i.fresh : t \in Nat
    BY <1>1, <1>3, SourcesAssumption DEF Times
  <2> QED
    BY <2>2, <2>3
<1> HIDE DEF i, c
<1>5. /\ S \subseteq Times /\ c = ingest[s].on
  BY <1>1 DEF i, c
<1> QED
  BY <1>1, <1>2, <1>3, <1>4, <1>5

LEMMA PublishKeeps ==
  ASSUME GateInv, NEW s \in Sessions, PublishReadings(s)
  PROVE  GateInv'
<1> DEFINE i == ingest[s]
           c == i.on
           e == [i EXCEPT !.pc = "published"]
<1>1. /\ i # NoIngest /\ i.pc = "fetched" /\ Take(s, c, i.fresh)
      /\ ingest' = [ingest EXCEPT ![s] = e]
      /\ UNCHANGED <<source, gates, queue, disturbed>>
  BY DEF PublishReadings, NoIngest
<1>2. /\ i \in InFlight /\ c \in Connectors /\ (s # "poller" => disturbed[c])
      /\ Kind[c] \in Marked =>
           /\ Covered(i.content, Taking(i))
           /\ i.mark # 0 => i.mark \in Taking(i)
  BY <1>1, InFlightFacts
<1>3. /\ taken' \in [Connectors -> SUBSET Times] /\ repeats' \in [Connectors -> SUBSET Times]
      /\ taken'[c] = taken[c] \union i.fresh
      /\ \A d \in Connectors : taken[d] \subseteq taken'[d]
      /\ \A d \in Connectors \ {c} : taken'[d] = taken[d] /\ repeats'[d] = repeats[d]
      /\ \A d \in Connectors : Kind[d] \in Marked /\ ~disturbed[d] => repeats'[d] = repeats[d]
  BY <1>1, TakeFacts
<1>4. /\ e.pc = "published" /\ e.on = c /\ e.content = i.content /\ e.fresh = i.fresh
      /\ e.mark = i.mark /\ e \in InFlight /\ e # NoIngest
  BY <1>2 DEF InFlight, NoIngest
<1> HIDE DEF e
<1>5. /\ ingest' = [r \in Sessions |-> ingest'[r]] /\ ingest'[s] = e
      /\ \A r \in Sessions \ {s} : ingest'[r] = ingest[r]
  BY <1>1 DEF GateInv, IngestTyped
<1>6. GateTyped' /\ IngestTyped'
  BY <1>1, <1>3, <1>4, <1>5 DEF GateInv, GateTyped, IngestTyped, gates
<1>7. IngestFollows'
  <2> SUFFICES ASSUME NEW r \in Sessions, ingest'[r] # NoIngest, Kind[ingest'[r].on] \in Marked
               PROVE  /\ Covered(ingest'[r].content, Taking(ingest[r])')
                      /\ ingest'[r].mark # 0 => ingest'[r].mark \in Taking(ingest[r])'
    BY DEF IngestFollows
  <2>1. CASE r = s
    <3>1. Taking(ingest[r])' = Taking(i)
      BY <2>1, <1>1, <1>3, <1>4, <1>5 DEF Taking
    <3> QED
      BY <2>1, <3>1, <1>2, <1>4, <1>5
  <2>2. CASE r # s
    <3>1. ingest'[r] = ingest[r] /\ ingest[r] \in InFlight
      BY <2>2, <1>5 DEF GateInv, IngestTyped
    <3>2. Taking(ingest[r]) \subseteq Taking(ingest[r])'
      BY <3>1, <1>3 DEF Taking, InFlight
    <3> QED
      BY <3>1, <3>2, CoveredMore DEF GateInv, IngestFollows
  <2> QED
    BY <2>1, <2>2
<1>8. ByHandDisturbs'
  BY <1>1, <1>4, <1>5 DEF GateInv, ByHandDisturbs
<1>9. BelowMark'
  <2> SUFFICES ASSUME NEW d \in Connectors, Kind[d] \in Marked, ~disturbed[d]
               PROVE  /\ \A t \in taken'[d] : t <= Level(d)'
                      /\ ingest'["poller"] # NoIngest /\ ingest'["poller"].on = d =>
                           /\ ingest'["poller"].mark > mark[d]
                           /\ \A t \in ingest'["poller"].fresh :
                                mark[d] < t /\ t <= ingest'["poller"].mark
    BY <1>1 DEF BelowMark, gates
  <2>1. mark[d] \in Nat /\ \A t \in taken[d] : t \in Nat
    BY SourcesAssumption DEF GateInv, GateTyped, Times
  <2>2. CASE d = c
    <3>1. s = "poller"
      BY <2>2, <1>2
    <3>2. /\ ~Moving(d) /\ Level(d)' = i.mark /\ i.mark \in Nat
      BY <2>2, <3>1, <1>1, <1>2, <1>4, <1>5 DEF Moving, Level, InFlight
    <3>3. /\ \A t \in taken[d] : t <= mark[d]
          /\ i.mark > mark[d]
          /\ \A t \in i.fresh : mark[d] < t /\ t <= i.mark
      BY <2>2, <3>1, <3>2, <1>1 DEF GateInv, BelowMark, Level
    <3>4. \A t \in taken'[d] : t <= i.mark
      BY <2>1, <2>2, <3>2, <3>3, <1>3
    <3> QED
      BY <3>1, <3>2, <3>3, <3>4, <1>4, <1>5
  <2>3. CASE d # c
    <3>1. taken'[d] = taken[d]
      BY <2>3, <1>3
    <3>2. CASE s = "poller"
      <4>1. ~Moving(d) /\ ~Moving(d)'
        BY <2>3, <3>2, <1>4, <1>5 DEF Moving
      <4> QED
        BY <2>3, <3>1, <3>2, <4>1, <1>1, <1>4, <1>5 DEF GateInv, BelowMark, Level, gates
    <3>3. CASE s # "poller"
      <4>1. ingest'["poller"] = ingest["poller"]
        BY <3>3, <1>5, SourcesAssumption
      <4>2. Level(d)' = Level(d)
        BY <4>1, <1>1 DEF Level, Moving, gates
      <4> QED
        BY <3>1, <4>1, <4>2 DEF GateInv, BelowMark
    <3> QED
      BY <3>2, <3>3
  <2> QED
    BY <2>2, <2>3
<1>10. GateFollowsData' /\ PollerNoRepeat'
  BY <1>1, <1>3 DEF GateInv, GateFollowsData, PollerNoRepeat, gates
<1> QED
  BY <1>6, <1>7, <1>8, <1>9, <1>10 DEF GateInv

(* The commit of the database changes nothing for the gate.                *)
LEMMA FinishIngestKeeps ==
  ASSUME GateInv, NEW s \in Sessions, FinishIngest(s)
  PROVE  GateInv'
<1> DEFINE i == ingest[s]
           e == [i EXCEPT !.pc = "committed"]
<1>1. /\ i # NoIngest /\ i.pc = "published"
      /\ ingest' = [ingest EXCEPT ![s] = e]
      /\ UNCHANGED <<source, gates, queue, history>>
  BY DEF FinishIngest, NoIngest
<1>2. i \in InFlight
  BY <1>1, InFlightFacts
<1>3. /\ e.pc = "committed" /\ e.on = i.on /\ e.content = i.content /\ e.fresh = i.fresh
      /\ e.mark = i.mark /\ e \in InFlight /\ e # NoIngest
  BY <1>2 DEF InFlight, NoIngest
<1> HIDE DEF e
<1>4. /\ ingest' = [r \in Sessions |-> ingest'[r]] /\ ingest'[s] = e
      /\ \A r \in Sessions \ {s} : ingest'[r] = ingest[r]
  BY <1>1 DEF GateInv, IngestTyped
<1>5. \A r \in Sessions :
        /\ (ingest'[r] # NoIngest) = (ingest[r] # NoIngest)
        /\ ingest'[r] = ingest[r] \/ (r = s /\ ingest'[r] = e)
        /\ Taking(ingest[r])' = Taking(ingest[r])
  BY <1>1, <1>3, <1>4 DEF Taking, history
<1>6. GateTyped' /\ IngestTyped'
  BY <1>1, <1>3, <1>4 DEF GateInv, GateTyped, IngestTyped, gates, history
<1>7. IngestFollows' /\ ByHandDisturbs'
  BY <1>1, <1>3, <1>5 DEF GateInv, IngestFollows, ByHandDisturbs, history
<1>8. BelowMark'
  <2>1. "poller" \in Sessions
    BY SourcesAssumption
  <2>2. \A c \in Connectors : Level(c)' = Level(c)
    BY <2>1, <1>1, <1>3, <1>5 DEF Level, Moving, gates
  <2> QED
    BY <2>1, <2>2, <1>1, <1>3, <1>5 DEF GateInv, BelowMark, gates, history
<1> QED
  BY <1>1, <1>6, <1>7, <1>8 DEF GateInv, GateFollowsData, PollerNoRepeat, gates, history

(* An ingest moves its gate: to content and a mark that it has taken.      *)
LEMMA CommitGateKeeps ==
  ASSUME GateInv, NEW s \in Sessions, CommitGate(s)
  PROVE  GateInv'
<1> DEFINE i == ingest[s]
           c == i.on
<1>1. /\ i # NoIngest /\ i.pc = "committed"
      /\ fingerprint' = [fingerprint EXCEPT ![c] = i.content]
      /\ mark' = IF i.mark = 0 THEN mark ELSE [mark EXCEPT ![c] = i.mark]
      /\ ingest' = [ingest EXCEPT ![s] = NoIngest]
      /\ UNCHANGED <<source, queue, history>>
  BY DEF CommitGate, NoIngest
<1>2. /\ i \in InFlight /\ c \in Connectors /\ (s # "poller" => disturbed[c])
      /\ Taking(i) = taken[c]
      /\ Kind[c] \in Marked =>
           /\ Covered(i.content, taken[c])
           /\ i.mark # 0 => i.mark \in taken[c]
  BY <1>1, InFlightFacts DEF Taking
<1>3. i.mark \in Nat
  BY <1>2 DEF InFlight
<1>4. /\ ingest' = [r \in Sessions |-> ingest'[r]] /\ ingest'[s] = NoIngest
      /\ \A r \in Sessions \ {s} : ingest'[r] = ingest[r]
  BY <1>1 DEF GateInv, IngestTyped
<1>5. /\ mark' \in [Connectors -> Nat] /\ mark'[c] = IF i.mark = 0 THEN mark[c] ELSE i.mark
      /\ \A d \in Connectors \ {c} : mark'[d] = mark[d] /\ fingerprint'[d] = fingerprint[d]
      /\ fingerprint'[c] = i.content /\ fingerprint' = [d \in Connectors |-> fingerprint'[d]]
  BY <1>1, <1>2, <1>3 DEF GateInv, GateTyped
<1> HIDE DEF c, i
<1>6. GateTyped' /\ IngestTyped'
  BY <1>1, <1>4, <1>5 DEF GateInv, GateTyped, IngestTyped, history
<1>7. IngestFollows' /\ ByHandDisturbs'
  <2>1. \A r \in Sessions : Taking(ingest[r])' = IF r = s THEN Taking(NoIngest)' ELSE Taking(ingest[r])
    BY <1>1, <1>4 DEF Taking, history
  <2> QED
    BY <2>1, <1>1, <1>4 DEF GateInv, IngestFollows, ByHandDisturbs, history
<1>8. BelowMark'
  <2> SUFFICES ASSUME NEW d \in Connectors, Kind[d] \in Marked, ~disturbed[d]
               PROVE  /\ \A t \in taken[d] : t <= Level(d)'
                      /\ ingest'["poller"] # NoIngest /\ ingest'["poller"].on = d =>
                           /\ ingest'["poller"].mark > mark'[d]
                           /\ \A t \in ingest'["poller"].fresh :
                                mark'[d] < t /\ t <= ingest'["poller"].mark
    BY <1>1 DEF BelowMark, history
  <2>1. "poller" \in Sessions
    BY SourcesAssumption
  <2>2. CASE s = "poller"
    <3>1. ingest'["poller"] = NoIngest /\ Level(d)' = mark'[d]
      BY <2>2, <1>4 DEF Level, Moving
    <3>2. CASE d = c
      <4>1. Level(d) = i.mark /\ i.mark > mark[d]
        BY <2>2, <3>2, <1>1 DEF Level, Moving, GateInv, BelowMark, i, c
      <4>2. i.mark # 0
        BY <4>1, <1>3 DEF GateInv, GateTyped
      <4> QED
        BY <3>1, <3>2, <4>1, <4>2, <1>5 DEF GateInv, BelowMark
    <3>3. CASE d # c
      <4>1. Level(d) = mark[d]
        BY <2>2, <3>3 DEF Level, Moving, i, c
      <4> QED
        BY <3>1, <3>3, <4>1, <1>5 DEF GateInv, BelowMark
    <3> QED
      BY <3>2, <3>3
  <2>3. CASE s # "poller"
    <3>1. d # c /\ ingest'["poller"] = ingest["poller"]
      BY <2>1, <2>3, <1>2, <1>4
    <3>2. mark'[d] = mark[d] /\ Level(d)' = Level(d)
      BY <3>1, <1>5 DEF Level, Moving
    <3> QED
      BY <3>1, <3>2 DEF GateInv, BelowMark
  <2> QED
    BY <2>2, <2>3
<1>9. GateFollowsData'
  <2> SUFFICES ASSUME NEW d \in Connectors, Kind[d] \in Marked
               PROVE  /\ mark'[d] # 0 => mark'[d] \in taken[d]
                      /\ fingerprint'[d] # NoDigest =>
                           \A t \in fingerprint'[d] : \E u \in taken[d] : u >= t
    BY <1>1 DEF GateFollowsData, history
  <2>1. CASE d = c
    BY <2>1, <1>2, <1>5 DEF GateInv, GateFollowsData, Covered
  <2>2. CASE d # c
    BY <2>2, <1>5 DEF GateInv, GateFollowsData
  <2> QED
    BY <2>1, <2>2
<1> QED
  BY <1>1, <1>6, <1>7, <1>8, <1>9 DEF GateInv, PollerNoRepeat, history

(* A failure leaves part of what was fetched behind, and upsets the gate.  *)
LEMMA IngestFailsKeeps ==
  ASSUME GateInv, NEW s \in Sessions, IngestFails(s)
  PROVE  GateInv'
<1> DEFINE i == ingest[s]
           c == i.on
<1>1. /\ i # NoIngest
      /\ ingest' = [ingest EXCEPT ![s] = NoIngest]
      /\ disturbed' = [disturbed EXCEPT ![c] = TRUE]
      /\ UNCHANGED <<source, gates, queue>>
  BY DEF IngestFails
<1>2. PICK part \in SUBSET (IF i.pc = "fetched" THEN i.fresh ELSE {}) : Take(s, c, part)
  BY DEF IngestFails
<1>3. i \in InFlight /\ c \in Connectors
  BY <1>1, InFlightFacts
<1>4. /\ taken' \in [Connectors -> SUBSET Times] /\ repeats' \in [Connectors -> SUBSET Times]
      /\ \A d \in Connectors : taken[d] \subseteq taken'[d]
      /\ \A d \in Connectors \ {c} : taken'[d] = taken[d] /\ repeats'[d] = repeats[d]
  <2>1. CASE i.pc = "fetched"
    BY <2>1, <1>1, <1>2, TakeFacts
  <2>2. CASE i.pc # "fetched"
    <3>1. part = {}
      BY <2>2, <1>2
    <3> QED
      BY <3>1, <1>2, <1>3 DEF Take, GateInv, GateTyped
  <2> QED
    BY <2>1, <2>2
<1>5. /\ ingest' = [r \in Sessions |-> ingest'[r]] /\ ingest'[s] = NoIngest
      /\ \A r \in Sessions \ {s} : ingest'[r] = ingest[r]
  BY <1>1 DEF GateInv, IngestTyped
<1>6. /\ disturbed' \in [Connectors -> BOOLEAN] /\ disturbed'[c]
      /\ \A d \in Connectors : disturbed[d] => disturbed'[d]
  BY <1>1, <1>3 DEF GateInv, GateTyped
<1> HIDE DEF i, c
<1>7. GateTyped' /\ IngestTyped'
  BY <1>1, <1>4, <1>5, <1>6 DEF GateInv, GateTyped, IngestTyped, gates
<1>8. IngestFollows'
  <2> SUFFICES ASSUME NEW r \in Sessions, ingest'[r] # NoIngest, Kind[ingest'[r].on] \in Marked
               PROVE  /\ Covered(ingest'[r].content, Taking(ingest[r])')
                      /\ ingest'[r].mark # 0 => ingest'[r].mark \in Taking(ingest[r])'
    BY DEF IngestFollows
  <2>1. ingest'[r] = ingest[r] /\ ingest[r] \in InFlight
    BY <1>5 DEF GateInv, IngestTyped
  <2>2. Taking(ingest[r]) \subseteq Taking(ingest[r])'
    BY <2>1, <1>4 DEF Taking, InFlight
  <2> QED
    BY <2>1, <2>2, CoveredMore DEF GateInv, IngestFollows
<1>9. ByHandDisturbs'
  BY <1>5, <1>6, InFlightFacts DEF GateInv, ByHandDisturbs
<1>10. BelowMark'
  <2> SUFFICES ASSUME NEW d \in Connectors, Kind[d] \in Marked, ~disturbed'[d]
               PROVE  /\ \A t \in taken'[d] : t <= Level(d)'
                      /\ ingest'["poller"] # NoIngest /\ ingest'["poller"].on = d =>
                           /\ ingest'["poller"].mark > mark[d]
                           /\ \A t \in ingest'["poller"].fresh :
                                mark[d] < t /\ t <= ingest'["poller"].mark
    BY <1>1 DEF BelowMark, gates
  <2>1. d # c /\ ~disturbed[d] /\ taken'[d] = taken[d]
    BY <1>4, <1>6
  <2>2. ingest'["poller"] = ingest["poller"] \/ (ingest'["poller"] = NoIngest /\ ~Moving(d))
    BY <2>1, <1>5, SourcesAssumption DEF Moving, i, c
  <2>3. Level(d)' = Level(d)
    BY <2>2, <1>1 DEF Level, Moving, gates
  <2> QED
    BY <2>1, <2>2, <2>3 DEF GateInv, BelowMark
<1>11. GateFollowsData' /\ PollerNoRepeat'
  BY <1>1, <1>4, <1>6 DEF GateInv, GateFollowsData, PollerNoRepeat, gates
<1> QED
  BY <1>7, <1>8, <1>9, <1>10, <1>11 DEF GateInv

LEMMA GateInit == SourcesInit => GateInv
<1> SUFFICES ASSUME SourcesInit PROVE GateInv
  OBVIOUS
<1> USE SourcesAssumption DEF SourcesInit
<1>1. GateTyped /\ IngestTyped
  BY DEF GateTyped, IngestTyped, NoIngest
<1>2. IngestFollows /\ ByHandDisturbs /\ BelowMark
  BY DEF IngestFollows, ByHandDisturbs, BelowMark
<1> QED
  BY <1>1, <1>2 DEF GateInv, GateFollowsData, PollerNoRepeat

LEMMA GateStep == GateInv /\ [SourcesNext]_sourcesVars => GateInv'
<1> SUFFICES ASSUME GateInv, [SourcesNext]_sourcesVars PROVE GateInv'
  OBVIOUS
<1>1. CASE Operators
  <2>1. UNCHANGED <<source, gates, ingest, queue, history>>
    BY <1>1 DEF Operators, CreateConnector, BeginTest, BeginDisable, BeginActivate,
                FinishConnector, BeginStart, BeginStop, FinishOperations, poller
  <2> QED
    BY <2>1, GateKept
<1>2. CASE Ingesting
  <2>1. CASE PollStart \/ PollEnd \/ CrashPoller
    <3>1. source' \in [Connectors -> SUBSET Times] /\ queue' \subseteq Connectors
      BY <2>1 DEF PollStart, PollEnd, CrashPoller, GateInv, GateTyped
    <3>2. UNCHANGED <<gates, ingest, history>>
      BY <2>1 DEF PollStart, PollEnd, CrashPoller
    <3> QED
      BY <3>1, <3>2, WorldKeeps
  <2>2. ASSUME NEW c \in Connectors, FetchUnchanged(c) \/ FetchFails(c)
        PROVE  GateInv'
    <3>1. source' \in [Connectors -> SUBSET Times] /\ queue' \subseteq Connectors
      BY <2>2 DEF FetchUnchanged, FetchFails, Visit, GateInv, GateTyped
    <3>2. UNCHANGED <<gates, ingest, history>>
      BY <2>2 DEF FetchUnchanged, FetchFails
    <3> QED
      BY <3>1, <3>2, WorldKeeps
  <2> QED
    BY <1>2, <2>1, <2>2, StaleKeeps, FetchKeeps, PublishKeeps, FinishIngestKeeps,
       CommitGateKeeps, IngestFailsKeeps DEF Ingesting
<1>3. CASE World
  <2>1. source' \in [Connectors -> SUBSET Times] /\ queue' \subseteq Connectors
    BY <1>3 DEF World, SourceGrows, RegisterAssets, poller, GateInv, GateTyped
  <2>2. UNCHANGED <<gates, ingest, history>>
    BY <1>3 DEF World, SourceGrows, RegisterAssets, poller
  <2> QED
    BY <2>1, <2>2, WorldKeeps
<1>4. CASE UNCHANGED sourcesVars
  BY <1>4, GateKept DEF sourcesVars, poller
<1> QED
  BY <1>1, <1>2, <1>3, <1>4 DEF SourcesNext

LEMMA GateInvCorrect == SourcesSpec => []GateInv
BY GateInit, GateStep, PTL DEF SourcesSpec

(* ingestion/connector_poller.py, _ContentGate: whatever fails or overlaps,*)
(* content that the poller will skip has been ingested, but for readings   *)
(* older than one that was.                                                *)
THEOREM GateFollowsDataCorrect == SourcesSpec => []GateFollowsData
<1>1. GateInv => GateFollowsData
  BY DEF GateInv
<1> QED
  BY <1>1, GateInvCorrect, PTL

(* ingestion/connector_poller.py: where no ingest failed half way and no   *)
(* operator ingested by hand, the poller takes no reading twice, whatever  *)
(* grows and in whatever order its passes find it.                         *)
THEOREM PollerNoRepeatCorrect == SourcesSpec => []PollerNoRepeat
<1>1. GateInv => PollerNoRepeat
  BY DEF GateInv
<1> QED
  BY <1>1, GateInvCorrect, PTL
===============================================================================
