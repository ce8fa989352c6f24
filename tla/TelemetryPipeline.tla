---------------------------- MODULE TelemetryPipeline ----------------------------
(***************************************************************************)
(* The road of a reading from the Redis stream reo.telemetry to the        *)
(* database: EventBus (reo_common/events.py) and the consumer thread of    *)
(* the api (ingestion/telemetry_consumer.py).                              *)
(*                                                                         *)
(* An entry of the stream is named by its position.  The consumer group    *)
(* keeps the last entry it handed out and the entries not acknowledged     *)
(* yet (pel).  The consumer acknowledges each entry on its own, while the  *)
(* rows of a batch are committed together at its end: everything that can  *)
(* go wrong lies between the two.                                          *)
(*                                                                         *)
(* Abstractions: a reading is a key (tenant, asset, metric, event time),   *)
(* a value and what becomes of it when handled; a quarantined payload that *)
(* the object store refuses is logged instead, and counts as quarantined;  *)
(* a crash between the handling of an entry and its acknowledgement is the *)
(* crash before its handling, as the row it wrote is rolled back.          *)
(***************************************************************************)
EXTENDS Integers, Sequences, FiniteSets

CONSTANTS Feed,        \* the readings that producers may publish
          Cap,         \* STREAM_MAXLEN: entries the stream keeps
          BatchSize,   \* the count of xreadgroup
          MaxEntries,  \* bound: entries ever published
          MaxFaults    \* bound: crashes, lost connections and failed calls

(* "good" is stored; "malformed" fails _validate; "unknown" names no       *)
(* asset of the tenant; "rejected" makes the insert raise.                 *)
Fates == {"good", "malformed", "unknown", "rejected"}

ASSUME PipelineAssumption ==
  /\ Feed \subseteq [key : STRING, value : Int, fate : Fates]
  /\ Cap \in Nat \ {0} /\ BatchSize \in Nat \ {0}
  /\ MaxEntries \in Nat /\ MaxFaults \in Nat

VARIABLES stream,      \* the readings published, in order
          first,       \* the oldest entry the stream still holds
          delivered,   \* last-delivered-id of the group
          pel,         \* entries handed out and not acknowledged
          pc,          \* what the consumer thread does
          todo,        \* entries of the batch in hand not handled yet
          tx,          \* rows of the open transaction
          doomed,      \* the transaction's connection is gone
          table,       \* committed rows of the telemetry table
          quarantined, \* entries in the quarantine zone
          failed,      \* pel entries a failure left behind since the start
          faults,
          waiter       \* the poller inside wait_until_processed

group == <<stream, first, delivered, pel>>
session == <<todo, tx, doomed>>
vars == <<group, pc, session, table, quarantined, failed, faults, waiter>>

NoRows == <<>>
Entries == 1..Len(stream)
Least(S) == CHOOSE e \in S : \A d \in S : e <= d
Oldest(S) == {e \in S : Cardinality({d \in S : d < e}) < BatchSize}

Init ==
  /\ stream = <<>> /\ first = 1 /\ delivered = 0 /\ pel = {}
  /\ pc = "down" /\ todo = {} /\ tx = NoRows /\ doomed = FALSE
  /\ table = NoRows /\ quarantined = {} /\ failed = {} /\ faults = 0
  /\ waiter = [state |-> "none", target |-> 0]

Fault == faults < MaxFaults /\ faults' = faults + 1

-----------------------------------------------------------------------------
(* EventBus.publish: xadd, trimming what exceeds the cap, approximately.   *)
Publish(r) ==
  /\ Len(stream) < MaxEntries
  /\ stream' = Append(stream, r)
  /\ first' \in first..(IF Len(stream) + 2 - Cap > first
                        THEN Len(stream) + 2 - Cap ELSE first)
  /\ UNCHANGED <<delivered, pel, pc, session, table, quarantined, failed, faults, waiter>>

(* EventBus.consume: xreadgroup with ">".                                  *)
Unread == {e \in Entries : e > delivered /\ e >= first}

HandOut(batch) ==
  /\ batch # {}
  /\ pel' = pel \union batch
  /\ delivered' = CHOOSE e \in batch : \A d \in batch : d <= e
  /\ UNCHANGED <<stream, first>>

ReadNew ==
  /\ pc = "idle"
  /\ HandOut(Oldest(Unread))
  /\ todo' = Oldest(Unread)
  /\ pc' = "new_batch"
  /\ UNCHANGED <<tx, doomed, table, quarantined, failed, faults, waiter>>

(* The reply of xreadgroup is lost: the group has handed the batch out.    *)
ReadNewLost ==
  /\ pc = "idle"
  /\ Fault
  /\ HandOut(Oldest(Unread))
  /\ failed' = pel'
  /\ UNCHANGED <<pc, session, table, quarantined, waiter>>

(* _recover_pending: xreadgroup with "0" reads this consumer's own         *)
(* unacknowledged entries again, until there are none.                     *)
RecoverNext ==
  /\ pc = "recovering"
  /\ LET batch == Oldest(pel) IN
       /\ pel' = pel \ {e \in batch : e < first}
       /\ todo' = {e \in batch : e >= first}
       /\ pc' = IF batch = {} THEN "idle"
                ELSE IF todo' = {} THEN "recovering" ELSE "recovery_batch"
  /\ UNCHANGED <<stream, first, delivered, tx, doomed, table, quarantined, failed, faults, waiter>>

RecoveryFails ==
  /\ pc = "recovering"
  /\ Fault
  /\ pc' = "idle"
  /\ failed' = pel
  /\ UNCHANGED <<group, session, table, quarantined, waiter>>

-----------------------------------------------------------------------------
(* _process_events, one entry at a time, oldest first.                     *)
Busy == pc \in {"new_batch", "recovery_batch"}

Ack(e) == pel' = pel \ {e} /\ UNCHANGED <<stream, first, delivered>>

(* The rows of old, with new put on top.                                   *)
Over(new, old) ==
  [k \in DOMAIN new \union DOMAIN old |-> IF k \in DOMAIN new THEN new[k] ELSE old[k]]

(* on_conflict_do_nothing: a row that exists stays as it is.               *)
Insert(r) ==
  tx' = IF r.key \in DOMAIN table \union DOMAIN tx
        THEN tx ELSE Over(tx, [k \in {r.key} |-> r.value])

Persist ==
  /\ Busy /\ todo # {} /\ ~doomed
  /\ LET e == Least(todo) IN
       /\ stream[e].fate = "good"
       /\ Insert(stream[e])
       /\ Ack(e)
       /\ todo' = todo \ {e}
  /\ UNCHANGED <<pc, doomed, table, quarantined, failed, faults, waiter>>

(* Mutant: what is not stored is only acknowledged.                        *)
AckOnly ==
  /\ Busy /\ todo # {}
  /\ LET e == Least(todo) IN
       /\ doomed \/ stream[e].fate # "good"
       /\ Ack(e)
       /\ todo' = todo \ {e}
  /\ UNCHANGED <<pc, tx, doomed, table, quarantined, failed, faults, waiter>>

(* A reading that is invalid, or whose insert raises, which on a lost      *)
(* connection every insert does.                                           *)
Quarantine ==
  /\ Busy /\ todo # {}
  /\ LET e == Least(todo) IN
       /\ doomed \/ stream[e].fate # "good"
       /\ quarantined' = quarantined \union {e}
       /\ Ack(e)
       /\ todo' = todo \ {e}
  /\ UNCHANGED <<pc, tx, doomed, table, failed, faults, waiter>>

(* Mutant: recovery ends with its first batch.                             *)
CommitThenNew ==
  /\ Busy /\ todo = {} /\ ~doomed
  /\ table' = Over(tx, table)
  /\ tx' = NoRows
  /\ pc' = "idle"
  /\ UNCHANGED <<group, todo, doomed, quarantined, failed, faults, waiter>>

CommitBatch ==
  /\ Busy /\ todo = {} /\ ~doomed
  /\ table' = Over(tx, table)
  /\ tx' = NoRows
  /\ pc' = IF pc = "new_batch" THEN "idle" ELSE "recovering"
  /\ UNCHANGED <<group, todo, doomed, quarantined, failed, faults, waiter>>

(* The connection goes: the server rolls the transaction back, the batch   *)
(* is worked through to its end all the same.                              *)
ConnectionLost ==
  /\ Busy /\ ~doomed
  /\ Fault
  /\ doomed' = TRUE /\ tx' = NoRows
  /\ UNCHANGED <<group, pc, todo, table, quarantined, failed, waiter>>

(* An exception leaves _process_events: the rows are rolled back, and what *)
(* was not acknowledged stays with the group; the loop reads new entries.  *)
Fail ==
  /\ tx' = NoRows /\ todo' = {} /\ doomed' = FALSE
  /\ failed' = pel
  /\ pc' = "idle"
  /\ UNCHANGED <<group, table, waiter>>

CommitFails ==
  /\ Busy /\ todo = {}
  /\ IF doomed THEN UNCHANGED faults ELSE Fault
  /\ Fail
  /\ UNCHANGED quarantined

AckFails ==
  /\ Busy /\ todo # {}
  /\ Fault
  /\ Fail
  /\ LET e == Least(todo) IN
       quarantined' = IF doomed \/ stream[e].fate # "good"
                      THEN quarantined \union {e} ELSE quarantined

(* The api process ends; a dead thread ends with it at the next restart.   *)
Crash ==
  /\ pc # "down"
  /\ IF pc = "dead" THEN UNCHANGED faults ELSE Fault
  /\ pc' = "down"
  /\ tx' = NoRows /\ todo' = {} /\ doomed' = FALSE
  /\ failed' = {}
  /\ UNCHANGED <<group, table, quarantined, waiter>>

(* run_forever up to its first try: the group is created or there already. *)
Restart ==
  /\ pc = "down" /\ pc' = "recovering"
  /\ UNCHANGED <<group, session, table, quarantined, failed, faults, waiter>>

(* ensure_group raises outside every try: the thread ends, the api stays   *)
(* up, and nothing starts the thread again but a restart of the api.       *)
EnsureGroupFails ==
  /\ pc = "down"
  /\ Fault
  /\ pc' = "dead"
  /\ UNCHANGED <<group, session, table, quarantined, failed, waiter>>

-----------------------------------------------------------------------------
(* wait_until_processed, as the connector poller calls it.                 *)
StartWait ==
  /\ waiter.state # "waiting" /\ stream # <<>>
  /\ waiter' = [state |-> "waiting", target |-> Len(stream)]
  /\ UNCHANGED <<group, pc, session, table, quarantined, failed, faults>>

(* Mutant: what is delivered counts as processed.                          *)
WaitDelivered ==
  /\ waiter.state = "waiting"
  /\ delivered >= waiter.target
  /\ waiter' = [waiter EXCEPT !.state = "processed"]
  /\ UNCHANGED <<group, pc, session, table, quarantined, failed, faults>>

WaitDone ==
  /\ waiter.state = "waiting"
  /\ delivered >= waiter.target
  /\ \A e \in pel : e > waiter.target
  /\ waiter' = [waiter EXCEPT !.state = "processed"]
  /\ UNCHANGED <<group, pc, session, table, quarantined, failed, faults>>

WaitTimeout ==
  /\ waiter.state = "waiting"
  /\ waiter' = [waiter EXCEPT !.state = "timeout"]
  /\ UNCHANGED <<group, pc, session, table, quarantined, failed, faults>>

Consumer == ReadNew \/ RecoverNext \/ Persist \/ Quarantine \/ CommitBatch \/ Restart
Trouble ==
  \/ ReadNewLost \/ RecoveryFails \/ ConnectionLost
  \/ CommitFails \/ AckFails \/ Crash \/ EnsureGroupFails

Next ==
  \/ \E r \in Feed : Publish(r)
  \/ Consumer
  \/ Trouble
  \/ StartWait \/ WaitDone \/ WaitTimeout

Spec == Init /\ [][Next]_vars
(* A stopped api is started again (restart: unless-stopped), the consumer  *)
(* thread runs as long as it lives, and a doomed batch ends; nothing makes *)
(* anyone restart an api whose consumer thread alone has died.  The        *)
(* poller's wait is bounded by its deadline.                               *)
FairSpec ==
  Spec /\ WF_vars(Consumer \/ CommitFails) /\ WF_vars(WaitDone \/ WaitTimeout)

-----------------------------------------------------------------------------
Stored(e) == stream[e].key \in DOMAIN table
Lost == {e \in 1..delivered :
           /\ e >= first /\ e \notin pel /\ e \notin quarantined
           /\ stream[e].key \notin DOMAIN table \union DOMAIN tx}

(* telemetry_consumer.py acknowledges before it commits, so a fault can    *)
(* lose readings; it can never lose more than the batch it hit, and        *)
(* nothing that fails validation is silently dropped: without a fault      *)
(* every entry is stored, quarantined or still unacknowledged.             *)
LossBounded == Cardinality(Lost) <= faults * BatchSize

(* Every entry is stored, quarantined, trimmed, lost to a fault or left    *)
(* with the group by a failed batch, as long as the thread lives: one that *)
(* died at its start, when Redis did not answer, takes nothing until the   *)
(* api is restarted, and then must settle all that came meanwhile.         *)
Settled(e) ==
  \/ e < first \/ e \in quarantined \union failed \union Lost \/ Stored(e)
EveryEntrySettles ==
  \A e \in 1..MaxEntries : (Len(stream) >= e) ~> ((Len(stream) >= e /\ Settled(e)) \/ pc = "dead")

(* What wait_until_processed guarantees to a decision cycle: every entry   *)
(* up to the target is settled, or is a row of the transaction that the    *)
(* consumer has still to commit.  (It says less than that the readings     *)
(* just ingested are in the database.)                                     *)
ProcessedMeansSettled ==
  waiter.state = "processed" =>
    \A e \in 1..waiter.target : Settled(e) \/ stream[e].key \in DOMAIN tx

(* The log of a failed batch says it "will be redelivered to the consumer  *)
(* group": once the loop is back, no entry was acknowledged and lost.      *)
FailedBatchRedelivered == pc = "idle" => Lost = {}
=============================================================================
