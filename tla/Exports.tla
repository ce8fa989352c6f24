------------------------------- MODULE Exports -------------------------------
(***************************************************************************)
(* Evidence exports: routers/exports.py asks for a workbook,               *)
(* output/export-worker/worker.py builds it.                               *)
(*                                                                         *)
(* The job is committed, then published.  The worker takes a batch from    *)
(* the stream and works through it; it asks for new entries only.  The     *)
(* workbook is put into the object store before the job is marked complete.*)
(*                                                                         *)
(* Abstractions: a workbook is the version of the ledger it was built      *)
(* from, and so is its checksum; a job asks for a workbook once.           *)
(***************************************************************************)
EXTENDS Integers, Sequences

CONSTANTS Jobs, missing,
          ExportBatch,  \* entries handed out at once
          MaxVersions,  \* bound: changes of the ledger
          MaxMishaps    \* bound: errors of Redis, store or database, and crashes

ASSUME ExportAssumption == ExportBatch \in Nat \ {0} /\ missing \notin Nat

VARIABLES status,       \* ExportJob.status, "none" before it is asked for
          checksum,     \* ExportJob.checksum_sha256
          stored,       \* the bucket: what lies under the key of a job
          unsent,       \* jobs that are committed and not yet published
          queue,        \* the stream, what the group was not handed yet
          hand,         \* the batch of the worker; its first is in work
          step,         \* where process_export stands
          built,        \* the workbook in memory
          ledger,       \* version of the decisions, signals and approvals
          stranded,     \* history: jobs an error or a crash took from the worker
          mishaps

exportVars == <<status, checksum, stored, unsent, queue, hand, step, built, ledger,
                stranded, mishaps>>

ExportInit ==
  /\ status = [j \in Jobs |-> "none"] /\ checksum = [j \in Jobs |-> missing]
  /\ stored = [j \in Jobs |-> missing] /\ unsent = {} /\ queue = <<>> /\ hand = <<>>
  /\ step = "loop" /\ built = missing /\ ledger = 0 /\ stranded = {} /\ mishaps = 0

-----------------------------------------------------------------------------
(* request_export: commit, then publish.                                   *)
RequestExport(j) ==
  /\ status[j] = "none"
  /\ status' = [status EXCEPT ![j] = "pending"]
  /\ unsent' = unsent \union {j}
  /\ UNCHANGED <<checksum, stored, queue, hand, step, built, ledger, stranded, mishaps>>

PublishExport(j) ==
  /\ j \in unsent
  /\ unsent' = unsent \ {j} /\ queue' = Append(queue, j)
  /\ UNCHANGED <<status, checksum, stored, hand, step, built, ledger, stranded, mishaps>>

(* Redis refuses, or the api dies in between: the row says pending.        *)
PublishLost(j) ==
  /\ j \in unsent /\ mishaps < MaxMishaps
  /\ unsent' = unsent \ {j} /\ stranded' = stranded \union {j} /\ mishaps' = mishaps + 1
  /\ UNCHANGED <<status, checksum, stored, queue, hand, step, built, ledger>>

LedgerMoves ==
  /\ ledger < MaxVersions /\ ledger' = ledger + 1
  /\ UNCHANGED <<status, checksum, stored, unsent, queue, hand, step, built, stranded, mishaps>>

-----------------------------------------------------------------------------
(* main and process_export.                                                *)
TakeBatch ==
  LET n == IF Len(queue) < ExportBatch THEN Len(queue) ELSE ExportBatch IN
    /\ hand = <<>> /\ queue # <<>>
    /\ hand' = SubSeq(queue, 1, n) /\ queue' = SubSeq(queue, n + 1, Len(queue))
    /\ UNCHANGED <<status, checksum, stored, unsent, step, built, ledger, stranded, mishaps>>

StartJob ==
  /\ step = "loop" /\ hand # <<>>
  /\ status' = [status EXCEPT ![Head(hand)] = "running"] /\ step' = "build"
  /\ UNCHANGED <<checksum, stored, unsent, queue, hand, built, ledger, stranded, mishaps>>

BuildWorkbook ==
  /\ step = "build"
  /\ built' = ledger /\ step' = "put"
  /\ UNCHANGED <<status, checksum, stored, unsent, queue, hand, ledger, stranded, mishaps>>

PutObject ==
  /\ step = "put"
  /\ stored' = [stored EXCEPT ![Head(hand)] = built] /\ step' = "finish"
  /\ UNCHANGED <<status, checksum, unsent, queue, hand, built, ledger, stranded, mishaps>>

FinishJob ==
  /\ step = "finish"
  /\ status' = [status EXCEPT ![Head(hand)] = "complete"]
  /\ checksum' = [checksum EXCEPT ![Head(hand)] = built]
  /\ step' = "loop" /\ hand' = Tail(hand) /\ built' = missing
  /\ UNCHANGED <<stored, unsent, queue, ledger, stranded, mishaps>>

(* An exception: what the step was to do may have been done all the same,  *)
(* its answer being what was lost.                                         *)
StepFails ==
  /\ hand # <<>> /\ step # "failing" /\ mishaps < MaxMishaps
  /\ step' = "failing" /\ mishaps' = mishaps + 1
  /\ \/ UNCHANGED <<status, checksum, stored>>
     \/ /\ step = "put" /\ stored' = [stored EXCEPT ![Head(hand)] = built]
        /\ UNCHANGED <<status, checksum>>
     \/ /\ step = "finish" /\ UNCHANGED stored
        /\ status' = [status EXCEPT ![Head(hand)] = "complete"]
        /\ checksum' = [checksum EXCEPT ![Head(hand)] = built]
  /\ UNCHANGED <<unsent, queue, hand, built, ledger, stranded>>

(* Mutant: the rollback of the handler is all there is.                    *)
MarkFailedForgotten ==
  /\ step = "failing"
  /\ step' = "loop" /\ hand' = Tail(hand) /\ built' = missing
  /\ UNCHANGED <<status, checksum, stored, unsent, queue, ledger, stranded, mishaps>>

MarkFailed ==
  /\ step = "failing"
  /\ status' = [status EXCEPT ![Head(hand)] = "failed"]
  /\ step' = "loop" /\ hand' = Tail(hand) /\ built' = missing
  /\ UNCHANGED <<checksum, stored, unsent, queue, ledger, stranded, mishaps>>

MarkFails ==
  /\ step = "failing" /\ mishaps < MaxMishaps
  /\ step' = "loop" /\ hand' = Tail(hand) /\ built' = missing
  /\ stranded' = stranded \union {Head(hand)} /\ mishaps' = mishaps + 1
  /\ UNCHANGED <<status, checksum, stored, unsent, queue, ledger>>

(* The worker dies, by itself or of an error of Redis in its loop, and is  *)
(* restarted: nobody asks again for what it had in hand.                   *)
CrashExporter ==
  /\ hand # <<>> /\ mishaps < MaxMishaps
  /\ stranded' = stranded \union {hand[i] : i \in DOMAIN hand}
  /\ hand' = <<>> /\ step' = "loop" /\ built' = missing /\ mishaps' = mishaps + 1
  /\ UNCHANGED <<status, checksum, stored, unsent, queue, ledger>>

Export == TakeBatch \/ StartJob \/ BuildWorkbook \/ PutObject \/ FinishJob \/ MarkFailed
PublishNext == \E j \in Jobs : PublishExport(j)

ExportNext ==
  \/ \E j \in Jobs : RequestExport(j) \/ PublishLost(j)
  \/ PublishNext \/ LedgerMoves \/ Export \/ StepFails \/ MarkFails \/ CrashExporter

(* The worker and a request that has committed go on.                      *)
ExportFair == WF_exportVars(Export) /\ WF_exportVars(PublishNext)
ExportSpec == ExportInit /\ [][ExportNext]_exportVars /\ ExportFair

-----------------------------------------------------------------------------
Downloadable(j) == status[j] = "complete" /\ stored[j] # missing /\ stored[j] = checksum[j]

(* A job that says complete can be downloaded at any time: what lies under *)
(* its key is a workbook, the one of its checksum.                         *)
CompleteDownloads == \A j \in Jobs : status[j] = "complete" => Downloadable(j)

(* exports.py answers the caller "pending" and has it poll: every job comes*)
(* to a lasting end, complete with the workbook of that checksum under its *)
(* key, or failed, unless an error or a crash took it from the worker; and *)
(* one that says complete can be downloaded at any time.                   *)
JobsEnd ==
  /\ []CompleteDownloads
  /\ \A j \in Jobs :
       [](status[j] # "none" =>
            <>[](Downloadable(j) \/ status[j] = "failed" \/ j \in stranded))
=============================================================================
