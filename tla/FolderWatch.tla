----------------------------- MODULE FolderWatch -----------------------------
(***************************************************************************)
(* The thread that watches the data folder (ingestion/folder_watcher.py).  *)
(*                                                                         *)
(* A scan takes the files in the order of their names; what is in the set  *)
(* of checksums was taken before.  The readings of a file are published,   *)
(* then its checksum is added: what falls in between is published again.   *)
(*                                                                         *)
(* Abstractions: names are numbers, in their order; a content is good (has *)
(* usable readings), empty (parses, has none), bad (does not parse) or     *)
(* unwritable (parses, with a value json cannot write: a date of an xlsx). *)
(***************************************************************************)
EXTENDS Integers, Sequences, SequencesExt

CONSTANTS Names, Good, Empty, Bad, Unwritable, absent,
          MaxFaults     \* bound: errors of Redis or database, and crashes

ASSUME FolderAssumption ==
  /\ Names \subseteq Nat /\ MaxFaults \in Nat
  /\ absent \notin Good \union Empty \union Unwritable
  /\ Unwritable \intersect (Good \union Empty \union Bad) = {}

VARIABLES content,      \* what each name holds
          locked,       \* names that cannot be read
          tenant,       \* the default tenant exists
          watcher,      \* "lookup", "wait", "scan" or "dead"
          todo,         \* names this scan has still to take, in order
          published,    \* content that is published and not yet marked
          marked,       \* reo:ingestion:processed_files
          copies,       \* history: how often a content was published in full
          faults

world == <<content, locked, tenant>>
folderVars == <<world, watcher, todo, published, marked, copies, faults>>

FolderInit ==
  /\ content = [n \in Names |-> absent] /\ locked = {} /\ tenant = FALSE
  /\ watcher = "lookup" /\ todo = <<>> /\ published = absent /\ marked = {}
  /\ copies = [c \in Good |-> 0] /\ faults = 0

-----------------------------------------------------------------------------
(* The world: files are put, replaced and removed, made readable or not.   *)
PutFile(n, c) ==
  /\ content[n] # c
  /\ content' = [content EXCEPT ![n] = c]
  /\ UNCHANGED <<locked, tenant, watcher, todo, published, marked, copies, faults>>

ToggleLock(n) ==
  /\ locked' = IF n \in locked THEN locked \ {n} ELSE locked \union {n}
  /\ UNCHANGED <<content, tenant, watcher, todo, published, marked, copies, faults>>

ProvisionTenant ==
  /\ ~tenant /\ tenant' = TRUE
  /\ UNCHANGED <<content, locked, watcher, todo, published, marked, copies, faults>>

-----------------------------------------------------------------------------
(* The thread: run_forever and _scan_once.                                 *)
LookupTenant ==
  /\ watcher = "lookup" /\ tenant
  /\ watcher' = "wait"
  /\ UNCHANGED <<world, todo, published, marked, copies, faults>>

(* The lookup is outside the try: an exception there ends the thread.      *)
LookupFails ==
  /\ watcher = "lookup" /\ faults < MaxFaults
  /\ watcher' = "dead" /\ faults' = faults + 1
  /\ UNCHANGED <<world, todo, published, marked, copies>>

StartScan ==
  /\ watcher = "wait"
  /\ watcher' = "scan"
  /\ todo' = SetToSortSeq({n \in Names : content[n] # absent}, <)
  /\ UNCHANGED <<world, published, marked, copies, faults>>

EndScan ==
  /\ watcher = "scan" /\ todo = <<>>
  /\ watcher' = "wait"
  /\ UNCHANGED <<world, todo, published, marked, copies, faults>>

Taking == watcher = "scan" /\ todo # <<>> /\ published = absent
Here == content[Head(todo)]
Passed == Here = absent \/ (Head(todo) \notin locked /\ Here \in marked \union Bad)

(* Mutant: a file to pass over ends the scan.                              *)
SkipAll ==
  /\ Taking /\ Passed
  /\ todo' = <<>>
  /\ UNCHANGED <<world, watcher, published, marked, copies, faults>>

(* No file any more, taken before, or it does not parse: on to the next.   *)
Skip ==
  /\ Taking /\ Passed
  /\ todo' = Tail(todo)
  /\ UNCHANGED <<world, watcher, published, marked, copies, faults>>

Publish ==
  /\ Taking /\ Head(todo) \notin locked /\ Here \in (Good \union Empty) \ marked
  /\ published' = Here
  /\ copies' = IF Here \in Good THEN [copies EXCEPT ![Here] = @ + 1] ELSE copies
  /\ UNCHANGED <<world, watcher, todo, marked, faults>>

Mark ==
  /\ watcher = "scan" /\ published # absent
  /\ marked' = marked \union {published}
  /\ published' = absent /\ todo' = Tail(todo)
  /\ UNCHANGED <<world, watcher, copies, faults>>

AbandonScan == watcher' = "wait" /\ todo' = <<>> /\ published' = absent

(* read_bytes raises: the file is not readable, or vanished a moment ago.  *)
(* The scan ends here, and the files after this one wait.                  *)
Unreadable ==
  /\ Taking /\ Here # absent /\ Head(todo) \in locked
  /\ AbandonScan
  /\ UNCHANGED <<world, marked, copies, faults>>

(* The readings are published outside any try, and one of them cannot be:  *)
(* the scan ends, the file stays unmarked, and so it goes at every scan.   *)
PublishRaises ==
  /\ Taking /\ Head(todo) \notin locked /\ Here \in Unwritable
  /\ AbandonScan
  /\ UNCHANGED <<world, marked, copies, faults>>

(* Redis fails at the look-up, in the middle of the readings or at the     *)
(* mark.                                                                   *)
RedisFails ==
  /\ watcher = "scan" /\ todo # <<>> /\ faults < MaxFaults
  /\ AbandonScan /\ faults' = faults + 1
  /\ UNCHANGED <<world, marked, copies>>

(* The api process goes down and comes back with a new thread.             *)
RestartApi ==
  /\ watcher = "dead" \/ faults < MaxFaults
  /\ watcher' = "lookup" /\ todo' = <<>> /\ published' = absent
  /\ faults' = IF watcher = "dead" THEN faults ELSE faults + 1
  /\ UNCHANGED <<world, marked, copies>>

Scan == StartScan \/ Skip \/ Publish \/ Mark \/ Unreadable \/ PublishRaises \/ EndScan
Watch == LookupTenant \/ Scan

FolderNext ==
  \/ \E n \in Names, c \in Good \union Empty \union Bad \union Unwritable \union {absent} : PutFile(n, c)
  \/ \E n \in Names : ToggleLock(n)
  \/ ProvisionTenant \/ Watch \/ LookupFails \/ RedisFails \/ RestartApi

(* The thread runs; the api process is restarted by its operators only.    *)
FolderFair == WF_folderVars(Watch)
FolderSpec == FolderInit /\ [][FolderNext]_folderVars /\ FolderFair

-----------------------------------------------------------------------------
(* folder_watcher.py: "a file is only ever ingested once".  A content that *)
(* is marked as taken was published in full, under whatever names it lies  *)
(* in the folder, and once more at most for each failure or restart.       *)
TakenOnce ==
  \A c \in Good :
    /\ c \in marked => copies[c] >= 1
    /\ copies[c] <= 1 + faults

(* Every file that can be published and stays in the folder is taken,      *)
(* whatever other files do not parse or were taken before, and it is taken *)
(* once.  Not so when the thread is dead, or when the file or one before   *)
(* it cannot be read, or holds a value json cannot write, again and again: *)
(* each of those ends every scan before its end.                           *)
EveryFileTaken ==
  /\ []TakenOnce
  /\ \A n \in Names : \A c \in Good \union Empty :
       (/\ <>[](content[n] = c /\ tenant)
        /\ <>[](\A k \in Names : k <= n => k \notin locked /\ content[k] \notin Unwritable)
        /\ <>[](watcher # "dead"))
       => <>(c \in marked)
=============================================================================
