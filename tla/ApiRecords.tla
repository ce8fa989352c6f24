------------------------------ MODULE ApiRecords ------------------------------
(***************************************************************************)
(* Two parts of the api whose requests overlap, and whose properties are   *)
(* all of what may never be: the audit log that every service appends to,  *)
(* and the data sources.  A request on a source appends its event to the   *)
(* log in its own transaction (Flush may happen at any time), and reads    *)
(* nothing of the log; so that a behaviour here is one of one part, and    *)
(* the other stands still.                                                 *)
(***************************************************************************)
EXTENDS AuditChain, DataSources

VARIABLE subject        \* the part this behaviour is one of

recordsVars == <<subject, auditVars, sourcesVars>>

RecordsInit == subject \in {"audit", "sources"} /\ AuditInit /\ SourcesInit

RecordsNext ==
  /\ UNCHANGED subject
  /\ \/ subject = "audit" /\ AuditNext /\ UNCHANGED sourcesVars
     \/ subject = "sources" /\ SourcesNext /\ UNCHANGED auditVars

RecordsSpec == RecordsInit /\ [][RecordsNext]_recordsVars
=============================================================================
