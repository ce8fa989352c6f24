------------------------------- MODULE Intake -------------------------------
(***************************************************************************)
(* What people hand in (backend/app/routers/ingestion.py): files of rows   *)
(* and documents.                                                          *)
(*                                                                         *)
(* A file in a known shape is ingested at once.  Any other file needs a    *)
(* mapping of its columns: the rule a person approved for its signature,   *)
(* or a proposal of the model that waits for a person.  A document always  *)
(* waits for a person, who may turn it into a constraint.                  *)
(*                                                                         *)
(* Uploads are async handlers that block the event loop: one at a time.    *)
(* Approve, reject and apply-constraint run in the threadpool and          *)
(* interleave with each other and with an upload waiting for the model.    *)
(* Readings go to the stream before the commit, customers with it.         *)
(*                                                                         *)
(* Abstractions: a file is its header row; a mapping is the header row it  *)
(* was proposed for and whether it names every column that is needed; a    *)
(* document is a value; rows are one fact, "the rows of this file came in".*)
(***************************************************************************)
EXTENDS Integers, Sequences, FiniteSets

CONSTANTS Fixed,        \* files of the reference dataset or in the reading shape
          Tables,       \* files in any other shape
          Documents,    \* scanned or written documents
          Header,       \* the header row of each table
          Signature,    \* column_signature of each header row
          Customers,    \* the tables whose rows are customers, not readings
          Requests,     \* requests of the threadpool, each made once
          MaxItems,     \* bound: proposals and documents handed in
          none

ASSUME IntakeAssumption ==
  /\ Customers \subseteq Tables /\ Tables \intersect Documents = {} /\ MaxItems \in Nat
  /\ \A f \in Tables : Header[f] \in DOMAIN Signature
  /\ none \notin Fixed \union Tables \union Documents
  /\ none \notin [headers : DOMAIN Signature, complete : BOOLEAN]

VARIABLES items,        \* DataMappingProposal and DocumentIntake rows
          rule,         \* TableMappingRule: the mapping of a signature
          constraints,  \* Constraint rows made from documents
          asking,       \* the upload that waits for the model
          request,      \* what each request of the threadpool does
          arrived,      \* history: rows that came in, and by which mapping
          approved,     \* history: mappings a person approved
          late          \* history: requests under way when an item was decided

intakeVars == <<items, rule, constraints, asking, request, arrived, approved, late>>

Signatures == {Signature[h] : h \in DOMAIN Signature}
Mappings == [headers : DOMAIN Signature, complete : BOOLEAN]
SignatureOf(f) == Signature[Header[f]]
Idle == [pc |-> "idle", op |-> "none", item |-> 0, addsRule |-> FALSE]
Under(n) == {r \in Requests : request[r].item = n /\ request[r].pc \in {"checked", "ingested"}}

IntakeInit ==
  /\ items = <<>> /\ rule = [s \in Signatures |-> none] /\ constraints = {}
  /\ asking = none /\ request = [r \in Requests |-> Idle]
  /\ arrived = {} /\ approved = {} /\ late = <<>>

-----------------------------------------------------------------------------
(* apply_mapping: whether rows come of it.  None do if the mapping lacks a *)
(* column, or if it spells the columns differently: the signature ignores  *)
(* case, the lookup of a row does not.                                     *)
Yields(mapping, f) ==
  IF mapping.complete /\ mapping.headers = Header[f] THEN BOOLEAN ELSE {FALSE}

Rows(f, mapping, via, n) == [file |-> f, mapping |-> mapping, via |-> via, item |-> n]

(* Uploads.                                                                *)
UploadFixed(f) ==
  /\ asking = none /\ f \in Fixed
  /\ arrived' = arrived \union {Rows(f, none, "shape", 0)}
  /\ UNCHANGED <<items, rule, constraints, asking, request, approved, late>>

UploadReuse(f) ==
  /\ asking = none /\ f \in Tables /\ rule[SignatureOf(f)] # none
  /\ TRUE \in Yields(rule[SignatureOf(f)], f)
  /\ arrived' = arrived \union {Rows(f, rule[SignatureOf(f)], "rule", 0)}
  /\ UNCHANGED <<items, rule, constraints, asking, request, approved, late>>

UploadAsk(f) ==
  /\ asking = none /\ Len(items) < MaxItems
  /\ f \in Documents \/ (f \in Tables /\ rule[SignatureOf(f)] = none)
  /\ asking' = f
  /\ UNCHANGED <<items, rule, constraints, request, arrived, approved, late>>

Filed(f, mapping) ==
  /\ items' = Append(items, [file |-> f, mapping |-> mapping, status |-> "open"])
  /\ late' = Append(late, {})
  /\ asking' = none

(* Mutant: what the model proposes is ingested without review.             *)
UploadTrusted ==
  /\ asking \in Tables
  /\ \E complete \in BOOLEAN :
       LET mapping == [headers |-> Header[asking], complete |-> complete] IN
         /\ Filed(asking, mapping)
         /\ arrived' = IF TRUE \in Yields(mapping, asking)
                       THEN arrived \union {Rows(asking, mapping, "model", 0)} ELSE arrived
  /\ UNCHANGED <<rule, constraints, request, approved>>

(* The bytes are quarantined and the proposal is committed; nothing is     *)
(* ingested.                                                               *)
UploadPropose ==
  /\ asking \in Tables
  /\ \E complete \in BOOLEAN :
       Filed(asking, [headers |-> Header[asking], complete |-> complete])
  /\ UNCHANGED <<rule, constraints, request, arrived, approved>>

UploadExtract ==
  /\ asking \in Documents
  /\ Filed(asking, none)
  /\ UNCHANGED <<rule, constraints, request, arrived, approved>>

(* GatewayError, "unrecognized", an unreadable document, a failed store of *)
(* the bytes, a failed commit.                                             *)
UploadRefused ==
  /\ asking # none
  /\ asking' = none
  /\ UNCHANGED <<items, rule, constraints, request, arrived, approved, late>>

-----------------------------------------------------------------------------
(* Requests.  The status is read without a lock.                           *)
Decidable(op, n) ==
  IF items[n].file \in Tables THEN op \in {"approve", "reject"} ELSE op = "apply"

(* Mutant: a decision is taken whatever the status is.                     *)
CheckLoose(r, op, n) ==
  /\ request[r].pc = "idle" /\ n \in DOMAIN items /\ Decidable(op, n)
  /\ request' = [request EXCEPT ![r] =
                   [pc |-> "checked", op |-> op, item |-> n, addsRule |-> FALSE]]
  /\ approved' = IF op = "approve" THEN approved \union {items[n].mapping} ELSE approved
  /\ UNCHANGED <<items, rule, constraints, asking, arrived, late>>

Check(r, op, n) ==
  /\ request[r].pc = "idle" /\ n \in DOMAIN items /\ Decidable(op, n)
  /\ items[n].status = "open"
  /\ request' = [request EXCEPT ![r] =
                   [pc |-> "checked", op |-> op, item |-> n, addsRule |-> FALSE]]
  /\ approved' = IF op = "approve" THEN approved \union {items[n].mapping} ELSE approved
  /\ UNCHANGED <<items, rule, constraints, asking, arrived, late>>

(* Approve: the file is fetched again, its mapping applied, the rule looked *)
(* up.  Readings are on the stream from here on.                           *)
Ingest(r) ==
  LET item == items[request[r].item] IN
    /\ request[r].pc = "checked" /\ request[r].op = "approve"
    /\ \E rows \in Yields(item.mapping, item.file) :
         arrived' = IF rows /\ item.file \notin Customers
                    THEN arrived \union {Rows(item.file, item.mapping, "review", request[r].item)}
                    ELSE arrived
    /\ request' = [request EXCEPT ![r].pc = "ingested",
                                  ![r].addsRule = rule[SignatureOf(item.file)] = none]
    /\ UNCHANGED <<items, rule, constraints, asking, approved, late>>

Settle(r, status) ==
  LET n == request[r].item IN
    /\ items' = [items EXCEPT ![n].status = status]
    /\ late' = [late EXCEPT ![n] = IF items[n].status = "open" THEN Under(n) \ {r} ELSE @]
    /\ request' = [request EXCEPT ![r].pc = "done"]

(* The commit of an approval.  Two that both found no rule: the unique     *)
(* key of (tenant, signature) lets the first one through.                  *)
CommitApprove(r) ==
  LET item == items[request[r].item]
      s == SignatureOf(item.file) IN
    /\ request[r].pc = "ingested"
    /\ request[r].addsRule => rule[s] = none
    /\ Settle(r, "applied")
    /\ rule' = IF request[r].addsRule THEN [rule EXCEPT ![s] = item.mapping] ELSE rule
    /\ \E rows \in Yields(item.mapping, item.file) :
         arrived' = IF rows /\ item.file \in Customers
                    THEN arrived \union {Rows(item.file, item.mapping, "review", request[r].item)}
                    ELSE arrived
    /\ UNCHANGED <<constraints, asking, approved>>

CommitReject(r) ==
  /\ request[r].pc = "checked" /\ request[r].op = "reject"
  /\ Settle(r, "rejected")
  /\ UNCHANGED <<rule, constraints, asking, arrived, approved>>

(* apply-constraint: the asset exists and is solar or wind, and a window   *)
(* is known; anything else is refused (RequestFails).                      *)
CommitConstraint(r) ==
  /\ request[r].pc = "checked" /\ request[r].op = "apply"
  /\ Settle(r, "applied")
  /\ constraints' = constraints \union {[document |-> request[r].item, by |-> r]}
  /\ UNCHANGED <<rule, asking, arrived, approved>>

(* A refusal, a failed fetch, publish or commit: the transaction is gone,  *)
(* readings that are on the stream stay there.                             *)
RequestFails(r) ==
  /\ request[r].pc \in {"checked", "ingested"}
  /\ request' = [request EXCEPT ![r].pc = "done"]
  /\ UNCHANGED <<items, rule, constraints, asking, arrived, approved, late>>

(* The api process dies with the upload and all requests in hand.          *)
CrashApi ==
  /\ asking # none \/ \E r \in Requests : request[r].pc \in {"checked", "ingested"}
  /\ asking' = none
  /\ request' = [r \in Requests |->
                   IF request[r].pc = "idle" THEN Idle ELSE [request[r] EXCEPT !.pc = "done"]]
  /\ UNCHANGED <<items, rule, constraints, arrived, approved, late>>

Upload ==
  \/ \E f \in Fixed : UploadFixed(f)
  \/ \E f \in Tables : UploadReuse(f)
  \/ \E f \in Tables \union Documents : UploadAsk(f)
  \/ UploadPropose \/ UploadExtract \/ UploadRefused

Decision(r) ==
  \/ \E op \in {"approve", "reject", "apply"}, n \in DOMAIN items : Check(r, op, n)
  \/ Ingest(r) \/ CommitApprove(r) \/ CommitReject(r) \/ CommitConstraint(r) \/ RequestFails(r)

IntakeNext == Upload \/ (\E r \in Requests : Decision(r)) \/ CrashApi

IntakeSpec == IntakeInit /\ [][IntakeNext]_intakeVars

-----------------------------------------------------------------------------
(* ingestion.py: the agent never writes on its own say-so.  Rows of a file *)
(* in an unknown shape come in only by a mapping that some person approved,*)
(* the rule of a signature is such a mapping, and where a proposal stands  *)
(* as applied there is one, whatever requests overlap, fail or die half-way.*)
ReviewedFirst ==
  /\ \A rows \in arrived : rows.via # "shape" => rows.mapping \in approved
  /\ \A s \in Signatures : rule[s] # none => rule[s] \in approved
  /\ \A n \in DOMAIN items :
       (items[n].file \in Tables /\ items[n].status = "applied") =>
         rule[SignatureOf(items[n].file)] # none

(* What a decided proposal or document still causes, a second outcome, rows*)
(* or a constraint, comes from requests that were under way when it was    *)
(* decided: no request that starts afterwards has any effect.              *)
Effects(n) ==
  <<items[n].status, {rows \in arrived : rows.item = n}, {c \in constraints : c.document = n}>>

DecidedOnce ==
  [][\A n \in DOMAIN items :
       (items[n].status # "open" /\ Effects(n)' # Effects(n)) =>
         \E r \in late[n] : request'[r] # request[r]]_intakeVars
=============================================================================
