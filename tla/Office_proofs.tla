----------------------------- MODULE Office_proofs -----------------------------
(***************************************************************************)
(* Proofs about document intake, the portfolio registry, the accounts, the *)
(* exports, the watched folder and the login throttle, for any number of   *)
(* files, header rows, requests, items, sites, assets, names, users, jobs, *)
(* logins and faults.                                                      *)
(***************************************************************************)
EXTENDS BackOffice, TLAPS, FiniteSetTheorems

-----------------------------------------------------------------------------
(* Intake: ReviewedFirst and DecidedOnce.  The invariant adds what a       *)
(* request has in hand: an approval under way works on a table whose       *)
(* mapping was approved when it was begun, and one that will add no rule   *)
(* has seen one, which nothing ever takes away.                            *)

Item == [file : Tables \union Documents, mapping : Mappings \union {none},
         status : {"open", "applied", "rejected"}]

ItemsTyped ==
  /\ items \in Seq(Item)
  /\ \A n \in DOMAIN items : items[n].file \in Tables => items[n].mapping \in Mappings
  /\ rule \in [Signatures -> Mappings \union {none}]
  /\ request \in [Requests -> [pc : {"idle", "checked", "ingested", "done"},
                               op : {"none", "approve", "reject", "apply"},
                               item : Nat, addsRule : BOOLEAN]]

Working(r) == request[r].pc \in {"checked", "ingested"}

ItemsInHand ==
  \A r \in Requests :
    /\ Working(r) =>
         /\ request[r].item \in DOMAIN items
         /\ Decidable(request[r].op, request[r].item)
         /\ request[r].op = "approve" => items[request[r].item].mapping \in approved
    /\ request[r].pc = "ingested" =>
         /\ request[r].op = "approve"
         /\ ~request[r].addsRule => rule[SignatureOf(items[request[r].item].file)] # none

ArrivedReviewed == \A rows \in arrived : rows.via # "shape" => rows.mapping \in approved
RulesReviewed == \A s \in Signatures : rule[s] # none => rule[s] \in approved
AppliedHasRule ==
  \A n \in DOMAIN items :
    (items[n].file \in Tables /\ items[n].status = "applied") =>
      rule[SignatureOf(items[n].file)] # none

IntakeInv == ItemsTyped /\ ItemsInHand /\ ArrivedReviewed /\ RulesReviewed /\ AppliedHasRule

LEMMA InvImpliesReviewed == IntakeInv => ReviewedFirst
BY DEF IntakeInv, ArrivedReviewed, RulesReviewed, AppliedHasRule, ReviewedFirst

-----------------------------------------------------------------------------
(* Uploads.                                                                *)
LEMMA SignatureIn ==
  ASSUME NEW f \in Tables
  PROVE  SignatureOf(f) \in Signatures
BY IntakeAssumption DEF SignatureOf, Signatures

LEMMA UploadsKeep ==
  ASSUME IntakeInv,
         \/ \E f \in Fixed : UploadFixed(f)
         \/ \E f \in Tables : UploadReuse(f)
         \/ \E f \in Tables \union Documents : UploadAsk(f)
         \/ UploadRefused
  PROVE  IntakeInv'
<1>1. UNCHANGED <<items, rule, request, approved>>
  BY DEF UploadFixed, UploadReuse, UploadAsk, UploadRefused
<1>2. ItemsTyped' /\ ItemsInHand' /\ RulesReviewed' /\ AppliedHasRule'
  BY <1>1 DEF IntakeInv, ItemsTyped, ItemsInHand, Working, Decidable, RulesReviewed, AppliedHasRule
<1>3. ArrivedReviewed'
  <2>1. CASE \E f \in Fixed : UploadFixed(f)
    BY <2>1, <1>1 DEF UploadFixed, Rows, IntakeInv, ArrivedReviewed
  <2>2. CASE \E f \in Tables : UploadReuse(f)
    <3>1. PICK f \in Tables : UploadReuse(f)
      BY <2>2
    <3>2. rule[SignatureOf(f)] \in approved
      BY <3>1, SignatureIn DEF UploadReuse, IntakeInv, RulesReviewed
    <3> QED
      BY <3>1, <3>2, <1>1 DEF UploadReuse, Rows, IntakeInv, ArrivedReviewed
  <2>3. CASE (\E f \in Tables \union Documents : UploadAsk(f)) \/ UploadRefused
    BY <2>3, <1>1 DEF UploadAsk, UploadRefused, IntakeInv, ArrivedReviewed
  <2> QED
    BY <2>1, <2>2, <2>3
<1> QED
  BY <1>2, <1>3 DEF IntakeInv

(* A new item is open and nobody works on it.                              *)
LEMMA FilingKeeps ==
  ASSUME IntakeInv, UploadPropose \/ UploadExtract
  PROVE  IntakeInv'
<1>1. UNCHANGED <<rule, request, arrived, approved>>
  BY DEF UploadPropose, UploadExtract
<1>2. PICK item \in Item :
        /\ items' = Append(items, item) /\ item.status = "open"
        /\ item.file \in Tables => item.mapping \in Mappings
  <2>1. CASE UploadPropose
    <3>1. PICK complete \in BOOLEAN :
            Filed(asking, [headers |-> Header[asking], complete |-> complete])
      BY <2>1 DEF UploadPropose
    <3>2. asking \in Tables /\ [headers |-> Header[asking], complete |-> complete] \in Mappings
      BY <2>1, IntakeAssumption DEF UploadPropose, Mappings
    <3> QED
      BY <3>1, <3>2 DEF Filed, Item
  <2>2. CASE UploadExtract
    <3>1. asking \in Documents /\ Filed(asking, none)
      BY <2>2 DEF UploadExtract
    <3>2. asking \notin Tables
      BY <3>1, IntakeAssumption
    <3> QED
      BY <3>1, <3>2 DEF Filed, Item
  <2> QED
    BY <2>1, <2>2
<1>3. items \in Seq(Item)
  BY DEF IntakeInv, ItemsTyped
<1>4. /\ items' \in Seq(Item) /\ DOMAIN items \subseteq DOMAIN items'
      /\ \A n \in DOMAIN items : items'[n] = items[n]
      /\ \A n \in DOMAIN items' : n \in DOMAIN items \/ items'[n] = item
  BY <1>2, <1>3
<1>5. ItemsTyped'
  BY <1>1, <1>2, <1>4 DEF IntakeInv, ItemsTyped
<1>6. ItemsInHand'
  <2>1. ASSUME NEW r \in Requests, Working(r)
        PROVE  /\ request[r].item \in DOMAIN items'
               /\ items'[request[r].item] = items[request[r].item]
    BY <2>1, <1>4 DEF IntakeInv, ItemsInHand
  <2> QED
    BY <2>1, <1>1 DEF IntakeInv, ItemsInHand, Working, Decidable
<1>7. ArrivedReviewed' /\ RulesReviewed'
  BY <1>1 DEF IntakeInv, ArrivedReviewed, RulesReviewed
<1>8. AppliedHasRule'
  BY <1>1, <1>2, <1>4 DEF IntakeInv, AppliedHasRule
<1> QED
  BY <1>5, <1>6, <1>7, <1>8 DEF IntakeInv

-----------------------------------------------------------------------------
(* Requests.                                                               *)
LEMMA CheckKeeps ==
  ASSUME IntakeInv, NEW r \in Requests, NEW op \in {"approve", "reject", "apply"},
         NEW n \in DOMAIN items, Check(r, op, n)
  PROVE  IntakeInv'
<1>1. /\ UNCHANGED <<items, rule, arrived>> /\ Decidable(op, n)
      /\ approved' = IF op = "approve" THEN approved \union {items[n].mapping} ELSE approved
  BY DEF Check
<1>2. request' = [q \in Requests |->
        IF q = r THEN [pc |-> "checked", op |-> op, item |-> n, addsRule |-> FALSE]
        ELSE request[q]]
  BY DEF Check, IntakeInv, ItemsTyped
<1>3. approved \subseteq approved' /\ (op = "approve" => items[n].mapping \in approved')
  BY <1>1
<1>4. ItemsTyped'
  <2>1. n \in Nat
    BY DEF IntakeInv, ItemsTyped
  <2> QED
    BY <2>1, <1>1, <1>2 DEF IntakeInv, ItemsTyped
<1>5. ItemsInHand'
  <2>1. \A q \in Requests : q # r => request'[q] = request[q]
    BY <1>2
  <2>2. request'[r] = [pc |-> "checked", op |-> op, item |-> n, addsRule |-> FALSE]
    BY <1>2
  <2> QED
    BY <2>1, <2>2, <1>1, <1>3 DEF IntakeInv, ItemsInHand, Working, Decidable
<1>6. ArrivedReviewed' /\ RulesReviewed' /\ AppliedHasRule'
  BY <1>1, <1>3 DEF IntakeInv, ArrivedReviewed, RulesReviewed, AppliedHasRule
<1> QED
  BY <1>4, <1>5, <1>6 DEF IntakeInv

LEMMA IngestKeeps ==
  ASSUME IntakeInv, NEW r \in Requests, Ingest(r)
  PROVE  IntakeInv'
<1> DEFINE n == request[r].item
<1>1. /\ UNCHANGED <<items, rule, approved>>
      /\ request[r].pc = "checked" /\ request[r].op = "approve"
  BY DEF Ingest
<1>2. /\ n \in DOMAIN items /\ items[n].file \in Tables /\ items[n].mapping \in approved
  BY <1>1 DEF IntakeInv, ItemsInHand, Working, Decidable
<1>3. arrived' \subseteq arrived \union {Rows(items[n].file, items[n].mapping, "review", n)}
  BY DEF Ingest
<1>4. request' = [q \in Requests |->
        IF q = r THEN [request[r] EXCEPT !.pc = "ingested",
                                         !.addsRule = rule[SignatureOf(items[n].file)] = none]
        ELSE request[q]]
  BY DEF Ingest, IntakeInv, ItemsTyped
<1> HIDE DEF n
<1>5. /\ request'[r].pc = "ingested" /\ request'[r].op = "approve" /\ request'[r].item = n
      /\ request'[r].addsRule <=> rule[SignatureOf(items[n].file)] = none
  BY <1>1, <1>4 DEF IntakeInv, ItemsTyped, n
<1>6. ItemsTyped'
  <2>1. request'[r] \in [pc : {"idle", "checked", "ingested", "done"},
                         op : {"none", "approve", "reject", "apply"},
                         item : Nat, addsRule : BOOLEAN]
    BY <1>4 DEF IntakeInv, ItemsTyped
  <2> QED
    BY <2>1, <1>1, <1>4 DEF IntakeInv, ItemsTyped
<1>7. ItemsInHand'
  <2>1. \A q \in Requests : q # r => request'[q] = request[q]
    BY <1>4
  <2> QED
    BY <2>1, <1>1, <1>2, <1>5 DEF IntakeInv, ItemsInHand, Working, Decidable
<1>8. ArrivedReviewed'
  BY <1>1, <1>2, <1>3 DEF IntakeInv, ArrivedReviewed, Rows
<1>9. RulesReviewed' /\ AppliedHasRule'
  BY <1>1 DEF IntakeInv, RulesReviewed, AppliedHasRule
<1> QED
  BY <1>6, <1>7, <1>8, <1>9 DEF IntakeInv

(* Any decision that is taken: the item and the request are settled, and   *)
(* the rule of a signature is there to stay.                               *)
LEMMA SettleKeeps ==
  ASSUME IntakeInv, NEW r \in Requests, Working(r),
         NEW verdict \in {"applied", "rejected"}, Settle(r, verdict),
         UNCHANGED approved, rule' \in [Signatures -> Mappings \union {none}],
         \A s \in Signatures : rule[s] # none => rule'[s] # none,
         verdict = "applied" /\ items[request[r].item].file \in Tables =>
           rule'[SignatureOf(items[request[r].item].file)] # none
  PROVE  ItemsTyped' /\ ItemsInHand' /\ AppliedHasRule'
<1> DEFINE n == request[r].item
<1>1. items' = [items EXCEPT ![n].status = verdict] /\ n \in DOMAIN items
  BY DEF Settle, IntakeInv, ItemsInHand
<1>2. request' = [q \in Requests |->
        IF q = r THEN [request[r] EXCEPT !.pc = "done"] ELSE request[q]]
  BY DEF Settle, IntakeInv, ItemsTyped
<1>3. items \in Seq(Item)
  BY DEF IntakeInv, ItemsTyped
<1> HIDE DEF n
<1>4. /\ items' \in Seq(Item) /\ DOMAIN items' = DOMAIN items
      /\ \A k \in DOMAIN items : /\ items'[k].file = items[k].file
                                 /\ items'[k].mapping = items[k].mapping
                                 /\ k # n => items'[k].status = items[k].status
      /\ items'[n].status = verdict
  <2>1. items[n] \in Item
    BY <1>1, <1>3
  <2>2. PICK item : item = [items[n] EXCEPT !.status = verdict]
    OBVIOUS
  <2>3. /\ item \in Item /\ item.status = verdict
        /\ item.file = items[n].file /\ item.mapping = items[n].mapping
    BY <2>1, <2>2 DEF Item
  <2>4. items' = [items EXCEPT ![n] = item]
    BY <1>1, <2>2
  <2>5. items' \in Seq(Item) /\ DOMAIN items' = DOMAIN items
    BY <2>3, <2>4, <1>1, <1>3
  <2>6. items'[n] = item /\ \A k \in DOMAIN items : k # n => items'[k] = items[k]
    BY <2>4, <1>1, <1>3
  <2> QED
    BY <2>3, <2>5, <2>6
<1>5. \A k \in DOMAIN items : items[k].file \in Tables => SignatureOf(items[k].file) \in Signatures
  BY SignatureIn
<1>6. /\ ~Working(r)'
      /\ \A q \in Requests : q # r => request'[q] = request[q]
      /\ request'[r] \in [pc : {"idle", "checked", "ingested", "done"},
                          op : {"none", "approve", "reject", "apply"},
                          item : Nat, addsRule : BOOLEAN]
      /\ request'[r].pc = "done"
  BY <1>2 DEF IntakeInv, ItemsTyped, Working
<1>7. ItemsTyped'
  <2>1. request' \in [Requests -> [pc : {"idle", "checked", "ingested", "done"},
                                   op : {"none", "approve", "reject", "apply"},
                                   item : Nat, addsRule : BOOLEAN]]
    BY <1>2, <1>6 DEF IntakeInv, ItemsTyped
  <2> QED
    BY <2>1, <1>4 DEF IntakeInv, ItemsTyped
<1>8. ItemsInHand'
  <2>1. ASSUME NEW q \in Requests, q # r, Working(q)
        PROVE  /\ request[q].item \in DOMAIN items'
               /\ items'[request[q].item].file = items[request[q].item].file
               /\ items'[request[q].item].mapping = items[request[q].item].mapping
    BY <2>1, <1>4 DEF IntakeInv, ItemsInHand
  <2>2. ASSUME NEW q \in Requests, Working(q)'
        PROVE  /\ q # r /\ request'[q] = request[q] /\ Working(q)
               /\ Decidable(request[q].op, request[q].item)'
    <3>1. q # r /\ request'[q] = request[q] /\ Working(q)
      BY <2>2, <1>6 DEF Working
    <3>2. Decidable(request[q].op, request[q].item)
      BY <3>1 DEF IntakeInv, ItemsInHand
    <3> QED
      BY <3>1, <3>2, <2>1 DEF Decidable
  <2>3. ASSUME NEW q \in Requests, request'[q].pc = "ingested", ~request'[q].addsRule
        PROVE  rule'[SignatureOf(items'[request'[q].item].file)] # none
    <3>1. q # r /\ request'[q] = request[q] /\ Working(q)
      BY <2>2, <2>3 DEF Working
    <3>2. /\ items[request[q].item].file \in Tables /\ request[q].item \in DOMAIN items
          /\ rule[SignatureOf(items[request[q].item].file)] # none
      BY <3>1, <2>3 DEF IntakeInv, ItemsInHand, Decidable
    <3> QED
      BY <3>1, <3>2, <2>1, <1>5
  <2> QED
    BY <2>1, <2>2, <2>3, <1>6 DEF IntakeInv, ItemsInHand, Working
<1>9. AppliedHasRule'
  <2>1. ASSUME NEW k \in DOMAIN items, items[k].file \in Tables, items'[k].status = "applied"
        PROVE  rule'[SignatureOf(items[k].file)] # none
    <3>1. CASE k = n
      BY <3>1, <2>1, <1>4 DEF n
    <3>2. CASE k # n
      BY <3>2, <2>1, <1>4, <1>5 DEF IntakeInv, AppliedHasRule
    <3> QED
      BY <3>1, <3>2
  <2> QED
    BY <2>1, <1>4 DEF AppliedHasRule
<1> QED
  BY <1>7, <1>8, <1>9

LEMMA CommitApproveKeeps ==
  ASSUME IntakeInv, NEW r \in Requests, CommitApprove(r)
  PROVE  IntakeInv'
<1> DEFINE n == request[r].item
           s == SignatureOf(items[n].file)
<1>1. /\ request[r].pc = "ingested" /\ Settle(r, "applied") /\ UNCHANGED approved
      /\ request[r].addsRule => rule[s] = none
      /\ rule' = IF request[r].addsRule THEN [rule EXCEPT ![s] = items[n].mapping] ELSE rule
  BY DEF CommitApprove
<1>2. /\ Working(r) /\ n \in DOMAIN items /\ items[n].file \in Tables
      /\ items[n].mapping \in approved
      /\ ~request[r].addsRule => rule[s] # none
  BY <1>1 DEF IntakeInv, ItemsInHand, Working, Decidable
<1>3. /\ s \in Signatures /\ items[n].mapping \in Mappings /\ items[n].mapping # none
      /\ rule \in [Signatures -> Mappings \union {none}] /\ request[r].addsRule \in BOOLEAN
  BY <1>2, SignatureIn, IntakeAssumption DEF IntakeInv, ItemsTyped, Mappings
<1>4. arrived' \subseteq arrived \union {Rows(items[n].file, items[n].mapping, "review", n)}
  BY DEF CommitApprove
<1> HIDE DEF n, s
<1>5. /\ rule' \in [Signatures -> Mappings \union {none}] /\ rule'[s] # none
      /\ \A x \in Signatures : rule[x] # none => rule'[x] # none
      /\ \A x \in Signatures : rule'[x] = rule[x] \/ rule'[x] = items[n].mapping
  <2>1. CASE request[r].addsRule
    BY <2>1, <1>1, <1>3
  <2>2. CASE ~request[r].addsRule
    BY <2>2, <1>1, <1>2, <1>3
  <2> QED
    BY <2>1, <2>2
<1>6. ItemsTyped' /\ ItemsInHand' /\ AppliedHasRule'
  BY <1>1, <1>2, <1>5, SettleKeeps DEF n, s
<1>7. ArrivedReviewed'
  BY <1>1, <1>2, <1>4 DEF IntakeInv, ArrivedReviewed, Rows
<1>8. RulesReviewed'
  BY <1>1, <1>2, <1>5 DEF IntakeInv, RulesReviewed
<1> QED
  BY <1>6, <1>7, <1>8 DEF IntakeInv

LEMMA OtherCommitsKeep ==
  ASSUME IntakeInv, NEW r \in Requests, CommitReject(r) \/ CommitConstraint(r)
  PROVE  IntakeInv'
<1>1. /\ UNCHANGED <<rule, arrived, approved>> /\ request[r].pc = "checked"
      /\ \/ request[r].op = "reject" /\ Settle(r, "rejected")
         \/ request[r].op = "apply" /\ Settle(r, "applied")
  BY DEF CommitReject, CommitConstraint
<1>2. Working(r) /\ rule' \in [Signatures -> Mappings \union {none}]
  BY <1>1 DEF Working, IntakeInv, ItemsTyped
<1>3. request[r].op = "apply" => items[request[r].item].file \notin Tables
  BY <1>2 DEF IntakeInv, ItemsInHand, Decidable
<1>4. ItemsTyped' /\ ItemsInHand' /\ AppliedHasRule'
  <2>1. CASE request[r].op = "reject" /\ Settle(r, "rejected")
    BY <2>1, <1>1, <1>2, SettleKeeps
  <2>2. CASE request[r].op = "apply" /\ Settle(r, "applied")
    BY <2>2, <1>1, <1>2, <1>3, SettleKeeps
  <2> QED
    BY <2>1, <2>2, <1>1
<1>5. ArrivedReviewed' /\ RulesReviewed'
  BY <1>1 DEF IntakeInv, ArrivedReviewed, RulesReviewed
<1> QED
  BY <1>4, <1>5 DEF IntakeInv

(* What is given up leaves nothing in hand.                                *)
LEMMA GivenUpKeeps ==
  ASSUME IntakeInv, CrashApi \/ \E r \in Requests : RequestFails(r)
  PROVE  IntakeInv'
<1>1. UNCHANGED <<items, rule, arrived, approved>>
  BY DEF CrashApi, RequestFails
<1>2. /\ request' \in [Requests -> [pc : {"idle", "checked", "ingested", "done"},
                                    op : {"none", "approve", "reject", "apply"},
                                    item : Nat, addsRule : BOOLEAN]]
      /\ \A q \in Requests : request'[q] = request[q] \/ request'[q].pc \in {"idle", "done"}
  <2>1. CASE CrashApi
    <3>1. request' = [q \in Requests |-> IF request[q].pc = "idle" THEN Idle
                                         ELSE [request[q] EXCEPT !.pc = "done"]]
      BY <2>1 DEF CrashApi
    <3>2. ASSUME NEW q \in Requests
          PROVE  /\ request'[q] \in [pc : {"idle", "checked", "ingested", "done"},
                                     op : {"none", "approve", "reject", "apply"},
                                     item : Nat, addsRule : BOOLEAN]
                 /\ request'[q].pc \in {"idle", "done"}
      <4>1. CASE request[q].pc = "idle"
        BY <3>1, <4>1 DEF Idle
      <4>2. CASE request[q].pc # "idle"
        BY <3>1, <4>2 DEF IntakeInv, ItemsTyped
      <4> QED
        BY <4>1, <4>2
    <3> QED
      BY <3>1, <3>2
  <2>2. CASE \E r \in Requests : RequestFails(r)
    <3>1. PICK r \in Requests : request' = [request EXCEPT ![r].pc = "done"]
      BY <2>2 DEF RequestFails
    <3> QED
      BY <3>1 DEF IntakeInv, ItemsTyped
  <2> QED
    BY <2>1, <2>2
<1>3. ItemsTyped' /\ RulesReviewed' /\ AppliedHasRule' /\ ArrivedReviewed'
  BY <1>1, <1>2 DEF IntakeInv, ItemsTyped, RulesReviewed, AppliedHasRule, ArrivedReviewed
<1>4. ItemsInHand'
  BY <1>1, <1>2 DEF IntakeInv, ItemsInHand, Working, Decidable
<1> QED
  BY <1>3, <1>4 DEF IntakeInv

-----------------------------------------------------------------------------
(* The invariant holds in every state of every behaviour.                  *)
THEOREM IntakeInvariant == IntakeSpec => []IntakeInv
<1>1. IntakeInit => IntakeInv
  BY DEF IntakeInit, IntakeInv, ItemsTyped, ItemsInHand, Working, ArrivedReviewed, RulesReviewed,
         AppliedHasRule, Idle
<1>2. IntakeInv /\ [IntakeNext]_intakeVars => IntakeInv'
  <2> SUFFICES ASSUME IntakeInv, [IntakeNext]_intakeVars PROVE IntakeInv'
    OBVIOUS
  <2>1. CASE Upload
    BY <2>1, UploadsKeep, FilingKeeps DEF Upload
  <2>2. CASE \E r \in Requests : Decision(r)
    <3>1. PICK r \in Requests : Decision(r)
      BY <2>2
    <3>2. CASE \E op \in {"approve", "reject", "apply"}, n \in DOMAIN items : Check(r, op, n)
      BY <3>2, CheckKeeps
    <3>3. CASE Ingest(r)
      BY <3>3, IngestKeeps
    <3>4. CASE CommitApprove(r)
      BY <3>4, CommitApproveKeeps
    <3>5. CASE CommitReject(r) \/ CommitConstraint(r)
      BY <3>5, OtherCommitsKeep
    <3>6. CASE RequestFails(r)
      BY <3>6, GivenUpKeeps
    <3> QED
      BY <3>1, <3>2, <3>3, <3>4, <3>5, <3>6 DEF Decision
  <2>3. CASE CrashApi
    BY <2>3, GivenUpKeeps
  <2>4. CASE UNCHANGED intakeVars
    BY <2>4 DEF intakeVars, IntakeInv, ItemsTyped, ItemsInHand, Working, Decidable, ArrivedReviewed,
                RulesReviewed, AppliedHasRule
  <2> QED
    BY <2>1, <2>2, <2>3, <2>4 DEF IntakeNext
<1> QED
  BY <1>1, <1>2, PTL DEF IntakeSpec

(* Nothing of an unknown shape comes in without a person's approval,       *)
(* whatever requests overlap, fail or die half-way (routers/ingestion.py). *)
THEOREM ReviewedFirstCorrect == IntakeSpec => []ReviewedFirst
BY IntakeInvariant, InvImpliesReviewed, PTL

-----------------------------------------------------------------------------
(* Whoever still works on a decided item was at it when it was decided.    *)
LateOK ==
  /\ late \in Seq(SUBSET Requests) /\ Len(late) = Len(items)
  /\ \A r \in Requests :
       (Working(r) /\ items[request[r].item].status # "open") => r \in late[request[r].item]

(* Nothing done outside the requests makes an item decided.                *)
LEMMA LateUploads ==
  ASSUME IntakeInv, LateOK, Upload
  PROVE  LateOK'
<1>1. UNCHANGED request
  BY DEF Upload, UploadFixed, UploadReuse, UploadAsk, UploadPropose, UploadExtract,
         UploadRefused
<1>2. CASE UNCHANGED <<items, late>>
  BY <1>1, <1>2 DEF LateOK, Working
<1>3. CASE UploadPropose \/ UploadExtract
  <2>1. PICK item : items' = Append(items, item)
    BY <1>3 DEF UploadPropose, UploadExtract, Filed
  <2>2. late' = Append(late, {})
    BY <1>3 DEF UploadPropose, UploadExtract, Filed
  <2>3. items \in Seq(Item) /\ late \in Seq(SUBSET Requests) /\ Len(late) = Len(items)
    BY DEF IntakeInv, ItemsTyped, LateOK
  <2>4. /\ late' \in Seq(SUBSET Requests) /\ Len(late') = Len(items')
        /\ \A n \in DOMAIN items : items'[n] = items[n] /\ late'[n] = late[n]
    BY <2>1, <2>2, <2>3
  <2>5. \A r \in Requests : Working(r) => request[r].item \in DOMAIN items
    BY DEF IntakeInv, ItemsInHand
  <2>6. QED
    BY <1>1, <2>4, <2>5 DEF LateOK, Working
<1>4. QED
  BY <1>2, <1>3
  DEF Upload, UploadFixed, UploadReuse, UploadAsk, UploadPropose, UploadExtract, UploadRefused

(* A request that is given up, or that moves on with its open item, keeps  *)
(* it; a new one finds its item open.                                      *)
LEMMA LateInHand ==
  ASSUME IntakeInv, LateOK, NEW r \in Requests,
         \/ \E op \in {"approve", "reject", "apply"}, n \in DOMAIN items : Check(r, op, n)
         \/ Ingest(r) \/ RequestFails(r)
  PROVE  LateOK'
<1>1. UNCHANGED <<items, late>>
  BY DEF Check, Ingest, RequestFails
<1>2. \A q \in Requests \ {r} : request'[q] = request[q]
  BY DEF Check, Ingest, RequestFails, IntakeInv, ItemsTyped
<1>3. \/ items[request'[r].item].status = "open"
      \/ Working(r) /\ request'[r].item = request[r].item
  <2>1. CASE \E op \in {"approve", "reject", "apply"}, n \in DOMAIN items : Check(r, op, n)
    BY <2>1 DEF Check, IntakeInv, ItemsTyped
  <2>2. CASE Ingest(r) \/ RequestFails(r)
    BY <2>2 DEF Ingest, RequestFails, Working, IntakeInv, ItemsTyped
  <2>3. QED
    BY <2>1, <2>2
<1>4. QED
  BY <1>1, <1>2, <1>3 DEF LateOK, Working

(* A decision that is the first of its item records who is under way.      *)
LEMMA LateSettled ==
  ASSUME IntakeInv, LateOK, NEW r \in Requests, Working(r),
         NEW verdict \in {"applied", "rejected"}, Settle(r, verdict)
  PROVE  LateOK'
<1> DEFINE n == request[r].item
<1>1. /\ n \in DOMAIN items /\ items \in Seq(Item)
      /\ late \in Seq(SUBSET Requests) /\ Len(late) = Len(items)
      /\ items' = [items EXCEPT ![n].status = verdict]
      /\ late' = [late EXCEPT ![n] = IF items[n].status = "open" THEN Under(n) \ {r} ELSE @]
  BY DEF Settle, IntakeInv, ItemsTyped, ItemsInHand, LateOK
<1>2. /\ request'[r].pc = "done"
      /\ \A q \in Requests \ {r} : request'[q] = request[q]
  BY DEF Settle, IntakeInv, ItemsTyped
<1>3. Under(n) \in SUBSET Requests
  BY DEF Under
<1> HIDE DEF n
<1>4. late' \in Seq(SUBSET Requests) /\ Len(late') = Len(items')
  BY <1>1, <1>3
<1>5. \A k \in DOMAIN items \ {n} : items'[k] = items[k] /\ late'[k] = late[k]
  BY <1>1
<1>6. late'[n] = IF items[n].status = "open" THEN Under(n) \ {r} ELSE late[n]
  BY <1>1
<1>7. ASSUME NEW q \in Requests, Working(q)', items'[request'[q].item].status # "open"
      PROVE  q \in late'[request'[q].item]
  <2>1. q # r /\ request'[q] = request[q] /\ Working(q)
    BY <1>2, <1>7 DEF Working
  <2>2. request[q].item \in DOMAIN items
    BY <2>1 DEF IntakeInv, ItemsInHand
  <2>3. CASE request[q].item # n
    BY <1>5, <1>7, <2>1, <2>2, <2>3 DEF LateOK
  <2>4. CASE request[q].item = n
    BY <1>6, <2>1, <2>4 DEF LateOK, Under, Working
  <2>5. QED
    BY <2>3, <2>4
<1>8. QED
  BY <1>4, <1>7 DEF LateOK

(* Every step keeps it.                                                    *)
LEMMA LateStep ==
  ASSUME IntakeInv, LateOK, [IntakeNext]_intakeVars
  PROVE  LateOK'
<1>1. CASE Upload
  BY <1>1, LateUploads
<1>2. ASSUME NEW r \in Requests, Decision(r) PROVE LateOK'
  <2>1. CASE CommitApprove(r)
    BY <2>1, LateSettled DEF CommitApprove, Working
  <2>2. CASE CommitReject(r)
    BY <2>2, LateSettled DEF CommitReject, Working
  <2>3. CASE CommitConstraint(r)
    BY <2>3, LateSettled DEF CommitConstraint, Working
  <2>4. QED
    BY <1>2, <2>1, <2>2, <2>3, LateInHand DEF Decision
<1>3. CASE CrashApi
  <2>1. UNCHANGED <<items, late>>
    BY <1>3 DEF CrashApi
  <2>2. request' = [r \in Requests |->
          IF request[r].pc = "idle" THEN Idle ELSE [request[r] EXCEPT !.pc = "done"]]
    BY <1>3 DEF CrashApi
  <2>3. \A r \in Requests : request'[r].pc \in {"idle", "done"}
    BY <2>2 DEF Idle, IntakeInv, ItemsTyped
  <2>4. QED
    BY <2>1, <2>3 DEF LateOK, Working
<1>4. CASE UNCHANGED intakeVars
  BY <1>4 DEF LateOK, Working, intakeVars
<1>5. QED
  BY <1>1, <1>2, <1>3, <1>4 DEF IntakeNext

(* What a step does to an item is done by a request that works on it.      *)
LEMMA EffectsOwned ==
  ASSUME IntakeInv, IntakeNext, NEW n \in DOMAIN items, Effects(n)' # Effects(n)
  PROVE  \E r \in Requests : Working(r) /\ request[r].item = n /\ request'[r] # request[r]
<1>1. n \in Nat \ {0} /\ items \in Seq(Item)
  BY DEF IntakeInv, ItemsTyped
<1>2. ASSUME Upload PROVE FALSE
  <2>1. items'[n] = items[n]
    <3>1. CASE UNCHANGED items
      BY <3>1
    <3>2. CASE \E item : items' = Append(items, item)
      BY <1>1, <3>2
    <3>3. QED
      BY <1>2, <3>1, <3>2
      DEF Upload, UploadFixed, UploadReuse, UploadAsk, UploadPropose, UploadExtract,
          UploadRefused, Filed
  <2>2. \A rows : rows.item = n => (rows \in arrived' <=> rows \in arrived)
    <3>1. \A f, mapping, via : Rows(f, mapping, via, 0).item = 0
      BY DEF Rows
    <3>2. \/ arrived' = arrived
          \/ \E f, mapping, via : arrived' = arrived \union {Rows(f, mapping, via, 0)}
      <4>1. CASE \E f \in Fixed : UploadFixed(f)
        BY <4>1 DEF UploadFixed
      <4>2. CASE \E f \in Tables : UploadReuse(f)
        BY <4>2 DEF UploadReuse
      <4>3. QED
        BY <1>2, <4>1, <4>2
        DEF Upload, UploadAsk, UploadPropose, UploadExtract, UploadRefused
    <3>3. QED
      BY <1>1, <3>1, <3>2
  <2>3. UNCHANGED constraints
    BY <1>2 DEF Upload, UploadFixed, UploadReuse, UploadAsk, UploadPropose, UploadExtract,
                UploadRefused
  <2>4. {rows \in arrived' : rows.item = n} = {rows \in arrived : rows.item = n}
    BY <2>2
  <2>5. QED
    BY <2>1, <2>3, <2>4 DEF Effects
<1>3. ASSUME NEW r \in Requests, Decision(r)
      PROVE  Working(r) /\ request[r].item = n /\ request'[r] # request[r]
  <2>1. ~(UNCHANGED <<items, constraints, arrived>>)
    BY DEF Effects
  <2>2. Ingest(r) \/ CommitApprove(r) \/ CommitReject(r) \/ CommitConstraint(r)
    BY <1>3, <2>1 DEF Decision, Check, RequestFails
  <2>3. Working(r)
    BY <2>2 DEF Working, Ingest, CommitApprove, CommitReject, CommitConstraint
  <2>4. request'[r].pc # request[r].pc
    BY <2>2 DEF Ingest, CommitApprove, CommitReject, CommitConstraint, Settle, IntakeInv, ItemsTyped
  <2>5. ASSUME request[r].item # n PROVE FALSE
    <3>1. items'[n] = items[n]
      BY <1>1, <2>2, <2>5 DEF Ingest, CommitApprove, CommitReject, CommitConstraint, Settle
    <3>2. \A rows : rows.item = n => (rows \in arrived' <=> rows \in arrived)
      <4>1. \A f, mapping, via : Rows(f, mapping, via, request[r].item).item # n
        BY <2>5 DEF Rows
      <4>2. \/ arrived' = arrived
            \/ \E f, mapping, via :
                 arrived' = arrived \union {Rows(f, mapping, via, request[r].item)}
        <5>1. CASE Ingest(r)
          BY <5>1 DEF Ingest
        <5>2. CASE CommitApprove(r)
          BY <5>2 DEF CommitApprove
        <5>3. CASE CommitReject(r) \/ CommitConstraint(r)
          BY <5>3 DEF CommitReject, CommitConstraint
        <5>4. QED
          BY <2>2, <5>1, <5>2, <5>3
      <4>3. QED
        BY <4>1, <4>2
    <3>3. \A c : c.document = n => (c \in constraints' <=> c \in constraints)
      BY <2>2, <2>5 DEF Ingest, CommitApprove, CommitReject, CommitConstraint
    <3>4. {rows \in arrived' : rows.item = n} = {rows \in arrived : rows.item = n}
      BY <3>2
    <3>5. {c \in constraints' : c.document = n} = {c \in constraints : c.document = n}
      BY <3>3
    <3>6. QED
      BY <3>1, <3>4, <3>5 DEF Effects
  <2>6. QED
    BY <2>3, <2>4, <2>5
<1>4. ~CrashApi
  BY DEF CrashApi, Effects
<1>5. QED
  BY <1>2, <1>3, <1>4 DEF IntakeNext

(* A decided proposal or document has a further outcome, rows or a         *)
(* constraint only from requests that were under way when it was decided,  *)
(* for any number of them (routers/ingestion.py).                          *)
THEOREM DecidedOnceCorrect == IntakeSpec => DecidedOnce
<1> DEFINE Once ==
      \A n \in DOMAIN items :
        (items[n].status # "open" /\ Effects(n)' # Effects(n)) =>
          \E r \in late[n] : request'[r] # request[r]
<1>1. IntakeInit => LateOK
  BY DEF IntakeInit, LateOK, Working, Idle
<1>2. IntakeInv /\ LateOK /\ [IntakeNext]_intakeVars => LateOK'
  BY LateStep
<1>3. IntakeInv /\ LateOK /\ [IntakeNext]_intakeVars => [Once]_intakeVars
  BY EffectsOwned DEF LateOK
<1>4. IntakeSpec => [][Once]_intakeVars
  BY <1>1, <1>2, <1>3, IntakeInvariant, PTL DEF IntakeSpec
<1>5. QED
  BY <1>4 DEF DecidedOnce

-----------------------------------------------------------------------------
(* Registry: OneGrid.  The invariant says of every row, drafted or         *)
(* committed, what its check had established and still holds: the rows it  *)
(* saw exist, and such of them as no patch has touched clash with it       *)
(* neither in name nor in kind.  And it counts portfolios by the sites that*)
(* saw no other.                                                           *)

AssetRow == [state : {"none", "active", "retired"}, kind : AssetKinds \union {"none"},
             name : Labels \union {"none"}, saw : SUBSET Entries]
SiteRow == [state : {"none", "active"}, kind : {"none", "site"},
            name : Labels \union {"none"}, saw : SUBSET SiteRows]
NoDraft == [on |-> FALSE]
AssetDraft == [on : {TRUE}, row : {r \in AssetRow : r.state = "active"}]
SiteDraft == [on : {TRUE}, first : BOOLEAN, row : {r \in SiteRow : r.state = "active"}]

RowsTyped ==
  /\ asset \in [Entries -> AssetRow] /\ site \in [SiteRows -> SiteRow]
  /\ portfolios \in Nat /\ touched \subseteq Entries
  /\ drafting = [x \in Entries \union SiteRows |-> drafting[x]]
  /\ \A e \in Entries : drafting[e] = NoDraft \/ drafting[e] \in AssetDraft
  /\ \A s \in SiteRows : drafting[s] = NoDraft \/ drafting[s] \in SiteDraft

(* What the check of a row established of a row it saw, and still holds.   *)
AssetClear(row, rows, patched) ==
  \A a \in row.saw :
    /\ rows[a].state # "none"
    /\ a \notin patched =>
         /\ rows[a].name # row.name
         /\ ~(row.kind = "grid_interconnection" /\ rows[a].kind = "grid_interconnection")

SiteClear(row, rows) ==
  \A k \in row.saw : rows[k].state = "active" /\ rows[k].name # row.name

(* A row is drafted before it exists, and its check goes on to hold.       *)
AssetsOk ==
  \A e \in Entries :
    /\ drafting[e].on => /\ asset[e].state = "none"
                         /\ AssetClear(drafting[e].row, asset, touched)
    /\ (asset[e].state # "none" /\ e \notin touched) => AssetClear(asset[e], asset, touched)

(* Each portfolio was made by a site that saw none.                        *)
Founders == {s \in SiteRows : site[s].state = "active" /\ site[s].saw = {}}

FoundersOk ==
  /\ (\E s \in SiteRows : site[s].state = "active") => portfolios > 0
  /\ \A s \in SiteRows :
       /\ (drafting[s].on /\ ~drafting[s].first) => portfolios > 0
       /\ (drafting[s].on /\ drafting[s].first) => drafting[s].row.saw = {}
  /\ portfolios > 0 => \E s \in Founders : TRUE
  /\ portfolios > 1 => \E s, t \in Founders : s # t

SitesOk ==
  /\ \A s \in SiteRows :
       /\ drafting[s].on => site[s].state = "none" /\ SiteClear(drafting[s].row, site)
       /\ site[s].state = "active" => SiteClear(site[s], site)
  /\ FoundersOk

RegistryInv == RowsTyped /\ AssetsOk /\ SitesOk

LEMMA AssetDraftFacts ==
  ASSUME NEW d, d = NoDraft \/ d \in AssetDraft, d.on
  PROVE  d \in AssetDraft /\ d.row \in AssetRow /\ d.row.state = "active"
<1>1. d # NoDraft
  BY DEF NoDraft
<1>2. d \in AssetDraft
  BY <1>1
<1>3. d.row \in {r \in AssetRow : r.state = "active"}
  BY <1>2 DEF AssetDraft
<1> QED
  BY <1>2, <1>3

LEMMA SiteDraftFacts ==
  ASSUME NEW d, d = NoDraft \/ d \in SiteDraft, d.on
  PROVE  /\ d \in SiteDraft /\ d.row \in SiteRow /\ d.row.state = "active"
         /\ d.first \in BOOLEAN
<1>1. d # NoDraft
  BY DEF NoDraft
<1>2. d \in SiteDraft
  BY <1>1
<1>3. d.row \in {r \in SiteRow : r.state = "active"} /\ d.first \in BOOLEAN
  BY <1>2 DEF SiteDraft
<1> QED
  BY <1>2, <1>3

-----------------------------------------------------------------------------
(* The invariant implies the property.                                     *)
LEMMA InvImpliesOneGrid == RegistryInv => OneGrid
<1> SUFFICES ASSUME RegistryInv PROVE OneGrid
  OBVIOUS
<1>1. ASSUME NEW a \in InService, NEW b \in InService, a # b,
             \/ asset[a].name = asset[b].name
             \/ asset[a].kind = "grid_interconnection" /\ asset[b].kind = asset[a].kind
      PROVE  a \in touched \/ b \in touched \/ Overlapped(asset, a, b)
  <2>1. a \in Entries /\ b \in Entries /\ asset[a].state = "active" /\ asset[b].state = "active"
    BY DEF InService
  <2>2. CASE a \notin touched /\ b \notin touched
    <3>1. AssetClear(asset[a], asset, touched) /\ AssetClear(asset[b], asset, touched)
      BY <2>1, <2>2 DEF RegistryInv, AssetsOk
    <3>2. a \notin asset[b].saw
      BY <3>1, <2>2, <1>1 DEF AssetClear
    <3>3. b \notin asset[a].saw
      BY <3>1, <2>2, <1>1 DEF AssetClear
    <3> QED
      BY <3>2, <3>3 DEF Overlapped
  <2> QED
    BY <2>2
<1>2. ASSUME NEW s \in Known, NEW t \in Known, s # t, site[s].name = site[t].name
      PROVE  Overlapped(site, s, t)
  <2>1. SiteClear(site[s], site) /\ SiteClear(site[t], site)
    BY DEF Known, RegistryInv, SitesOk
  <2>2. s \notin site[t].saw /\ t \notin site[s].saw
    BY <2>1, <1>2 DEF SiteClear
  <2> QED
    BY <2>2 DEF Overlapped
<1>3. ASSUME portfolios > 1 PROVE \E s, t \in Known : s # t /\ Overlapped(site, s, t)
  <2>1. PICK s \in Founders, t \in Founders : s # t
    BY <1>3 DEF RegistryInv, SitesOk, FoundersOk
  <2>2. s \in Known /\ t \in Known /\ Overlapped(site, s, t)
    BY DEF Founders, Known, Overlapped
  <2> QED
    BY <2>1, <2>2
<1> QED
  BY <1>1, <1>2, <1>3 DEF OneGrid

-----------------------------------------------------------------------------
(* Sites stand still in the steps of assets, and assets in those of sites. *)
SitesSame == /\ UNCHANGED <<site, portfolios>>
             /\ \A s \in SiteRows : drafting'[s] = drafting[s]

AssetsSame == /\ UNCHANGED <<asset, touched>>
              /\ \A e \in Entries : drafting'[e] = drafting[e]

LEMMA SitesKept == ASSUME SitesOk, SitesSame PROVE SitesOk'
<1>1. FoundersOk'
  BY DEF SitesOk, SitesSame, FoundersOk, Founders
<1> QED
  BY <1>1 DEF SitesOk, SitesSame

LEMMA AssetsKept == ASSUME AssetsOk, AssetsSame PROVE AssetsOk'
BY DEF AssetsOk, AssetsSame

-----------------------------------------------------------------------------
(* Steps of an asset.                                                      *)
LEMMA DraftAssetKeeps ==
  ASSUME RegistryInv, NEW e \in Entries, DraftAsset(e)
  PROVE  RegistryInv'
<1>1. PICK kind \in AssetKinds, name \in Labels, spec \in {"none", "sound", "unsound"} :
        /\ MayCreate(kind, name, spec)
        /\ drafting' = [drafting EXCEPT ![e] =
             [on |-> TRUE, row |-> [state |-> "active", kind |-> kind, name |-> name,
                                    saw |-> InService]]]
  BY DEF DraftAsset
<1>2. asset[e].state = "none" /\ UNCHANGED <<asset, site, portfolios, touched>>
  BY DEF DraftAsset
<1>3. PICK row : row = [state |-> "active", kind |-> kind, name |-> name, saw |-> InService]
  OBVIOUS
<1>4. row \in AssetRow /\ row.state = "active" /\ AssetClear(row, asset, touched)
  <2>1. row \in AssetRow /\ row.state = "active"
    BY <1>3 DEF AssetRow, InService
  <2>2. ASSUME NEW a \in InService
        PROVE  /\ asset[a].state # "none" /\ asset[a].name # name
               /\ ~(kind = "grid_interconnection" /\ asset[a].kind = "grid_interconnection")
    BY <1>1 DEF MayCreate, InService
  <2>3. row.saw = InService /\ row.name = name /\ row.kind = kind
    BY <1>3
  <2> QED
    BY <2>1, <2>2, <2>3 DEF AssetClear
<1>5. drafting' = [x \in Entries \union SiteRows |->
                     IF x = e THEN [on |-> TRUE, row |-> row] ELSE drafting[x]]
  BY <1>1, <1>3 DEF RegistryInv, RowsTyped
<1>6. SitesSame
  BY <1>2, <1>5, RegistryAssumption DEF SitesSame
<1>7. RowsTyped'
  <2>1. [on |-> TRUE, row |-> row] \in AssetDraft
    BY <1>4 DEF AssetDraft
  <2>2. \A x \in Entries : drafting'[x] = NoDraft \/ drafting'[x] \in AssetDraft
    BY <1>5, <2>1 DEF RegistryInv, RowsTyped
  <2>3. \A s \in SiteRows : drafting'[s] = NoDraft \/ drafting'[s] \in SiteDraft
    BY <1>6 DEF SitesSame, RegistryInv, RowsTyped
  <2>4. drafting' = [x \in Entries \union SiteRows |-> drafting'[x]]
    BY <1>5
  <2> QED
    BY <2>2, <2>3, <2>4, <1>2 DEF RegistryInv, RowsTyped
<1>8. AssetsOk'
  <2>1. drafting'[e].row = row
    BY <1>5
  <2>2. \A x \in Entries : x # e => drafting'[x] = drafting[x]
    BY <1>5
  <2> QED
    BY <2>1, <2>2, <1>2, <1>4 DEF AssetsOk, RegistryInv
<1>9. SitesOk'
  BY <1>6, SitesKept DEF RegistryInv
<1> QED
  BY <1>7, <1>8, <1>9 DEF RegistryInv

LEMMA CommitAssetKeeps ==
  ASSUME RegistryInv, NEW e \in Entries, CommitAsset(e)
  PROVE  RegistryInv'
<1>1. drafting[e].on /\ UNCHANGED <<site, portfolios, touched>>
  BY DEF CommitAsset
<1>2. PICK row : row = drafting[e].row
  OBVIOUS
<1>3. row \in AssetRow /\ AssetClear(row, asset, touched) /\ asset[e].state = "none"
  BY <1>1, <1>2, AssetDraftFacts DEF RegistryInv, RowsTyped, AssetsOk
<1>4. asset' = [x \in Entries |-> IF x = e THEN row ELSE asset[x]]
  BY <1>2 DEF CommitAsset, RegistryInv, RowsTyped
<1>5. drafting' = [x \in Entries \union SiteRows |-> IF x = e THEN NoDraft ELSE drafting[x]]
  BY DEF CommitAsset, RegistryInv, RowsTyped, NoDraft
<1>6. SitesSame
  BY <1>1, <1>5, RegistryAssumption DEF SitesSame
<1>7. RowsTyped'
  <2>1. asset' \in [Entries -> AssetRow]
    BY <1>3, <1>4 DEF RegistryInv, RowsTyped
  <2>2. \A x \in Entries : drafting'[x] = NoDraft \/ drafting'[x] \in AssetDraft
    BY <1>5 DEF RegistryInv, RowsTyped
  <2>3. \A s \in SiteRows : drafting'[s] = NoDraft \/ drafting'[s] \in SiteDraft
    BY <1>6 DEF SitesSame, RegistryInv, RowsTyped
  <2>4. drafting' = [x \in Entries \union SiteRows |-> drafting'[x]]
    BY <1>5
  <2> QED
    BY <2>1, <2>2, <2>3, <2>4, <1>1, <1>6 DEF RegistryInv, RowsTyped, SitesSame
<1>8. ASSUME NEW r \in AssetRow, AssetClear(r, asset, touched)
      PROVE  AssetClear(r, asset', touched')
  <2>1. ASSUME NEW a \in r.saw PROVE asset'[a] = asset[a]
    <3>1. a \in Entries /\ a # e
      BY <1>3, <1>8 DEF AssetClear, AssetRow
    <3> QED
      BY <3>1, <1>4
  <2> QED
    BY <2>1, <1>1, <1>8 DEF AssetClear
<1>9. AssetsOk'
  <2>1. ~drafting'[e].on /\ asset'[e] = row
    BY <1>4, <1>5 DEF NoDraft
  <2>2. AssetClear(asset'[e], asset', touched')
    BY <2>1, <1>3, <1>8
  <2>3. ASSUME NEW x \in Entries, x # e
        PROVE  /\ drafting'[x].on => /\ asset'[x].state = "none"
                                     /\ AssetClear(drafting'[x].row, asset', touched')
               /\ (asset'[x].state # "none" /\ x \notin touched') =>
                    AssetClear(asset'[x], asset', touched')
    <3>1. drafting'[x] = drafting[x] /\ asset'[x] = asset[x]
      BY <2>3, <1>4, <1>5
    <3>2. asset[x] \in AssetRow
      BY DEF RegistryInv, RowsTyped
    <3>3. drafting[x].on => drafting[x].row \in AssetRow
      BY AssetDraftFacts DEF RegistryInv, RowsTyped
    <3> QED
      BY <3>1, <3>2, <3>3, <1>1, <1>8 DEF RegistryInv, AssetsOk
  <2> QED
    BY <2>1, <2>2, <2>3 DEF AssetsOk
<1>10. SitesOk'
  BY <1>6, SitesKept DEF RegistryInv
<1> QED
  BY <1>7, <1>9, <1>10 DEF RegistryInv

(* A patch that renames an asset or brings it back touches it.             *)
LEMMA PatchAssetKeeps ==
  ASSUME RegistryInv, NEW e \in Entries, PatchAsset(e)
  PROVE  RegistryInv'
<1>1. asset[e].state # "none" /\ UNCHANGED <<site, portfolios, drafting>>
  BY DEF PatchAsset
<1>2. asset[e] \in AssetRow
  BY DEF RegistryInv, RowsTyped
<1> DEFINE Patched(row) ==
      /\ asset' = [asset EXCEPT ![e] = row] /\ row \in AssetRow
      /\ row.state # "none" /\ row.kind = asset[e].kind /\ row.saw = asset[e].saw
      /\ \/ touched' = touched \union {e}
         \/ touched' = touched /\ row.name = asset[e].name
<1>3. PICK row : Patched(row)
  <2>1. CASE \E name \in Labels \ {asset[e].name} :
               asset' = [asset EXCEPT ![e].name = name] /\ touched' = touched \union {e}
    <3>1. PICK name \in Labels : /\ asset' = [asset EXCEPT ![e].name = name]
                                 /\ touched' = touched \union {e}
      BY <2>1
    <3>2. asset' = [asset EXCEPT ![e] = [asset[e] EXCEPT !.name = name]]
      BY <3>1
    <3>3. /\ [asset[e] EXCEPT !.name = name] \in AssetRow
          /\ [asset[e] EXCEPT !.name = name].state = asset[e].state
          /\ [asset[e] EXCEPT !.name = name].kind = asset[e].kind
          /\ [asset[e] EXCEPT !.name = name].saw = asset[e].saw
      BY <1>2 DEF AssetRow
    <3> QED
      BY <3>1, <3>2, <3>3, <1>1
  <2>2. ASSUME NEW state \in {"active", "retired"},
               asset' = [asset EXCEPT ![e].state = state],
               touched' = touched \union {e} \/ touched' = touched
        PROVE  \E row : Patched(row)
    <3>1. asset' = [asset EXCEPT ![e] = [asset[e] EXCEPT !.state = state]]
      BY <2>2
    <3>2. /\ [asset[e] EXCEPT !.state = state] \in AssetRow
          /\ [asset[e] EXCEPT !.state = state].state # "none"
          /\ [asset[e] EXCEPT !.state = state].name = asset[e].name
          /\ [asset[e] EXCEPT !.state = state].kind = asset[e].kind
          /\ [asset[e] EXCEPT !.state = state].saw = asset[e].saw
      BY <1>2 DEF AssetRow
    <3> QED
      BY <3>1, <3>2, <2>2
  <2> QED
    BY <2>1, <2>2 DEF PatchAsset
<1>4. asset' = [x \in Entries |-> IF x = e THEN row ELSE asset[x]]
  BY <1>3 DEF RegistryInv, RowsTyped
<1>5. RowsTyped'
  <2>1. asset' \in [Entries -> AssetRow]
    BY <1>3, <1>4 DEF RegistryInv, RowsTyped
  <2>2. touched' \subseteq Entries
    BY <1>3 DEF RegistryInv, RowsTyped
  <2> QED
    BY <2>1, <2>2, <1>1 DEF RegistryInv, RowsTyped
<1>6. ASSUME NEW r \in AssetRow, AssetClear(r, asset, touched)
      PROVE  AssetClear(r, asset', touched')
  <2>1. ASSUME NEW a \in r.saw
        PROVE  /\ asset'[a].state # "none"
               /\ a \notin touched' =>
                    /\ a \notin touched /\ asset'[a].name = asset[a].name
                    /\ asset'[a].kind = asset[a].kind
    <3>1. a \in Entries /\ asset[a].state # "none"
      BY <1>6 DEF AssetClear, AssetRow
    <3>2. CASE a = e
      BY <3>2, <1>3, <1>4
    <3>3. CASE a # e
      BY <3>1, <3>3, <1>3, <1>4
    <3> QED
      BY <3>2, <3>3
  <2> QED
    BY <2>1, <1>6 DEF AssetClear
<1>7. AssetsOk'
  <2>1. ASSUME NEW x \in Entries, drafting'[x].on
        PROVE  asset'[x].state = "none" /\ AssetClear(drafting'[x].row, asset', touched')
    <3>1. drafting'[x] = drafting[x] /\ drafting[x].on
      BY <2>1, <1>1
    <3>2. /\ asset[x].state = "none" /\ AssetClear(drafting[x].row, asset, touched)
          /\ drafting[x].row \in AssetRow
      BY <3>1, AssetDraftFacts DEF RegistryInv, RowsTyped, AssetsOk
    <3>3. x # e
      BY <3>2, <1>1
    <3> QED
      BY <3>1, <3>2, <3>3, <1>4, <1>6
  <2>2. ASSUME NEW x \in Entries, asset'[x].state # "none", x \notin touched'
        PROVE  AssetClear(asset'[x], asset', touched')
    <3>1. /\ x \notin touched /\ asset'[x].saw = asset[x].saw
          /\ asset'[x].name = asset[x].name /\ asset'[x].kind = asset[x].kind
          /\ asset[x].state # "none"
      <4>1. CASE x = e
        BY <4>1, <2>2, <1>1, <1>3, <1>4
      <4>2. CASE x # e
        BY <4>2, <2>2, <1>3, <1>4
      <4> QED
        BY <4>1, <4>2
    <3>2. asset[x] \in AssetRow /\ AssetClear(asset[x], asset, touched)
      BY <3>1 DEF RegistryInv, RowsTyped, AssetsOk
    <3>3. AssetClear(asset[x], asset', touched')
      BY <3>2, <1>6
    <3> QED
      BY <3>1, <3>3 DEF AssetClear
  <2> QED
    BY <2>1, <2>2 DEF AssetsOk
<1>8. SitesOk'
  BY <1>1, SitesKept DEF SitesSame, RegistryInv
<1> QED
  BY <1>5, <1>7, <1>8 DEF RegistryInv

-----------------------------------------------------------------------------
(* Steps of a site, and a creation that comes to nothing.                  *)
LEMMA DraftLostKeeps ==
  ASSUME RegistryInv, NEW x \in Entries \union SiteRows, DraftLost(x)
  PROVE  RegistryInv'
<1>1. UNCHANGED <<asset, site, portfolios, touched>>
  BY DEF DraftLost
<1>2. drafting' = [y \in Entries \union SiteRows |-> IF y = x THEN NoDraft ELSE drafting[y]]
  BY DEF DraftLost, RegistryInv, RowsTyped, NoDraft
<1>3. \A y \in Entries \union SiteRows :
        drafting'[y] = NoDraft \/ drafting'[y] = drafting[y]
  BY <1>2
<1>4. RowsTyped'
  <2>1. drafting' = [y \in Entries \union SiteRows |-> drafting'[y]]
    BY <1>2
  <2> QED
    BY <2>1, <1>1, <1>3 DEF RegistryInv, RowsTyped
<1>5. \A y \in Entries \union SiteRows :
        drafting'[y].on => drafting[y].on /\ drafting'[y] = drafting[y]
  BY <1>3 DEF NoDraft
<1>6. AssetsOk'
  BY <1>1, <1>5 DEF RegistryInv, AssetsOk
<1>7. SitesOk'
  <2>1. FoundersOk'
    BY <1>1, <1>5 DEF RegistryInv, SitesOk, FoundersOk, Founders
  <2> QED
    BY <2>1, <1>1, <1>5 DEF RegistryInv, SitesOk
<1> QED
  BY <1>4, <1>6, <1>7 DEF RegistryInv

LEMMA DraftSiteKeeps ==
  ASSUME RegistryInv, NEW s \in SiteRows, DraftSite(s)
  PROVE  RegistryInv'
<1>1. PICK name \in Labels :
        /\ \A k \in Known : site[k].name # name
        /\ drafting' = [drafting EXCEPT ![s] =
             [on |-> TRUE, first |-> portfolios = 0,
              row |-> [state |-> "active", kind |-> "site", name |-> name, saw |-> Known]]]
  BY DEF DraftSite
<1>2. site[s].state = "none" /\ UNCHANGED <<asset, site, portfolios, touched>>
  BY DEF DraftSite
<1>3. PICK row : row = [state |-> "active", kind |-> "site", name |-> name, saw |-> Known]
  OBVIOUS
<1>4. PICK draft : draft = [on |-> TRUE, first |-> portfolios = 0, row |-> row]
  OBVIOUS
<1>5. row \in SiteRow /\ row.state = "active" /\ SiteClear(row, site)
  BY <1>1, <1>3 DEF SiteRow, Known, SiteClear
<1>6. draft \in SiteDraft /\ draft.on /\ draft.row = row /\ (draft.first <=> portfolios = 0)
  BY <1>4, <1>5 DEF SiteDraft
<1>7. drafting' = [x \in Entries \union SiteRows |-> IF x = s THEN draft ELSE drafting[x]]
  BY <1>1, <1>3, <1>4 DEF RegistryInv, RowsTyped
<1>8. AssetsSame
  BY <1>2, <1>7, RegistryAssumption DEF AssetsSame
<1>9. RowsTyped'
  <2>1. \A x \in SiteRows : drafting'[x] = NoDraft \/ drafting'[x] \in SiteDraft
    BY <1>6, <1>7 DEF RegistryInv, RowsTyped
  <2>2. \A x \in Entries : drafting'[x] = NoDraft \/ drafting'[x] \in AssetDraft
    BY <1>8 DEF AssetsSame, RegistryInv, RowsTyped
  <2>3. drafting' = [x \in Entries \union SiteRows |-> drafting'[x]]
    BY <1>7
  <2> QED
    BY <2>1, <2>2, <2>3, <1>2 DEF RegistryInv, RowsTyped
<1>10. drafting'[s] = draft /\ \A x \in SiteRows : x # s => drafting'[x] = drafting[x]
  BY <1>7
<1>11. FoundersOk'
  <2>1. portfolios = 0 => row.saw = {}
    <3>1. portfolios = 0 => Known = {}
      BY DEF RegistryInv, SitesOk, FoundersOk, Known, RowsTyped
    <3> QED
      BY <3>1, <1>3
  <2>2. portfolios # 0 => portfolios > 0
    BY DEF RegistryInv, RowsTyped
  <2>3. ASSUME NEW x \in SiteRows
        PROVE  /\ (drafting'[x].on /\ ~drafting'[x].first) => portfolios' > 0
               /\ (drafting'[x].on /\ drafting'[x].first) => drafting'[x].row.saw = {}
    <3>1. CASE x = s
      BY <3>1, <2>1, <2>2, <1>2, <1>6, <1>10
    <3>2. CASE x # s
      BY <3>2, <1>2, <1>10 DEF RegistryInv, SitesOk, FoundersOk
    <3> QED
      BY <3>1, <3>2
  <2> QED
    BY <2>3, <1>2 DEF RegistryInv, SitesOk, FoundersOk, Founders
<1>12. SitesOk'
  BY <1>2, <1>5, <1>6, <1>10, <1>11 DEF RegistryInv, SitesOk
<1>13. AssetsOk'
  BY <1>8, AssetsKept DEF RegistryInv
<1> QED
  BY <1>9, <1>12, <1>13 DEF RegistryInv

LEMMA CommitSiteKeeps ==
  ASSUME RegistryInv, NEW s \in SiteRows, CommitSite(s)
  PROVE  RegistryInv'
<1>1. /\ drafting[s].on /\ UNCHANGED <<asset, touched>>
      /\ portfolios' = portfolios + IF drafting[s].first THEN 1 ELSE 0
  BY DEF CommitSite
<1>2. PICK row : row = drafting[s].row
  OBVIOUS
<1>3. /\ row \in SiteRow /\ row.state = "active" /\ drafting[s].first \in BOOLEAN
      /\ site[s].state = "none" /\ SiteClear(row, site)
  BY <1>1, <1>2, SiteDraftFacts DEF RegistryInv, RowsTyped, SitesOk
<1>4. site' = [x \in SiteRows |-> IF x = s THEN row ELSE site[x]]
  BY <1>2 DEF CommitSite, RegistryInv, RowsTyped
<1>5. drafting' = [x \in Entries \union SiteRows |-> IF x = s THEN NoDraft ELSE drafting[x]]
  BY DEF CommitSite, RegistryInv, RowsTyped, NoDraft
<1>6. AssetsSame
  BY <1>1, <1>5, RegistryAssumption DEF AssetsSame
<1>7. /\ portfolios \in Nat
      /\ drafting[s].first => portfolios' = portfolios + 1
      /\ ~drafting[s].first => portfolios' = portfolios /\ portfolios > 0
  BY <1>1 DEF RegistryInv, RowsTyped, SitesOk, FoundersOk
<1>8. RowsTyped'
  <2>1. site' \in [SiteRows -> SiteRow] /\ portfolios' \in Nat
    BY <1>3, <1>4, <1>7 DEF RegistryInv, RowsTyped
  <2>2. \A x \in SiteRows : drafting'[x] = NoDraft \/ drafting'[x] \in SiteDraft
    BY <1>5 DEF RegistryInv, RowsTyped
  <2>3. \A x \in Entries : drafting'[x] = NoDraft \/ drafting'[x] \in AssetDraft
    BY <1>6 DEF AssetsSame, RegistryInv, RowsTyped
  <2>4. drafting' = [x \in Entries \union SiteRows |-> drafting'[x]]
    BY <1>5
  <2> QED
    BY <2>1, <2>2, <2>3, <2>4, <1>1 DEF RegistryInv, RowsTyped
<1>9. ASSUME NEW r \in SiteRow, SiteClear(r, site) PROVE SiteClear(r, site')
  <2>1. ASSUME NEW k \in r.saw PROVE site'[k] = site[k]
    <3>1. k \in SiteRows /\ k # s
      BY <1>3, <1>9 DEF SiteClear, SiteRow
    <3> QED
      BY <3>1, <1>4
  <2> QED
    BY <2>1, <1>9 DEF SiteClear
<1>10. ~drafting'[s].on /\ site'[s] = row
  BY <1>4, <1>5 DEF NoDraft
<1>11. \A x \in SiteRows : x # s => drafting'[x] = drafting[x] /\ site'[x] = site[x]
  BY <1>4, <1>5
<1>12. FoundersOk'
  <2>1. portfolios' > 0
    BY <1>3, <1>7
  <2>2. Founders \subseteq Founders' /\ s \notin Founders
    BY <1>3, <1>11 DEF Founders
  <2>3. drafting[s].first => s \in Founders'
    BY <1>1, <1>2, <1>3, <1>10 DEF RegistryInv, SitesOk, FoundersOk, Founders
  <2>4. portfolios' > 0 => \E x \in Founders' : TRUE
    BY <2>2, <2>3, <1>3, <1>7 DEF RegistryInv, SitesOk, FoundersOk
  <2>5. portfolios' > 1 => \E x, y \in Founders' : x # y
    <3>1. CASE drafting[s].first
      <4>1. portfolios' > 1 => portfolios > 0
        BY <3>1, <1>7
      <4> QED
        BY <4>1, <3>1, <2>2, <2>3 DEF RegistryInv, SitesOk, FoundersOk
    <3>2. CASE ~drafting[s].first
      BY <3>2, <1>7, <2>2 DEF RegistryInv, SitesOk, FoundersOk
    <3> QED
      BY <3>1, <3>2
  <2>6. \A x \in SiteRows :
          (drafting'[x].on /\ drafting'[x].first) => drafting'[x].row.saw = {}
    BY <1>10, <1>11 DEF RegistryInv, SitesOk, FoundersOk
  <2> QED
    BY <2>1, <2>4, <2>5, <2>6 DEF FoundersOk
<1>13. ASSUME NEW x \in SiteRows
       PROVE  /\ drafting'[x].on => site'[x].state = "none" /\ SiteClear(drafting'[x].row, site')
              /\ site'[x].state = "active" => SiteClear(site'[x], site')
  <2>1. CASE x = s
    BY <2>1, <1>3, <1>9, <1>10
  <2>2. CASE x # s
    <3>1. site[x] \in SiteRow /\ (drafting[x].on => drafting[x].row \in SiteRow)
      BY SiteDraftFacts DEF RegistryInv, RowsTyped
    <3> QED
      BY <3>1, <2>2, <1>9, <1>11 DEF RegistryInv, SitesOk
  <2> QED
    BY <2>1, <2>2
<1>14. SitesOk'
  BY <1>12, <1>13 DEF SitesOk
<1>15. AssetsOk'
  BY <1>6, AssetsKept DEF RegistryInv
<1> QED
  BY <1>8, <1>14, <1>15 DEF RegistryInv

-----------------------------------------------------------------------------
(* The invariant holds in every state of every behaviour.                  *)
THEOREM RegistryInvariant == RegistrySpec => []RegistryInv
<1>1. RegistryInit => RegistryInv
  <2> SUFFICES ASSUME RegistryInit PROVE RegistryInv
    OBVIOUS
  <2>1. /\ asset = [e \in Entries |-> Blank] /\ site = [s \in SiteRows |-> Blank]
        /\ portfolios = 0 /\ touched = {}
        /\ drafting = [x \in Entries \union SiteRows |-> NoDraft]
    BY DEF RegistryInit, NoDraft
  <2>2. Blank \in AssetRow /\ Blank \in SiteRow /\ Blank.state = "none" /\ Blank.saw = {}
    BY DEF Blank, AssetRow, SiteRow
  <2>3. RowsTyped
    BY <2>1, <2>2 DEF RowsTyped
  <2>4. \A x \in Entries \union SiteRows : ~drafting[x].on
    BY <2>1 DEF NoDraft
  <2>5. AssetsOk
    BY <2>1, <2>2, <2>4 DEF AssetsOk
  <2>6. SitesOk
    BY <2>1, <2>2, <2>4 DEF SitesOk, FoundersOk
  <2> QED
    BY <2>3, <2>5, <2>6 DEF RegistryInv
<1>2. RegistryInv /\ [RegistryNext]_registryVars => RegistryInv'
  <2> SUFFICES ASSUME RegistryInv, [RegistryNext]_registryVars PROVE RegistryInv'
    OBVIOUS
  <2>1. CASE \E e \in Entries : DraftAsset(e) \/ CommitAsset(e) \/ PatchAsset(e)
    BY <2>1, DraftAssetKeeps, CommitAssetKeeps, PatchAssetKeeps
  <2>2. CASE \E s \in SiteRows : DraftSite(s) \/ CommitSite(s)
    BY <2>2, DraftSiteKeeps, CommitSiteKeeps
  <2>3. CASE \E x \in Entries \union SiteRows : DraftLost(x)
    BY <2>3, DraftLostKeeps
  <2>4. CASE UNCHANGED registryVars
    BY <2>4 DEF registryVars, RegistryInv, RowsTyped, AssetsOk, SitesOk, FoundersOk, Founders
  <2> QED
    BY <2>1, <2>2, <2>3, <2>4 DEF RegistryNext
<1> QED
  BY <1>1, <1>2, PTL DEF RegistrySpec

(* Two grids in service, two assets or sites of one name, or two portfolios*)
(* come from a patch or from creations that overlapped                     *)
(* (portfolio_registry.py).                                                *)
THEOREM OneGridCorrect == RegistrySpec => []OneGrid
BY RegistryInvariant, InvImpliesOneGrid, PTL

-----------------------------------------------------------------------------
(* Accounts: AdminStays.  The invariant says of an update that nobody      *)
(* overtook that the row it read is still the row, and, once it has        *)
(* counted, that another administrator is still there if it removes one.   *)
Update == [pc : {"idle", "authorised", "read", "counted", "done"},
           by : Users \union {nobody}, who : Users \union {nobody},
           seen : Row \union {nobody}, change : Changes \union {nobody}, overtaken : BOOLEAN]
Reading(x) == x.pc \in {"read", "counted"}

AccountsTyped ==
  /\ account \in [Users -> Row \union {nobody}]
  /\ update \in [Updates -> Update]
  /\ \A r \in Updates : Reading(update[r]) =>
       /\ update[r].who \in Users /\ account[update[r].who] \in Row
       /\ update[r].seen \in Row /\ update[r].change \in Changes

SeenHolds ==
  \A r \in Updates : Reading(update[r]) /\ ~update[r].overtaken =>
    account[update[r].who] = update[r].seen

AnotherAdmin(x) == \E u \in Users \ {x.who} : IsAdmin(account[u])
CountHolds ==
  \A r \in Updates :
    update[r].pc = "counted" /\ ~update[r].overtaken
      /\ LosesAdmin(update[r].seen, update[r].change) => AnotherAdmin(update[r])

AccountInv == AccountsTyped /\ SeenHolds /\ CountHolds

(* More than one member means one besides any given.                       *)
LEMMA MoreThanOne ==
  ASSUME NEW S, NEW x, ~(Cardinality(S) <= 1)
  PROVE  \E y \in S : y # x
<1> SUFFICES ASSUME \A y \in S : y = x PROVE FALSE
  OBVIOUS
<1>1. S = {} \/ S = {x}
  OBVIOUS
<1> QED
  BY <1>1, FS_EmptySet, FS_Singleton

(* What an update does to the row it names; one that nobody overtook and   *)
(* that removes no administrator leaves the row's administration alone.    *)
LEMMA WrittenRow ==
  ASSUME AccountInv, NEW r \in Updates, CommitUpdate(r)
  PROVE  /\ update[r].pc = "counted" /\ update[r].who \in Users
         /\ account' \in [Users -> Row \union {nobody}]
         /\ account'[update[r].who] \in Row
         /\ \A u \in Users \ {update[r].who} : account'[u] = account[u]
         /\ ~update[r].overtaken /\ ~LosesAdmin(update[r].seen, update[r].change)
              => (IsAdmin(account[update[r].who]) => IsAdmin(account'[update[r].who]))
<1> DEFINE x == update[r]
           row == account[x.who]
           roles == Written(row.roles, x.seen.roles, x.change.roles)
           active == Written(row.active, x.seen.active, x.change.active)
           new == [row EXCEPT !.roles = roles, !.active = active]
<1> USE AccountAssumption
<1>1. /\ x.pc = "counted" /\ x.who \in Users /\ x.seen \in Row /\ x.change \in Changes
      /\ row \in Row /\ account \in [Users -> Row \union {nobody}]
  BY DEF CommitUpdate, AccountInv, AccountsTyped, Reading
<1>2. account' = [account EXCEPT ![x.who].roles = roles, ![x.who].active = active]
  BY DEF CommitUpdate
<1>3. account' = [account EXCEPT ![x.who] = new]
  BY <1>1, <1>2
<1>4. /\ row.roles \in SUBSET Roles /\ row.active \in BOOLEAN
      /\ x.change.roles \in {nobody, {}, {"tenant_admin"}}
      /\ x.change.active \in {nobody, TRUE, FALSE}
      /\ row = [active |-> row.active, roles |-> row.roles]
  BY <1>1 DEF Row, Changes
<1>5. roles \in SUBSET Roles /\ active \in BOOLEAN
  BY <1>4 DEF Written, Roles
<1>6. new \in Row /\ new.roles = roles /\ new.active = active
  <2>1. row \in Row
    BY <1>1
  <2>2. PICK o \in Row, a \in SUBSET Roles, b \in BOOLEAN : o = row /\ a = roles /\ b = active
    BY <2>1, <1>5
  <2> HIDE DEF row, roles, active
  <2>3. new = [o EXCEPT !.roles = a, !.active = b]
    BY <2>2
  <2> HIDE DEF new
  <2>4. new \in Row /\ new.roles = a /\ new.active = b
    BY <2>3 DEF Row
  <2> QED
    BY <2>2, <2>4
<1>7. new # nobody
  BY <1>6
<1>8. ASSUME ~x.overtaken, ~LosesAdmin(x.seen, x.change), IsAdmin(row)
      PROVE  IsAdmin(new)
  <2>1. row = x.seen
    BY <1>1, <1>8 DEF AccountInv, SeenHolds, Reading
  <2>2. /\ x.change.roles = nobody \/ "tenant_admin" \in x.change.roles
        /\ x.change.active # FALSE
    BY <1>8, <2>1 DEF LosesAdmin
  <2>3. "tenant_admin" \in roles /\ active = TRUE
    BY <1>4, <1>8, <2>1, <2>2 DEF Written, IsAdmin
  <2> QED
    BY <1>6, <1>7, <2>3 DEF IsAdmin
<1> HIDE DEF new, roles, active
<1>9. /\ account' \in [Users -> Row \union {nobody}] /\ account'[x.who] = new
      /\ \A u \in Users \ {x.who} : account'[u] = account[u]
  BY <1>1, <1>3, <1>6
<1> QED
  BY <1>1, <1>6, <1>8, <1>9

(* A commit overtakes every other request that has read.                   *)
LEMMA OvertakeKeeps ==
  ASSUME AccountInv, NEW r \in Updates, update' = Overtake(r),
         account' \in [Users -> Row \union {nobody}],
         \A u \in Users : account[u] \in Row => account'[u] \in Row
  PROVE  AccountInv'
<1>1. update \in [Updates -> Update]
  BY DEF AccountInv, AccountsTyped
<1>2. update' \in [Updates -> Update] /\ update'[r].pc = "done"
  BY <1>1 DEF Overtake, Update, Done, Waiting
<1>3. ASSUME NEW q \in Updates \ {r}
      PROVE  /\ update'[q].pc = update[q].pc /\ update'[q].who = update[q].who
             /\ update'[q].seen = update[q].seen /\ update'[q].change = update[q].change
             /\ Reading(update[q]) => update'[q].overtaken
  BY <1>1, <1>3 DEF Overtake, Update, Reading
<1>4. AccountsTyped'
  BY <1>2, <1>3 DEF AccountInv, AccountsTyped, Reading
<1>5. \A q \in Updates : Reading(update'[q]) => update'[q].overtaken
  BY <1>2, <1>3 DEF Reading
<1> QED
  BY <1>4, <1>5 DEF AccountInv, SeenHolds, CountHolds, Reading

(* An account that is added changes none that is there.                    *)
LEMMA AddedKeeps ==
  ASSUME AccountInv, UNCHANGED update,
         account' \in [Users -> Row \union {nobody}],
         \A u \in Users : account[u] # nobody => account'[u] = account[u]
  PROVE  AccountInv'
<1>1. \A u \in Users : /\ account[u] \in Row => account'[u] = account[u]
                       /\ IsAdmin(account[u]) => IsAdmin(account'[u])
  BY AccountAssumption DEF IsAdmin
<1>2. AccountsTyped' /\ SeenHolds'
  BY <1>1 DEF AccountInv, AccountsTyped, SeenHolds, Reading
<1>3. CountHolds'
  BY <1>1 DEF AccountInv, CountHolds, AnotherAdmin
<1> QED
  BY <1>2, <1>3 DEF AccountInv

(* A request moves on by itself.                                           *)
LEMMA OwnStepKeeps ==
  ASSUME AccountInv, NEW r \in Updates, NEW e \in Update, UNCHANGED account,
         update' = [update EXCEPT ![r] = e],
         Reading(e) => /\ e.who \in Users /\ account[e.who] \in Row
                       /\ e.seen \in Row /\ e.change \in Changes
                       /\ ~e.overtaken => account[e.who] = e.seen,
         e.pc = "counted" /\ ~e.overtaken /\ LosesAdmin(e.seen, e.change) => AnotherAdmin(e)
  PROVE  AccountInv'
<1>1. /\ update' \in [Updates -> Update] /\ update'[r] = e
      /\ \A q \in Updates \ {r} : update'[q] = update[q]
  BY DEF AccountInv, AccountsTyped
<1>2. AccountsTyped' /\ SeenHolds'
  BY <1>1 DEF AccountInv, AccountsTyped, SeenHolds, Reading
<1>3. CountHolds'
  BY <1>1 DEF AccountInv, CountHolds, AnotherAdmin
<1> QED
  BY <1>2, <1>3 DEF AccountInv

(* The count of an update that nobody overtook is of administrators as they*)
(* are: not barred, it has seen one besides the row it changes.            *)
LEMMA CountKeeps ==
  ASSUME AccountInv, NEW r \in Updates, CountAdmins(r)
  PROVE  AccountInv'
<1> DEFINE x == update[r]
           S == {u \in Users : Exists(u) /\ Counted(u, r)}
           barred == \/ LosesAdmin(x.seen, x.change) /\ Cardinality(S) <= 1
                     \/ x.by = x.who /\ x.seen.active /\ x.change.active = FALSE
           e == IF barred THEN Done ELSE [x EXCEPT !.pc = "counted"]
<1>1. x.pc = "read" /\ x \in Update /\ account' = account /\ update' = [update EXCEPT ![r] = e]
  BY DEF CountAdmins, AccountInv, AccountsTyped
<1>2. /\ x.who \in Users /\ account[x.who] \in Row /\ x.seen \in Row /\ x.change \in Changes
      /\ ~x.overtaken => account[x.who] = x.seen
  BY <1>1 DEF AccountInv, AccountsTyped, SeenHolds, Reading
<1>3. ASSUME ~barred, ~x.overtaken, LosesAdmin(x.seen, x.change)
      PROVE  \E u \in Users \ {x.who} : IsAdmin(account[u])
  <2>1. ~(Cardinality(S) <= 1)
    BY <1>3
  <2>2. PICK T : T = S
    OBVIOUS
  <2>3. PICK w : w = x.who
    OBVIOUS
  <2> HIDE DEF S, x
  <2>4. ~(Cardinality(T) <= 1)
    BY <2>1, <2>2
  <2>5. PICK u \in T : u # w
    BY <2>4, MoreThanOne
  <2> USE DEF S, x
  <2> QED
    BY <2>2, <2>3, <2>5 DEF Counted
<1>4. CASE barred
  <2>1. e = Done /\ Done \in Update /\ Done.pc = "done"
    BY <1>4 DEF Done, Waiting, Update
  <2> HIDE DEF e
  <2> QED
    BY <2>1, <1>1, OwnStepKeeps DEF Reading
<1>5. CASE ~barred
  <2>1. /\ e = [x EXCEPT !.pc = "counted"] /\ e \in Update
        /\ e.who = x.who /\ e.seen = x.seen /\ e.change = x.change
        /\ e.overtaken = x.overtaken
    BY <1>1, <1>5 DEF Update
  <2>2. ~e.overtaken /\ LosesAdmin(e.seen, e.change) => AnotherAdmin(e)
    BY <2>1, <1>3, <1>5 DEF AnotherAdmin
  <2> HIDE DEF e, barred
  <2> QED
    BY <2>1, <2>2, <1>1, <1>2, OwnStepKeeps
<1> QED
  BY <1>4, <1>5

LEMMA AuthoriseKeeps ==
  ASSUME AccountInv, NEW r \in Updates, NEW u \in Users, Authorise(r, u)
  PROVE  AccountInv'
<1> DEFINE e == [update[r] EXCEPT !.pc = "authorised", !.by = u]
<1>1. update[r] \in Update /\ account' = account /\ update' = [update EXCEPT ![r] = e]
  BY DEF Authorise, AccountInv, AccountsTyped
<1>2. e \in Update /\ e.pc = "authorised"
  BY <1>1 DEF Update
<1> HIDE DEF e
<1> QED
  BY <1>1, <1>2, OwnStepKeeps DEF Reading

LEMMA ReadKeeps ==
  ASSUME AccountInv, NEW r \in Updates, NEW u \in Users, NEW change \in Changes,
         ReadUser(r, u, change)
  PROVE  AccountInv'
<1> DEFINE e == [update[r] EXCEPT !.pc = "read", !.who = u, !.seen = account[u], !.change = change]
<1>1. /\ update[r] \in Update /\ account' = account /\ update' = [update EXCEPT ![r] = e]
      /\ account[u] \in Row
  BY DEF ReadUser, Exists, AccountInv, AccountsTyped
<1>2. /\ e \in Update /\ e.pc = "read" /\ e.who = u /\ e.seen = account[u] /\ e.change = change
  BY <1>1 DEF Update
<1> HIDE DEF e
<1> QED
  BY <1>1, <1>2, OwnStepKeeps DEF Reading

LEMMA AccountInvInit == AccountInit => AccountInv
<1> SUFFICES ASSUME AccountInit PROVE AccountInv
  OBVIOUS
<1>1. account \in [Users -> Row \union {nobody}] /\ update = [r \in Updates |-> Waiting]
  BY DEF AccountInit, Row, Roles
<1>2. Waiting \in Update /\ Waiting.pc = "idle"
  BY DEF Waiting, Update
<1> QED
  BY <1>1, <1>2 DEF AccountInv, AccountsTyped, SeenHolds, CountHolds, Reading

LEMMA AccountInvStep == AccountInv /\ [AccountNext]_accountVars => AccountInv'
<1> SUFFICES ASSUME AccountInv, [AccountNext]_accountVars PROVE AccountInv'
  OBVIOUS
<1>1. account \in [Users -> Row \union {nobody}]
  BY DEF AccountInv, AccountsTyped
<1>2. ASSUME NEW r \in Updates, NEW u \in Users, CreateUser(r, u) PROVE AccountInv'
  <2>1. PICK roles \in {{}, {"tenant_admin"}} :
          account' = [account EXCEPT ![u] = [active |-> TRUE, roles |-> roles]]
    BY <1>2 DEF CreateUser
  <2>2. [active |-> TRUE, roles |-> roles] \in Row
    BY DEF Row, Roles
  <2> QED
    BY <1>1, <1>2, <2>1, <2>2, OvertakeKeeps DEF CreateUser
<1>3. ASSUME NEW r \in Updates, CommitUpdate(r) PROVE AccountInv'
  <2>1. \A u \in Users : account[u] \in Row => account'[u] \in Row
    BY <1>3, WrittenRow
  <2> QED
    BY <1>3, <2>1, WrittenRow, OvertakeKeeps DEF CommitUpdate
<1>4. ASSUME NEW u \in Users, Bootstrap(u) \/ FinishSso(u) PROVE AccountInv'
  <2>1. \/ account' = account
        \/ /\ account[u] = nobody
           /\ \E row \in Row : account' = [account EXCEPT ![u] = row]
    <3>1. \A roles \in SUBSET Roles : [active |-> TRUE, roles |-> roles] \in Row
      BY DEF Row
    <3>2. {} \in SUBSET Roles /\ {"tenant_admin"} \in SUBSET Roles
      BY DEF Roles
    <3> QED
      BY <1>4, <3>1, <3>2 DEF Bootstrap, FinishSso, Exists
  <2>2. UNCHANGED update
    BY <1>4 DEF Bootstrap, FinishSso
  <2>3. /\ account' \in [Users -> Row \union {nobody}]
        /\ \A v \in Users : account[v] # nobody => account'[v] = account[v]
    BY <1>1, <2>1
  <2> QED
    BY <2>2, <2>3, AddedKeeps
<1>5. ASSUME UNCHANGED <<account, update>> PROVE AccountInv'
  BY <1>1, <1>5, AddedKeeps
<1> QED
  BY <1>2, <1>3, <1>4, <1>5, AuthoriseKeeps, ReadKeeps, CountKeeps
     DEF AccountNext, Administer, Login, StartSso, SsoRefused, accountVars

(* routers/admin.py, update_user, "never let a tenant lose its last        *)
(* administrator": only an update that another request overtook between    *)
(* its read and its commit can take away the last one.                     *)
THEOREM AdminStaysCorrect == AccountSpec => AdminStays
<1> DEFINE Stays == (Admins # {} /\ Admins' = {}) =>
             \E r \in Updates : update[r].overtaken /\ update'[r] # update[r]
<1>1. AccountInv /\ [AccountNext]_accountVars => [Stays]_accountVars
  <2> SUFFICES ASSUME AccountInv, AccountNext, NEW a \in Users, IsAdmin(account[a]), Admins' = {}
               PROVE  \E r \in Updates : update[r].overtaken /\ update'[r] # update[r]
    BY DEF Admins
  <2>1. \A u \in Users : ~IsAdmin(account'[u])
    BY DEF Admins
  <2>2. account \in [Users -> Row \union {nobody}] /\ account[a] # nobody /\ account'[a] # account[a]
    BY <2>1 DEF AccountInv, AccountsTyped, IsAdmin
  <2>3. PICK r \in Updates : CommitUpdate(r)
    BY <2>2 DEF AccountNext, Administer, Authorise, CreateUser, ReadUser, CountAdmins, Login,
       StartSso, FinishSso, SsoRefused, Bootstrap, Exists
  <2>4. update'[r] # update[r]
    <3>1. update'[r] = Done /\ Done.pc = "done" /\ update[r].pc = "counted"
      BY <2>3 DEF CommitUpdate, Overtake, Done, Waiting
    <3> QED
      BY <3>1
  <2>5. ASSUME ~update[r].overtaken PROVE FALSE
    <3>1. CASE LosesAdmin(update[r].seen, update[r].change)
      <4>1. PICK u \in Users \ {update[r].who} : IsAdmin(account[u])
        BY <2>3, <2>5, <3>1, WrittenRow DEF AccountInv, CountHolds, AnotherAdmin
      <4> QED
        BY <2>1, <2>3, <4>1, WrittenRow
    <3>2. CASE ~LosesAdmin(update[r].seen, update[r].change)
      BY <2>1, <2>3, <2>5, <3>2, WrittenRow
    <3> QED
      BY <3>1, <3>2
  <2> QED
    BY <2>4, <2>5, <2>3 DEF AccountInv, AccountsTyped, Update
<1> QED
  BY <1>1, AccountInvInit, AccountInvStep, PTL DEF AccountSpec, AdminStays

-----------------------------------------------------------------------------
(* Exports.  The job in work is the first of the batch from its start to   *)
(* its end, it is not complete meanwhile, and before it is marked complete *)
(* what lies under its key is the workbook in memory.                      *)
ExportTyped ==
  /\ queue \in Seq(Jobs) /\ hand \in Seq(Jobs) /\ ledger \in Nat
  /\ status \in [Jobs -> {"none", "pending", "running", "complete", "failed"}]
  /\ checksum \in [Jobs -> Nat \union {missing}] /\ stored \in [Jobs -> Nat \union {missing}]

InWork ==
  /\ step \in {"loop", "build", "put", "finish", "failing"}
  /\ step # "loop" => hand # <<>>
  /\ step \in {"build", "put", "finish"} => status[Head(hand)] = "running"
  /\ step \in {"put", "finish"} => built \in Nat
  /\ step = "finish" => stored[Head(hand)] = built

ExportInv == ExportTyped /\ InWork /\ CompleteDownloads

(* Steps that leave the job in work where it is.                           *)
LEMMA ExportKept ==
  ASSUME ExportInv, UNCHANGED <<checksum, stored, hand, step, built>>,
         queue' \in Seq(Jobs), ledger' \in Nat,
         \/ status' = status
         \/ \E j \in Jobs : status[j] = "none" /\ status' = [status EXCEPT ![j] = "pending"]
  PROVE  ExportInv'
<1>1. CASE status' = status
  BY <1>1 DEF ExportInv, ExportTyped, InWork, CompleteDownloads, Downloadable
<1>2. ASSUME NEW j \in Jobs, status[j] = "none", status' = [status EXCEPT ![j] = "pending"]
      PROVE  ExportInv'
  <2>1. ExportTyped'
    BY <1>2 DEF ExportInv, ExportTyped
  <2>2. \A k \in Jobs : k # j => status'[k] = status[k]
    BY <1>2 DEF ExportInv, ExportTyped
  <2>3. status'[j] = "pending"
    BY <1>2 DEF ExportInv, ExportTyped
  <2>4. InWork'
    <3>1. hand # <<>> => Head(hand) \in Jobs
      BY DEF ExportInv, ExportTyped
    <3> QED
      BY <1>2, <2>2, <3>1 DEF ExportInv, InWork
  <2>5. ASSUME NEW k \in Jobs, status'[k] = "complete" PROVE Downloadable(k)'
    <3>1. k # j /\ status[k] = "complete"
      BY <2>2, <2>3, <2>5
    <3>2. Downloadable(k)
      BY <3>1 DEF ExportInv, CompleteDownloads
    <3> QED
      BY <2>5, <3>2 DEF Downloadable
  <2>6. CompleteDownloads'
    BY <2>5 DEF CompleteDownloads
  <2> QED
    BY <2>1, <2>4, <2>6 DEF ExportInv
<1> QED
  BY <1>1, <1>2

(* Every step of the api and of the worker keeps the invariant.            *)
LEMMA ExportStepKeeps ==
  ASSUME ExportInv, ExportNext
  PROVE  ExportInv'
<1>0. /\ queue \in Seq(Jobs) /\ hand \in Seq(Jobs) /\ ledger \in Nat
      /\ status \in [Jobs -> {"none", "pending", "running", "complete", "failed"}]
      /\ checksum \in [Jobs -> Nat \union {missing}] /\ stored \in [Jobs -> Nat \union {missing}]
  BY DEF ExportInv, ExportTyped
<1>a. hand # <<>> => Head(hand) \in Jobs /\ Tail(hand) \in Seq(Jobs)
  BY <1>0
<1>1. ASSUME NEW j \in Jobs, RequestExport(j) \/ PublishExport(j) \/ PublishLost(j)
      PROVE  ExportInv'
  <2>1. /\ UNCHANGED <<checksum, stored, hand, step, built, ledger>>
        /\ queue' = queue \/ queue' = Append(queue, j)
        /\ \/ status' = status
           \/ status[j] = "none" /\ status' = [status EXCEPT ![j] = "pending"]
    BY <1>1 DEF RequestExport, PublishExport, PublishLost
  <2>2. queue' \in Seq(Jobs) /\ ledger' \in Nat
    BY <1>0, <2>1
  <2>3. \/ status' = status
        \/ \E k \in Jobs : status[k] = "none" /\ status' = [status EXCEPT ![k] = "pending"]
    BY <2>1
  <2> QED
    BY <2>1, <2>2, <2>3, ExportKept
<1>2. CASE LedgerMoves
  <2>1. UNCHANGED <<status, checksum, stored, hand, step, built, queue>> /\ ledger' = ledger + 1
    BY <1>2 DEF LedgerMoves
  <2> QED
    BY <1>0, <2>1, ExportKept
<1>3. CASE TakeBatch
  <2> PICK n : n = IF Len(queue) < ExportBatch THEN Len(queue) ELSE ExportBatch
    OBVIOUS
  <2>1. /\ hand = <<>> /\ hand' = SubSeq(queue, 1, n) /\ queue' = SubSeq(queue, n + 1, Len(queue))
        /\ UNCHANGED <<status, checksum, stored, step, ledger, built>>
    BY <1>3 DEF TakeBatch
  <2>2. n \in Nat /\ n <= Len(queue) /\ Len(queue) \in Nat
    BY <1>0, ExportAssumption
  <2>3. hand' \in Seq(Jobs) /\ queue' \in Seq(Jobs)
    BY <1>0, <2>1, <2>2
  <2>4. step = "loop"
    BY <2>1 DEF ExportInv, InWork
  <2> QED
    BY <2>1, <2>3, <2>4 DEF ExportInv, ExportTyped, InWork, CompleteDownloads, Downloadable
<1>4. CASE StartJob
  <2>1. /\ hand # <<>> /\ status' = [status EXCEPT ![Head(hand)] = "running"] /\ step' = "build"
        /\ UNCHANGED <<checksum, stored, queue, hand, built, ledger>>
    BY <1>4 DEF StartJob
  <2>2. PICK h \in Jobs : h = Head(hand)
    BY <1>a, <2>1
  <2>3. \A k \in Jobs : status'[k] = IF k = h THEN "running" ELSE status[k]
    BY <1>0, <2>1, <2>2
  <2>4. ExportTyped'
    BY <1>0, <2>1, <2>2 DEF ExportTyped
  <2> QED
    BY <2>1, <2>2, <2>3, <2>4 DEF ExportInv, InWork, CompleteDownloads, Downloadable
<1>5. CASE BuildWorkbook
  <2>1. /\ step = "build" /\ built' = ledger /\ step' = "put"
        /\ UNCHANGED <<status, checksum, stored, queue, hand, ledger>>
    BY <1>5 DEF BuildWorkbook
  <2> QED
    BY <1>0, <2>1 DEF ExportInv, ExportTyped, InWork, CompleteDownloads, Downloadable
<1>6. CASE PutObject
  <2>1. /\ step = "put" /\ stored' = [stored EXCEPT ![Head(hand)] = built] /\ step' = "finish"
        /\ UNCHANGED <<status, checksum, queue, hand, built, ledger>>
    BY <1>6 DEF PutObject
  <2>2. hand # <<>> /\ status[Head(hand)] = "running" /\ built \in Nat
    BY <2>1 DEF ExportInv, InWork
  <2>3. PICK h \in Jobs : h = Head(hand)
    BY <1>a, <2>2
  <2>4. \A k \in Jobs : stored'[k] = IF k = h THEN built ELSE stored[k]
    BY <1>0, <2>1, <2>3
  <2>5. ExportTyped'
    BY <1>0, <2>1, <2>2, <2>3 DEF ExportTyped
  <2> QED
    BY <2>1, <2>2, <2>3, <2>4, <2>5 DEF ExportInv, InWork, CompleteDownloads, Downloadable
<1>7. ASSUME step = "finish", status' = [status EXCEPT ![Head(hand)] = "complete"],
             checksum' = [checksum EXCEPT ![Head(hand)] = built],
             UNCHANGED <<stored, queue, ledger>>, hand' \in Seq(Jobs),
             step' = "loop" \/ (step' = "failing" /\ hand' # <<>>)
      PROVE  ExportInv'
  <2>1. hand # <<>> /\ built \in Nat /\ stored[Head(hand)] = built
    BY <1>7 DEF ExportInv, InWork
  <2>2. PICK h \in Jobs : h = Head(hand)
    BY <1>a, <2>1
  <2>3. \A k \in Jobs : /\ status'[k] = IF k = h THEN "complete" ELSE status[k]
                        /\ checksum'[k] = IF k = h THEN built ELSE checksum[k]
    BY <1>0, <1>7, <2>2
  <2>4. ExportTyped'
    BY <1>0, <1>7, <2>1, <2>2 DEF ExportTyped
  <2>5. CompleteDownloads'
    BY <1>7, <2>1, <2>2, <2>3, ExportAssumption DEF ExportInv, CompleteDownloads, Downloadable
  <2> QED
    BY <1>7, <2>4, <2>5 DEF ExportInv, InWork
<1>8. CASE FinishJob
  BY <1>0, <1>7, <1>8, <1>a DEF FinishJob, ExportInv, InWork
<1>9. CASE StepFails
  <2>1. /\ hand # <<>> /\ step' = "failing" /\ UNCHANGED <<queue, hand, built, ledger>>
        /\ \/ UNCHANGED <<status, checksum, stored>>
           \/ /\ step = "put" /\ stored' = [stored EXCEPT ![Head(hand)] = built]
              /\ UNCHANGED <<status, checksum>>
           \/ /\ step = "finish" /\ UNCHANGED stored
              /\ status' = [status EXCEPT ![Head(hand)] = "complete"]
              /\ checksum' = [checksum EXCEPT ![Head(hand)] = built]
    BY <1>9 DEF StepFails
  <2>2. CASE UNCHANGED <<status, checksum, stored>>
    BY <2>1, <2>2 DEF ExportInv, ExportTyped, InWork, CompleteDownloads, Downloadable
  <2>3. CASE step = "put" /\ stored' = [stored EXCEPT ![Head(hand)] = built]
             /\ UNCHANGED <<status, checksum>>
    <3>1. status[Head(hand)] = "running" /\ built \in Nat
      BY <2>3 DEF ExportInv, InWork
    <3>2. PICK h \in Jobs : h = Head(hand)
      BY <1>a, <2>1
    <3>3. \A k \in Jobs : stored'[k] = IF k = h THEN built ELSE stored[k]
      BY <1>0, <2>3, <3>2
    <3>4. ExportTyped'
      BY <1>0, <2>1, <2>3, <3>1, <3>2 DEF ExportTyped
    <3> QED
      BY <2>1, <2>3, <3>1, <3>2, <3>3, <3>4 DEF ExportInv, InWork, CompleteDownloads, Downloadable
  <2>4. CASE step = "finish" /\ UNCHANGED stored
             /\ status' = [status EXCEPT ![Head(hand)] = "complete"]
             /\ checksum' = [checksum EXCEPT ![Head(hand)] = built]
    BY <1>0, <1>7, <2>1, <2>4
  <2> QED
    BY <2>1, <2>2, <2>3, <2>4
<1>10. CASE MarkFailed \/ MarkFails \/ CrashExporter
  <2>1. /\ step' = "loop" /\ UNCHANGED <<checksum, stored, queue, ledger>>
        /\ hand' = Tail(hand) \/ hand' = <<>>
        /\ status' = status \/ status' = [status EXCEPT ![Head(hand)] = "failed"]
        /\ hand # <<>>
    BY <1>10 DEF MarkFailed, MarkFails, CrashExporter, ExportInv, InWork
  <2>2. PICK h \in Jobs : h = Head(hand)
    BY <1>a, <2>1
  <2>3. hand' \in Seq(Jobs)
    <3>1. Tail(hand) \in Seq(Jobs) /\ <<>> \in Seq(Jobs)
      BY <1>a, <2>1
    <3> QED
      BY <2>1, <3>1
  <2>4. CASE status' = status
    BY <2>1, <2>3, <2>4 DEF ExportInv, ExportTyped, InWork, CompleteDownloads, Downloadable
  <2>5. CASE status' = [status EXCEPT ![Head(hand)] = "failed"]
    <3>1. \A k \in Jobs : status'[k] = IF k = h THEN "failed" ELSE status[k]
      BY <1>0, <2>2, <2>5
    <3>2. ExportTyped'
      BY <1>0, <2>1, <2>2, <2>3, <2>5 DEF ExportTyped
    <3> QED
      BY <2>1, <3>1, <3>2 DEF ExportInv, InWork, CompleteDownloads, Downloadable
  <2> QED
    BY <2>1, <2>4, <2>5
<1> QED
  BY <1>1, <1>2, <1>3, <1>4, <1>5, <1>6, <1>8, <1>9, <1>10 DEF ExportNext, PublishNext, Export

(* output/export-worker/worker.py, process_export: a job that says         *)
(* complete has the workbook of its checksum under its key, whatever calls *)
(* fail or are answered too late, and however often the worker dies.       *)
THEOREM CompleteDownloadsCorrect ==
  ExportInit /\ [][ExportNext]_exportVars => []CompleteDownloads
<1>1. ExportInit => ExportInv
  BY DEF ExportInit, ExportInv, ExportTyped, InWork, CompleteDownloads
<1>2. ExportInv /\ [ExportNext]_exportVars => ExportInv'
  <2> SUFFICES ASSUME ExportInv, [ExportNext]_exportVars PROVE ExportInv'
    OBVIOUS
  <2>1. CASE UNCHANGED exportVars
    BY <2>1 DEF exportVars, ExportInv, ExportTyped, InWork, CompleteDownloads, Downloadable
  <2> QED
    BY <2>1, ExportStepKeeps
<1>3. ExportInv => CompleteDownloads
  BY DEF ExportInv
<1> QED
  BY <1>1, <1>2, <1>3, PTL

-----------------------------------------------------------------------------
(* The watched folder.  A content that is neither marked nor published at  *)
(* the moment has been published once at most for each failure.            *)
FolderInv ==
  /\ copies \in [Good -> Nat] /\ faults \in Nat
  /\ published # absent => watcher = "scan" /\ todo # <<>>
  /\ \A c \in Good :
       /\ published = c => c \notin marked
       /\ c \in marked \union {published} => copies[c] >= 1
       /\ copies[c] <= faults + (IF c \in marked \union {published} THEN 1 ELSE 0)

LEMMA FolderStepKeeps ==
  ASSUME FolderInv, FolderNext
  PROVE  FolderInv'
<1>0. copies \in [Good -> Nat] /\ faults \in Nat /\ absent \notin Good
  BY FolderAssumption DEF FolderInv
<1>1. ASSUME UNCHANGED <<published, marked, copies, faults>>,
             published = absent \/ UNCHANGED <<watcher, todo>>
      PROVE  FolderInv'
  BY <1>1 DEF FolderInv
<1>2. ASSUME NEW n \in Names, NEW c, PutFile(n, c) PROVE FolderInv'
  BY <1>1, <1>2 DEF PutFile
<1>3. ASSUME NEW n \in Names, ToggleLock(n) PROVE FolderInv'
  BY <1>1, <1>3 DEF ToggleLock
<1>4. CASE ProvisionTenant
  BY <1>1, <1>4 DEF ProvisionTenant
<1>a. published # absent => watcher = "scan" /\ todo # <<>>
  BY DEF FolderInv
<1>5. CASE LookupTenant \/ EndScan \/ Skip \/ Unreadable \/ PublishRaises
  <2>1. published = absent
    BY <1>5, <1>a DEF LookupTenant, EndScan, Skip, Unreadable, PublishRaises, Taking
  <2>2. UNCHANGED <<published, marked, copies, faults>>
    BY <1>5, <2>1 DEF LookupTenant, EndScan, Skip, Unreadable, PublishRaises, AbandonScan
  <2> QED
    BY <1>1, <2>1, <2>2
<1>9. CASE StartScan
  <2>1. watcher = "wait" /\ UNCHANGED <<published, marked, copies, faults>>
    BY <1>9, Zenon DEF StartScan
  <2> QED
    BY <1>1, <1>a, <2>1
<1>6. CASE Publish
  <2>1. /\ Here \in (Good \union Empty) \ marked /\ published' = Here /\ published = absent
        /\ copies' = IF Here \in Good THEN [copies EXCEPT ![Here] = @ + 1] ELSE copies
        /\ UNCHANGED <<watcher, todo, marked, faults>> /\ watcher = "scan" /\ todo # <<>>
    BY <1>6 DEF Publish, Taking
  <2> PICK h : h = Here
    OBVIOUS
  <2>2. \A c \in Good : copies'[c] = IF c = h THEN copies[c] + 1 ELSE copies[c]
    BY <1>0, <2>1
  <2>3. copies' \in [Good -> Nat]
    BY <1>0, <2>1
  <2> QED
    BY <1>0, <2>1, <2>2, <2>3 DEF FolderInv
<1>7. CASE Mark
  <2>1. /\ published # absent /\ marked' = marked \union {published} /\ published' = absent
        /\ UNCHANGED <<copies, faults>>
    BY <1>7 DEF Mark
  <2> QED
    BY <1>0, <2>1 DEF FolderInv
<1>8. CASE LookupFails \/ RedisFails \/ RestartApi
  <2>1. /\ published' \in {absent, published} /\ UNCHANGED <<marked, copies>>
        /\ published' = absent \/ published = absent
        /\ faults' = faults + 1 \/ (faults' = faults /\ published = absent)
    BY <1>8 DEF LookupFails, RedisFails, RestartApi, AbandonScan, FolderInv
  <2>2. published' = absent
    BY <2>1
  <2>3. ASSUME NEW c \in Good
        PROVE  /\ c \in marked => copies[c] >= 1
               /\ copies[c] <= faults' + (IF c \in marked THEN 1 ELSE 0)
    <3>1. copies[c] \in Nat /\ copies[c] <= faults + 1
      BY <1>0 DEF FolderInv
    <3>2. c \in marked => copies[c] >= 1
      BY DEF FolderInv
    <3>3. c \notin marked /\ published = absent => copies[c] <= faults
      BY <1>0 DEF FolderInv
    <3> QED
      BY <1>0, <2>1, <3>1, <3>2, <3>3
  <2> QED
    BY <1>0, <2>1, <2>2, <2>3 DEF FolderInv
<1> QED
  BY <1>2, <1>3, <1>4, <1>5, <1>6, <1>7, <1>8, <1>9 DEF FolderNext, Watch, Scan

(* ingestion/folder_watcher.py, "a file is only ever ingested once": once  *)
(* and once more at most for each failure or restart, and none is marked   *)
(* that was not published.                                                 *)
THEOREM TakenOnceCorrect ==
  FolderInit /\ [][FolderNext]_folderVars => []TakenOnce
<1>1. FolderInit => FolderInv
  BY FolderAssumption DEF FolderInit, FolderInv
<1>2. FolderInv /\ [FolderNext]_folderVars => FolderInv'
  <2> SUFFICES ASSUME FolderInv, [FolderNext]_folderVars PROVE FolderInv'
    OBVIOUS
  <2>1. CASE UNCHANGED folderVars
    BY <2>1 DEF folderVars, FolderInv
  <2> QED
    BY <2>1, FolderStepKeeps
<1>3. FolderInv => TakenOnce
  <2> SUFFICES ASSUME FolderInv, NEW c \in Good
               PROVE  (c \in marked => copies[c] >= 1) /\ copies[c] <= 1 + faults
    BY DEF TakenOnce
  <2>1. copies[c] \in Nat /\ faults \in Nat
    BY DEF FolderInv
  <2> QED
    BY <2>1 DEF FolderInv
<1> QED
  BY <1>1, <1>2, <1>3, PTL

-----------------------------------------------------------------------------
(* The login throttle.  The requests that were let through and have not    *)
(* counted yet are part of the bound.                                      *)
Tried(k) == {l \in Logins : login[l].pc = "tried" /\ login[l].key = k}
Allowance == LoginLimit + Cardinality(Logins)

ThrottleInv ==
  /\ failures \in [Keys -> Nat] /\ lapses \in 0..MaxLapses
  /\ login \in [Logins -> [pc : {"idle", "tried", "first"}, key : Keys]]
  /\ \A k \in Keys : failures[k] + Cardinality(Tried(k)) < Allowance + lapses

LEMMA TriedSets ==
  ASSUME NEW S \in SUBSET Logins
  PROVE  /\ IsFiniteSet(S) /\ Cardinality(S) \in Nat /\ Cardinality(S) <= Cardinality(Logins)
         /\ Cardinality(Logins) \in Nat /\ LoginLimit \in Nat \ {0}
         /\ \A l : Cardinality(S \union {l}) <= Cardinality(S) + 1
         /\ \A l \in S : Cardinality(S \ {l}) = Cardinality(S) - 1
<1>1. IsFiniteSet(Logins) /\ Cardinality(Logins) \in Nat
  BY ThrottleAssumption, FS_CardinalityType
<1>2. IsFiniteSet(S) /\ Cardinality(S) \in Nat /\ Cardinality(S) <= Cardinality(Logins)
  BY <1>1, FS_Subset, FS_CardinalityType
<1>3. \A l : Cardinality(S \union {l}) <= Cardinality(S) + 1
  <2> TAKE l
  <2>1. Cardinality(S \union {l}) = IF l \in S THEN Cardinality(S) ELSE Cardinality(S) + 1
    BY <1>2, FS_AddElement
  <2> QED
    BY <1>2, <2>1
<1>4. ASSUME NEW l \in S PROVE Cardinality(S \ {l}) = Cardinality(S) - 1
  BY <1>2, <1>4, FS_RemoveElement
<1> QED
  BY <1>1, <1>2, <1>3, <1>4, ThrottleAssumption

LEMMA ThrottleStepKeeps ==
  ASSUME ThrottleInv, ThrottleNext
  PROVE  ThrottleInv'
<1>0. /\ failures \in [Keys -> Nat] /\ lapses \in 0..MaxLapses /\ MaxLapses \in Nat
      /\ login \in [Logins -> [pc : {"idle", "tried", "first"}, key : Keys]]
      /\ \A k \in Keys : failures[k] + Cardinality(Tried(k)) < Allowance + lapses
  BY ThrottleAssumption DEF ThrottleInv
<1>a. Allowance \in Nat
  BY TriedSets DEF Allowance
<1>b. \A k \in Keys : Tried(k) \in SUBSET Logins /\ Cardinality(Tried(k)) \in Nat
  BY TriedSets DEF Tried
<1>1. CASE TickThrottle
  <2>1. /\ login' = login /\ lapses' = lapses
        /\ failures' = [k \in Keys |-> IF life[k] = 1 THEN 0 ELSE failures[k]]
    BY <1>1 DEF TickThrottle
  <2>2. \A k \in Keys : failures'[k] \in Nat /\ failures'[k] <= failures[k]
    BY <1>0, <2>1
  <2>3. failures' \in [Keys -> Nat]
    BY <2>1, <2>2
  <2>4. \A k \in Keys : Tried(k)' = Tried(k)
    BY <2>1 DEF Tried
  <2>5. \A k \in Keys : failures'[k] + Cardinality(Tried(k)') < Allowance + lapses'
    BY <1>0, <1>a, <1>b, <2>1, <2>2, <2>4
  <2> QED
    BY <1>0, <2>1, <2>3, <2>5 DEF ThrottleInv
<1>2. ASSUME NEW l \in Logins, NEW k \in Keys, TryLogin(l, k)
      PROVE  ThrottleInv'
  <2>1. /\ login[l].pc = "idle" /\ failures' = failures
        /\ login' = [login EXCEPT ![l] = [pc |-> "tried", key |-> k]]
        /\ \/ failures[k] < LoginLimit /\ lapses' = lapses
           \/ lapses < MaxLapses /\ lapses' = lapses + 1
    BY <1>0, <1>2, ThrottleAssumption DEF TryLogin, Locked
  <2>2. login' \in [Logins -> [pc : {"idle", "tried", "first"}, key : Keys]] /\ lapses' \in 0..MaxLapses
    BY <1>0, <2>1
  <2>3. \A j \in Logins : login'[j] = IF j = l THEN [pc |-> "tried", key |-> k] ELSE login[j]
    BY <1>0, <2>1
  <2>4. Tried(k)' = Tried(k) \union {l}
    BY <2>3 DEF Tried
  <2>5. \A h \in Keys : h # k => Tried(h)' = Tried(h)
    BY <2>1, <2>3 DEF Tried
  <2>6. \A h \in Keys : h # k => failures'[h] + Cardinality(Tried(h)') < Allowance + lapses'
    BY <1>0, <1>a, <1>b, <2>1, <2>5
  <2>7. failures'[k] + Cardinality(Tried(k)') < Allowance + lapses'
    <3>1. /\ Cardinality(Tried(k) \union {l}) <= Cardinality(Tried(k)) + 1
          /\ Cardinality(Tried(k) \union {l}) <= Cardinality(Logins)
          /\ Cardinality(Tried(k) \union {l}) \in Nat /\ Cardinality(Logins) \in Nat
      BY <1>b, <2>4, TriedSets, Tried(k) \union {l} \in SUBSET Logins
    <3>2. /\ failures[k] \in Nat /\ lapses \in Nat /\ LoginLimit \in Nat
          /\ Cardinality(Tried(k)) \in Nat
          /\ failures[k] + Cardinality(Tried(k)) < Allowance + lapses
      BY <1>0, <1>b, ThrottleAssumption
    <3>3. \/ failures[k] < LoginLimit /\ lapses' = lapses
          \/ lapses' = lapses + 1
      BY <2>1
    <3>4. failures[k] + Cardinality(Tried(k) \union {l}) < Allowance + lapses'
      <4>1. CASE failures[k] < LoginLimit /\ lapses' = lapses
        BY <3>1, <3>2, <4>1 DEF Allowance
      <4>2. CASE lapses' = lapses + 1
        BY <1>a, <3>1, <3>2, <4>2
      <4> QED
        BY <3>3, <4>1, <4>2
    <3>5. failures'[k] = failures[k]
      BY <2>1
    <3> QED
      BY <2>4, <3>4, <3>5
  <2> QED
    BY <1>0, <2>1, <2>2, <2>6, <2>7 DEF ThrottleInv
<1>3. ASSUME NEW l \in Logins, login[l].pc # "idle", NEW p \in {"idle", "first"},
             login' = [login EXCEPT ![l].pc = p],
             failures' \in [Keys -> Nat], lapses' \in {lapses, lapses + 1}, lapses' <= MaxLapses,
             \A k \in Keys :
               \/ failures'[k] <= failures[k]
               \/ k = login[l].key /\ login[l].pc = "tried" /\ failures'[k] = failures[k] + 1
      PROVE  ThrottleInv'
  <2>1. login' \in [Logins -> [pc : {"idle", "tried", "first"}, key : Keys]] /\ lapses' \in 0..MaxLapses
    BY <1>0, <1>3
  <2>2. \A j \in Logins : j # l => login'[j] = login[j]
    BY <1>0, <1>3
  <2>3. login'[l].pc = p
    BY <1>0, <1>3
  <2>4. \A k \in Keys : Tried(k)' = Tried(k) \ {l}
    BY <2>2, <2>3 DEF Tried
  <2>5. ASSUME NEW k \in Keys PROVE failures'[k] + Cardinality(Tried(k)') < Allowance + lapses'
    <3>1. /\ Cardinality(Tried(k) \ {l}) \in Nat /\ Cardinality(Tried(k)) \in Nat
          /\ Cardinality(Tried(k) \ {l}) <= Cardinality(Tried(k))
          /\ l \in Tried(k) => Cardinality(Tried(k) \ {l}) = Cardinality(Tried(k)) - 1
      <4>1. CASE l \in Tried(k)
        BY <1>b, <4>1, TriedSets
      <4>2. CASE l \notin Tried(k)
        <5>1. Tried(k) \ {l} = Tried(k)
          BY <4>2
        <5> QED
          BY <1>b, <4>2, <5>1
      <4> QED
        BY <4>1, <4>2
    <3>2. /\ failures'[k] \in Nat /\ failures[k] \in Nat
          /\ lapses \in Nat /\ lapses' \in Nat /\ lapses <= lapses'
          /\ failures[k] + Cardinality(Tried(k)) < Allowance + lapses
      BY <1>0, <1>3
    <3>3. \/ failures'[k] <= failures[k]
          \/ k = login[l].key /\ login[l].pc = "tried" /\ failures'[k] = failures[k] + 1
      BY <1>3
    <3>4. failures'[k] + Cardinality(Tried(k) \ {l}) < Allowance + lapses'
      <4>1. CASE failures'[k] <= failures[k]
        BY <1>a, <3>1, <3>2, <4>1
      <4>2. CASE k = login[l].key /\ login[l].pc = "tried" /\ failures'[k] = failures[k] + 1
        <5>1. l \in Tried(k)
          BY <4>2 DEF Tried
        <5>2. Cardinality(Tried(k) \ {l}) = Cardinality(Tried(k)) - 1
          BY <3>1, <5>1
        <5> QED
          BY <1>a, <3>1, <3>2, <4>2, <5>2
      <4> QED
        BY <3>3, <4>1, <4>2
    <3> QED
      BY <2>4, <3>4
  <2> QED
    BY <1>3, <2>1, <2>5 DEF ThrottleInv
<1>4. ASSUME NEW l \in Logins,
             LoginSucceeds(l) \/ CountFailure(l) \/ CountFails(l) \/ Expire(l) \/ ExpireLost(l)
      PROVE  ThrottleInv'
  <2> PICK k \in Keys : k = login[l].key
    BY <1>0
  <2>1. /\ login[l].pc # "idle" /\ lapses' \in {lapses, lapses + 1} /\ lapses' <= MaxLapses
    BY <1>0, <1>4 DEF LoginSucceeds, CountFailure, CountFails, Expire, ExpireLost
  <2>2. \E p \in {"idle", "first"} : login' = [login EXCEPT ![l].pc = p]
    BY <1>4 DEF LoginSucceeds, CountFailure, CountFails, Expire, ExpireLost
  <2>3. \/ failures' = failures
        \/ failures' = [failures EXCEPT ![k] = 0]
        \/ failures' = [failures EXCEPT ![k] = @ + 1] /\ login[l].pc = "tried"
    BY <1>4 DEF LoginSucceeds, CountFailure, CountFails, Expire, ExpireLost
  <2>4. /\ failures' \in [Keys -> Nat]
        /\ \A h \in Keys :
             \/ failures'[h] <= failures[h]
             \/ h = login[l].key /\ login[l].pc = "tried" /\ failures'[h] = failures[h] + 1
    <3>1. CASE failures' = failures
      BY <1>0, <3>1
    <3>2. CASE failures' = [failures EXCEPT ![k] = 0]
      BY <1>0, <3>2
    <3>3. CASE failures' = [failures EXCEPT ![k] = @ + 1] /\ login[l].pc = "tried"
      BY <1>0, <3>3
    <3> QED
      BY <2>3, <3>1, <3>2, <3>3
  <2> QED
    BY <1>3, <2>1, <2>2, <2>4
<1> QED
  BY <1>1, <1>2, <1>4 DEF ThrottleNext, LogIn

(* security_http.py, LoginThrottle: the check and the count are two steps, *)
(* so that logins served together may pass the limit, but by no more than  *)
(* one guess for each of them and for each error of Redis.                 *)
THEOREM GuessesBoundedCorrect ==
  ThrottleInit /\ [][ThrottleNext]_throttleVars => []GuessesBounded
<1>1. ThrottleInit => ThrottleInv
  <2> SUFFICES ASSUME ThrottleInit PROVE ThrottleInv
    OBVIOUS
  <2>1. /\ failures = [k \in Keys |-> 0] /\ login \in [Logins -> [pc : {"idle"}, key : Keys]]
        /\ lapses = 0
    BY DEF ThrottleInit
  <2>2. \A k \in Keys : Tried(k) = {}
    BY <2>1 DEF Tried
  <2>3. Cardinality({}) = 0
    BY FS_EmptySet
  <2>4. Allowance \in Nat /\ Allowance > 0
    BY TriedSets, {} \in SUBSET Logins DEF Allowance
  <2>5. login \in [Logins -> [pc : {"idle", "tried", "first"}, key : Keys]]
    BY <2>1
  <2> QED
    BY <2>1, <2>2, <2>3, <2>4, <2>5, ThrottleAssumption DEF ThrottleInv
<1>2. ThrottleInv /\ [ThrottleNext]_throttleVars => ThrottleInv'
  <2> SUFFICES ASSUME ThrottleInv, [ThrottleNext]_throttleVars PROVE ThrottleInv'
    OBVIOUS
  <2>1. CASE UNCHANGED throttleVars
    <3>1. \A k : Tried(k)' = Tried(k)
      BY <2>1 DEF throttleVars, Tried
    <3> QED
      BY <2>1, <3>1 DEF throttleVars, ThrottleInv
  <2> QED
    BY <2>1, ThrottleStepKeeps
<1>3. ThrottleInv => GuessesBounded
  <2> SUFFICES ASSUME ThrottleInv, NEW k \in Keys
               PROVE  failures[k] < LoginLimit + Cardinality(Logins) + MaxLapses
    BY DEF GuessesBounded
  <2>1. Cardinality(Tried(k)) \in Nat /\ Allowance \in Nat
    BY TriedSets DEF Tried, Allowance
  <2>2. /\ failures[k] + Cardinality(Tried(k)) < Allowance + lapses /\ failures[k] \in Nat
        /\ lapses \in 0..MaxLapses /\ MaxLapses \in Nat
    BY ThrottleAssumption DEF ThrottleInv
  <2>3. failures[k] < Allowance + MaxLapses
    BY <2>1, <2>2
  <2> QED
    BY <2>3 DEF Allowance
<1> QED
  BY <1>1, <1>2, <1>3, PTL
===============================================================================
