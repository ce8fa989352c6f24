------------------------------ MODULE AuditChain ------------------------------
(***************************************************************************)
(* The hash-chained audit log (output/audit.py) under the transactions of  *)
(* its callers.  Every service appends inside the database transaction of  *)
(* the work it records: it reads the tenant's newest visible event, stamps *)
(* the clock, and flushes an event that carries the hash of the one it     *)
(* read.  READ COMMITTED: a transaction sees committed events and its own. *)
(* Nothing locks the chain between the read and the commit.                *)
(*                                                                         *)
(* sha256 is taken as injective, so a hash is the tuple it was computed    *)
(* from; event type, actor and payload are one body.  Stamps are taken as  *)
(* distinct (microseconds).                                                *)
(***************************************************************************)
EXTENDS Naturals, FiniteSets

CONSTANTS
    Writers,     \* transactions that append, of any service
    Tenants,
    Bodies,      \* event type, actor label and payload of an event
    NoTenant,    \* no transaction open
    NoRead,      \* nothing read since the last flush
    MaxTime,     \* bound on the events ever stamped
    MaxTampered  \* bound on the events edited or deleted

ASSUME AuditAssumption ==
    /\ NoTenant \notin Tenants
    /\ MaxTime \in Nat
    /\ MaxTampered \in Nat

VARIABLES
    rows,        \* committed events
    pending,     \* pending[w]: events w has flushed and not committed
    tenant,      \* tenant[w]: the chain w's transaction appends to
    read,        \* read[w]: the hash w has read and not yet chained on
    clock,
    overlapped,  \* history: tenants two of whose transactions overlapped
    edited,      \* history: stamps of the events edited after the fact
    deleted      \* history: events deleted after the fact

auditVars == <<rows, pending, tenant, read, clock, overlapped, edited, deleted>>

(* No event hashes to what the first event names as its predecessor.       *)
GENESIS_HASH == <<>>
ComputeHash(prev, body, at) == <<prev, body, at>>

AuditInit ==
    /\ rows = {}
    /\ pending = [w \in Writers |-> {}]
    /\ tenant = [w \in Writers |-> NoTenant]
    /\ read = [w \in Writers |-> NoRead]
    /\ clock = 0
    /\ overlapped = {}
    /\ edited = {}
    /\ deleted = {}

-----------------------------------------------------------------------------
Newest(S) == CHOOSE r \in S : \A s \in S : s.at <= r.at
HashOfNewest(S) == IF S = {} THEN GENESIS_HASH ELSE Newest(S).hash

(* Mutants: the chain is global; uncommitted events of others are seen.    *)
LastOfAll(w, t) == HashOfNewest(rows \cup pending[w])
LastDirty(w, t) ==
    HashOfNewest({r \in rows \cup UNION {pending[v] : v \in Writers} : r.tenant = t})

LastHash(w, t) == HashOfNewest({r \in rows \cup pending[w] : r.tenant = t})

(* append_audit_event up to the clock: the newest event is read.           *)
ReadLast(w, t) ==
    /\ tenant[w] \in {t, NoTenant}
    /\ read[w] = NoRead
    /\ read' = [read EXCEPT ![w] = LastHash(w, t)]
    /\ tenant' = [tenant EXCEPT ![w] = t]
    /\ overlapped' = IF \E v \in Writers \ {w} : tenant[v] = t
                       THEN overlapped \cup {t} ELSE overlapped
    /\ UNCHANGED <<rows, pending, clock, edited, deleted>>

(* The rest: stamped, hashed, flushed.                                     *)
Flush(w, body) ==
    /\ read[w] # NoRead
    /\ clock < MaxTime
    /\ pending' = [pending EXCEPT ![w] = @ \cup
         {[tenant |-> tenant[w], prev |-> read[w], body |-> body, at |-> clock,
           hash |-> ComputeHash(read[w], body, clock)]}]
    /\ read' = [read EXCEPT ![w] = NoRead]
    /\ clock' = clock + 1
    /\ UNCHANGED <<rows, tenant, overlapped, edited, deleted>>

(* The caller's transaction ends; an exception may end it anywhere.        *)
CommitEvents(w) ==
    /\ tenant[w] # NoTenant
    /\ read[w] = NoRead
    /\ rows' = rows \cup pending[w]
    /\ pending' = [pending EXCEPT ![w] = {}]
    /\ tenant' = [tenant EXCEPT ![w] = NoTenant]
    /\ UNCHANGED <<read, clock, overlapped, edited, deleted>>

RollbackEvents(w) ==
    /\ tenant[w] # NoTenant
    /\ pending' = [pending EXCEPT ![w] = {}]
    /\ read' = [read EXCEPT ![w] = NoRead]
    /\ tenant' = [tenant EXCEPT ![w] = NoTenant]
    /\ UNCHANGED <<rows, clock, overlapped, edited, deleted>>

(* What the log is there to show: a committed event changed or removed     *)
(* behind the platform's back.                                             *)
MayTamper == Cardinality(edited) + Cardinality(deleted) < MaxTampered

EditRow(r, body) ==
    /\ MayTamper
    /\ body # r.body /\ r.at \notin edited
    /\ rows' = (rows \ {r}) \cup {[r EXCEPT !.body = body]}
    /\ edited' = edited \cup {r.at}
    /\ UNCHANGED <<pending, tenant, read, clock, overlapped, deleted>>

DeleteRow(r) ==
    /\ MayTamper
    /\ rows' = rows \ {r}
    /\ deleted' = deleted \cup {r}
    /\ UNCHANGED <<pending, tenant, read, clock, overlapped, edited>>

AuditNext ==
    \/ \E w \in Writers, t \in Tenants : ReadLast(w, t)
    \/ \E w \in Writers, body \in Bodies : Flush(w, body)
    \/ \E w \in Writers : CommitEvents(w) \/ RollbackEvents(w)
    \/ \E r \in rows, body \in Bodies : EditRow(r, body)
    \/ \E r \in rows : DeleteRow(r)

AuditSpec == AuditInit /\ [][AuditNext]_auditVars

-----------------------------------------------------------------------------
Chain(t) == {r \in rows : r.tenant = t}

(* Mutant: hashes are not recomputed.                                      *)
VerifiesLinksOnly(t) ==
    \A r \in Chain(t) : r.prev = HashOfNewest({s \in Chain(t) : s.at < r.at})

(* verify_chain over the tenant's whole log in the order of its stamps, as *)
(* GET /audit/events and the evidence pack run it.                         *)
VerifyChain(t) ==
    \A r \in Chain(t) :
        /\ r.prev = HashOfNewest({s \in Chain(t) : s.at < r.at})
        /\ ComputeHash(r.prev, r.body, r.at) = r.hash

Tampered(t) == \/ \E r \in Chain(t) : r.at \in edited
               \/ \E r \in deleted : r.tenant = t

(* As long as the transactions of one tenant do not overlap, its chain     *)
(* verifies, whatever other tenants do and whatever is rolled back.        *)
UntamperedVerifies ==
    \A t \in Tenants \ overlapped : Tampered(t) \/ VerifyChain(t)

(* Stronger than the code: overlapping transactions included.  Fails, see  *)
(* the README.                                                             *)
ChainAlwaysVerifies ==
    \A t \in Tenants : Tampered(t) \/ VerifyChain(t)

(* However transactions overlap, an event names as its predecessor the     *)
(* start of the chain or an earlier committed event of the same tenant     *)
(* (since deleted, perhaps), never one that was rolled back or is another  *)
(* tenant's: the log is a tree, and forks are the only defect.             *)
AnchoredIn(S, prev, t, at) ==
    prev = GENESIS_HASH \/ \E s \in S : s.hash = prev /\ s.tenant = t /\ s.at < at
Anchored ==
    \A r \in rows : AnchoredIn(rows \cup deleted, r.prev, r.tenant, r.at)

(* What of the above the chain does show: an event still there whose body  *)
(* was changed, or whose predecessor was removed, keeps its tenant's log   *)
(* from verifying.  An event removed together with all that came after it  *)
(* is not among them: nothing outside the chain says where it ended.       *)
TamperEvident ==
    \A t \in Tenants :
        (\E r \in Chain(t) :
            r.at \in edited \/ \E d \in deleted : d.tenant = t /\ r.prev = d.hash)
        => ~VerifyChain(t)

(* audit.py: "any row edited or deleted after the fact breaks the chain".  *)
(* The code does less: a log whose newest events, or all of whose events,  *)
(* were removed verifies, and goes on growing from what is left.           *)
TamperAlwaysSeen == \A t \in Tenants : Tampered(t) => ~VerifyChain(t)
=============================================================================
