--------------------------- MODULE AuditChain_proofs ---------------------------
(***************************************************************************)
(* Proofs about AuditChain, for any number of transactions, tenants and    *)
(* events.                                                                 *)
(***************************************************************************)
EXTENDS AuditChain, WellFoundedInduction, TLAPS

(* An event is a record of its five fields, stamped before a time.         *)
Shaped(r, now) ==
    /\ r = [tenant |-> r.tenant, prev |-> r.prev, body |-> r.body, at |-> r.at, hash |-> r.hash]
    /\ r.tenant \in Tenants
    /\ r.at \in Nat /\ r.at < now

ShapeOK ==
    /\ clock \in Nat
    /\ tenant \in [Writers -> Tenants \cup {NoTenant}]
    /\ DOMAIN pending = Writers /\ pending = [w \in Writers |-> pending[w]]
    /\ DOMAIN read = Writers /\ read = [w \in Writers |-> read[w]]
    /\ \A r \in rows \cup deleted : Shaped(r, clock)
    /\ \A w \in Writers : \A r \in pending[w] : Shaped(r, clock) /\ r.tenant = tenant[w]
    /\ \A w \in Writers : tenant[w] = NoTenant => pending[w] = {} /\ read[w] = NoRead

(* What a transaction has read and flushed is anchored in what it sees.    *)
Seen(w) == rows \cup deleted \cup pending[w]
AnchorOK ==
    /\ Anchored
    /\ \A w \in Writers : \A r \in pending[w] : AnchoredIn(Seen(w), r.prev, r.tenant, r.at)
    /\ \A w \in Writers : read[w] # NoRead => AnchoredIn(Seen(w), read[w], tenant[w], clock)

(* Without overlap, the committed chain is linked, the open transaction's  *)
(* own events extend it, and what it has read is the end of the two.       *)
Linked(S) ==
    \A r \in S :
        /\ r.prev = HashOfNewest({s \in S : s.at < r.at})
        /\ ComputeHash(r.prev, r.body, r.at) = r.hash
View(w, t) == Chain(t) \cup pending[w]
Trusted(t) == t \in Tenants \ overlapped /\ ~Tampered(t)
LinkOK ==
    /\ \A v, w \in Writers :
         (v # w /\ tenant[v] = tenant[w] /\ tenant[v] # NoTenant) => tenant[v] \in overlapped
    /\ \A t \in Tenants : Trusted(t) => Linked(Chain(t))
    /\ \A w \in Writers, t \in Tenants : (tenant[w] = t /\ Trusted(t)) =>
         /\ Linked(View(w, t))
         /\ \A r \in Chain(t), p \in pending[w] : r.at < p.at
         /\ read[w] # NoRead => read[w] = HashOfNewest(View(w, t))

AuditIInv == ShapeOK /\ AnchorOK /\ LinkOK

-----------------------------------------------------------------------------
(* A set of events with stamps below a bound has a newest one.             *)
LEMMA NewestExists ==
    ASSUME NEW S, S # {}, NEW c \in Nat, \A r \in S : r.at \in Nat /\ r.at < c
    PROVE  Newest(S) \in S /\ \A s \in S : s.at <= Newest(S).at
<1> DEFINE Below == {c - r.at : r \in S}
<1>1. Below \subseteq Nat /\ Below # {}
  OBVIOUS
<1>2. IsWellFoundedOn(OpToRel(<, Nat), Nat)
  BY NatLessThanWellFounded
<1>3. \E x \in Below : \A y \in Below : <<y, x>> \notin OpToRel(<, Nat)
  BY <1>1, <1>2, WFMin
<1>4. \A x, y \in Nat : y < x => <<y, x>> \in OpToRel(<, Nat)
  BY DEF OpToRel
<1>5. PICK x \in Below : \A y \in Below : ~(y < x)
  BY <1>1, <1>3, <1>4
<1>6. PICK r \in S : x = c - r.at
  OBVIOUS
<1>7. \A s \in S : s.at <= r.at
  <2> SUFFICES ASSUME NEW s \in S PROVE s.at <= r.at
    OBVIOUS
  <2>1. c - s.at \in Below
    OBVIOUS
  <2>2. ~(c - s.at < c - r.at)
    BY <1>5, <1>6, <2>1
  <2>3. QED
    BY <2>2
<1>8. QED
  BY <1>7 DEF Newest

(* What a transaction reads is the genesis hash or that of a visible event *)
(* of its tenant.                                                          *)
LEMMA LastHashAnchored ==
    ASSUME ShapeOK, NEW w \in Writers, NEW t \in Tenants
    PROVE  AnchoredIn(Seen(w), LastHash(w, t), t, clock)
<1> DEFINE S == {r \in rows \cup pending[w] : r.tenant = t}
<1>1. CASE S = {}
  BY <1>1 DEF AnchoredIn, LastHash, HashOfNewest
<1>2. CASE S # {}
  <2>1. \A r \in S : r.at \in Nat /\ r.at < clock
    BY DEF ShapeOK, Shaped
  <2>2. Newest(S) \in S
    BY <1>2, <2>1, NewestExists DEF ShapeOK
  <2>3. Newest(S) \in Seen(w) /\ Newest(S).tenant = t /\ Newest(S).at < clock
    BY <2>1, <2>2 DEF Seen
  <2>4. LastHash(w, t) = Newest(S).hash
    BY <1>2 DEF LastHash, HashOfNewest
  <2>5. QED
    BY <2>3, <2>4 DEF AnchoredIn
<1>3. QED
  BY <1>1, <1>2

(* Stamps stay below the clock, and each transaction writes for one tenant. *)
LEMMA ShapeStep ==
    ASSUME ShapeOK, [AuditNext]_auditVars
    PROVE  ShapeOK'
<1> USE AuditAssumption
<1>1. ASSUME NEW w \in Writers, NEW t \in Tenants, ReadLast(w, t) PROVE ShapeOK'
  BY <1>1 DEF ShapeOK, Shaped, ReadLast
<1>2. ASSUME NEW w \in Writers, NEW body \in Bodies, Flush(w, body) PROVE ShapeOK'
  <2>1. clock' = clock + 1 /\ \A r : Shaped(r, clock) => Shaped(r, clock + 1)
    BY <1>2 DEF Shaped, Flush, ShapeOK
  <2>2. tenant[w] \in Tenants
    BY <1>2 DEF ShapeOK, Flush
  <2> DEFINE e == [tenant |-> tenant[w], prev |-> read[w], body |-> body, at |-> clock,
                   hash |-> ComputeHash(read[w], body, clock)]
  <2>3. Shaped(e, clock + 1) /\ e.tenant = tenant[w]
    BY <2>2 DEF Shaped, ShapeOK
  <2>4. pending' = [pending EXCEPT ![w] = @ \cup {e}]
    BY <1>2 DEF Flush
  <2> HIDE DEF e
  <2>5. \A v \in Writers : \A r \in pending'[v] :
          Shaped(r, clock + 1) /\ r.tenant = tenant[v]
    <3>1. pending'[w] = pending[w] \cup {e} /\ \A v \in Writers \ {w} : pending'[v] = pending[v]
      BY <2>4 DEF ShapeOK
    <3>2. QED
      BY <2>1, <2>3, <3>1 DEF ShapeOK
  <2>6. /\ DOMAIN pending' = Writers /\ pending' = [v \in Writers |-> pending'[v]]
        /\ DOMAIN read' = Writers /\ read' = [v \in Writers |-> read'[v]]
    BY <1>2, <2>4 DEF ShapeOK, Flush
  <2>7. /\ UNCHANGED <<rows, tenant, deleted>>
        /\ \A v \in Writers : tenant[v] = NoTenant =>
             pending'[v] = pending[v] /\ read'[v] = read[v]
    BY <1>2, <2>2, <2>4 DEF ShapeOK, Flush
  <2>8. QED
    BY <2>1, <2>5, <2>6, <2>7 DEF ShapeOK
<1>3. ASSUME NEW w \in Writers, CommitEvents(w) PROVE ShapeOK'
  BY <1>3 DEF ShapeOK, Shaped, CommitEvents
<1>4. ASSUME NEW w \in Writers, RollbackEvents(w) PROVE ShapeOK'
  BY <1>4 DEF ShapeOK, Shaped, RollbackEvents
<1>5. ASSUME NEW r \in rows, NEW body \in Bodies, EditRow(r, body) PROVE ShapeOK'
  BY <1>5 DEF ShapeOK, Shaped, EditRow
<1>6. ASSUME NEW r \in rows, DeleteRow(r) PROVE ShapeOK'
  BY <1>6 DEF ShapeOK, Shaped, DeleteRow
<1>7. CASE UNCHANGED auditVars
  BY <1>7 DEF ShapeOK, Shaped, auditVars
<1>8. QED
  BY <1>1, <1>2, <1>3, <1>4, <1>5, <1>6, <1>7 DEF AuditNext

(* Every step keeps what is committed, flushed or read anchored.           *)
LEMMA AnchorStep ==
    ASSUME ShapeOK, AnchorOK, [AuditNext]_auditVars
    PROVE  AnchorOK'
<1>1. ASSUME NEW w \in Writers, NEW t \in Tenants, ReadLast(w, t) PROVE AnchorOK'
  <2>1. /\ UNCHANGED <<rows, pending, clock, deleted>>
        /\ tenant[w] \in {t, NoTenant}
        /\ tenant'[w] = t /\ read'[w] = LastHash(w, t)
        /\ \A v \in Writers \ {w} : tenant'[v] = tenant[v] /\ read'[v] = read[v]
    BY <1>1 DEF ReadLast, ShapeOK
  <2>2. AnchoredIn(Seen(w), read'[w], t, clock)
    BY <2>1, LastHashAnchored
  <2>3. QED
    BY <2>1, <2>2 DEF AnchorOK, Anchored, Seen
<1>2. ASSUME NEW w \in Writers, NEW body \in Bodies, Flush(w, body) PROVE AnchorOK'
  <2> DEFINE e == [tenant |-> tenant[w], prev |-> read[w], body |-> body, at |-> clock,
                   hash |-> ComputeHash(read[w], body, clock)]
  <2>1. /\ UNCHANGED <<rows, tenant, deleted>>
        /\ clock' = clock + 1
        /\ read[w] # NoRead /\ read'[w] = NoRead
        /\ pending'[w] = pending[w] \cup {e}
        /\ \A v \in Writers \ {w} : pending'[v] = pending[v] /\ read'[v] = read[v]
    BY <1>2 DEF Flush, ShapeOK
  <2>2. AnchoredIn(Seen(w), e.prev, e.tenant, e.at)
    BY <2>1 DEF AnchorOK
  <2> HIDE DEF e
  <2>3. \A v \in Writers : \A prev, t, at :
          AnchoredIn(Seen(v), prev, t, at) => AnchoredIn(Seen(v)', prev, t, at)
    BY <2>1 DEF Seen, AnchoredIn
  <2>4. \A v \in Writers : \A prev, t :
          AnchoredIn(Seen(v), prev, t, clock) => AnchoredIn(Seen(v), prev, t, clock + 1)
    BY DEF AnchoredIn, Seen, ShapeOK, Shaped
  <2>5. \A v \in Writers : \A r \in pending'[v] : AnchoredIn(Seen(v)', r.prev, r.tenant, r.at)
    BY <2>1, <2>2, <2>3 DEF AnchorOK
  <2>6. \A v \in Writers : read'[v] # NoRead => AnchoredIn(Seen(v)', read'[v], tenant[v], clock')
    BY <2>1, <2>3, <2>4 DEF AnchorOK
  <2>7. QED
    BY <2>1, <2>5, <2>6 DEF AnchorOK, Anchored
<1>3. ASSUME NEW w \in Writers, CommitEvents(w) PROVE AnchorOK'
  <2>1. /\ UNCHANGED <<read, clock, deleted>>
        /\ rows' = rows \cup pending[w] /\ read[w] = NoRead
        /\ pending'[w] = {}
        /\ \A v \in Writers \ {w} : pending'[v] = pending[v] /\ tenant'[v] = tenant[v]
    BY <1>3 DEF CommitEvents, ShapeOK
  <2>2. Seen(w) = rows' \cup deleted'
    BY <2>1 DEF Seen
  <2>3. \A v \in Writers \ {w} : \A prev, t, at :
          AnchoredIn(Seen(v), prev, t, at) => AnchoredIn(Seen(v)', prev, t, at)
    BY <2>1 DEF Seen, AnchoredIn
  <2>4. \A prev, t, at : AnchoredIn(rows \cup deleted, prev, t, at)
                           => AnchoredIn(rows' \cup deleted', prev, t, at)
    BY <2>1 DEF AnchoredIn
  <2>5. Anchored'
    BY <2>1, <2>2, <2>4 DEF AnchorOK, Anchored
  <2>6. QED
    BY <2>1, <2>3, <2>5 DEF AnchorOK
<1>4. ASSUME NEW w \in Writers, RollbackEvents(w) PROVE AnchorOK'
  <2>1. /\ UNCHANGED <<rows, clock, deleted>>
        /\ read'[w] = NoRead /\ pending'[w] = {}
        /\ \A v \in Writers \ {w} :
             pending'[v] = pending[v] /\ tenant'[v] = tenant[v] /\ read'[v] = read[v]
    BY <1>4 DEF RollbackEvents, ShapeOK
  <2>2. QED
    BY <2>1 DEF AnchorOK, Anchored, Seen
<1>5. ASSUME NEW r \in rows, NEW body \in Bodies, EditRow(r, body) PROVE AnchorOK'
  <2> DEFINE e == [r EXCEPT !.body = body]
  <2>1. e.hash = r.hash /\ e.tenant = r.tenant /\ e.at = r.at /\ e.prev = r.prev
    BY DEF ShapeOK, Shaped
  <2>2. rows' = (rows \ {r}) \cup {e} /\ UNCHANGED <<pending, tenant, read, clock, deleted>>
    BY <1>5 DEF EditRow
  <2> HIDE DEF e
  <2>3. \A prev, t, at :
          /\ AnchoredIn(rows \cup deleted, prev, t, at)
               => AnchoredIn(rows' \cup deleted', prev, t, at)
          /\ \A w \in Writers :
               AnchoredIn(Seen(w), prev, t, at) => AnchoredIn(Seen(w)', prev, t, at)
    BY <2>1, <2>2 DEF Seen, AnchoredIn
  <2>4. QED
    BY <2>1, <2>2, <2>3 DEF AnchorOK, Anchored
<1>6. ASSUME NEW r \in rows, DeleteRow(r) PROVE AnchorOK'
  <2>1. rows' \cup deleted' = rows \cup deleted /\ rows' \subseteq rows
        /\ UNCHANGED <<pending, tenant, read, clock>>
    BY <1>6 DEF DeleteRow
  <2>2. QED
    BY <2>1 DEF AnchorOK, Anchored, Seen
<1>7. CASE UNCHANGED auditVars
  BY <1>7 DEF AnchorOK, Anchored, Seen, auditVars
<1>8. QED
  BY <1>1, <1>2, <1>3, <1>4, <1>5, <1>6, <1>7 DEF AuditNext

(* Tampering is not undone, and overlaps are not forgotten.                *)
LEMMA TrustedBefore ==
    ASSUME ShapeOK, AuditNext, NEW t \in Tenants, Trusted(t)'
    PROVE  Trusted(t)
<1>1. t \notin overlapped
  BY DEF Trusted, AuditNext, ReadLast, Flush, CommitEvents, RollbackEvents, EditRow, DeleteRow
<1>2. ASSUME Tampered(t) PROVE FALSE
  <2>1. edited \subseteq edited' /\ deleted \subseteq deleted'
    BY DEF AuditNext, ReadLast, Flush, CommitEvents, RollbackEvents, EditRow, DeleteRow
  <2>2. ~(\E d \in deleted : d.tenant = t)
    BY <2>1 DEF Trusted, Tampered
  <2>3. PICK r \in Chain(t) : r.at \in edited
    BY <1>2, <2>2 DEF Tampered
  <2>4. CASE r \in rows'
    BY <2>1, <2>3, <2>4 DEF Trusted, Tampered, Chain
  <2>5. CASE r \notin rows'
    <3>1. ~(\E body \in Bodies : EditRow(r, body))
      <4>1. r.at \in edited
        BY <2>3
      <4>2. QED
        BY <4>1 DEF EditRow
    <3>2. r \in deleted'
      BY <2>3, <2>5, <3>1
      DEF Chain, AuditNext, ReadLast, Flush, CommitEvents, RollbackEvents, EditRow, DeleteRow
    <3>3. QED
      BY <2>3, <3>2 DEF Trusted, Tampered, Chain
  <2>6. QED
    BY <2>4, <2>5
<1>3. QED
  BY <1>1, <1>2 DEF Trusted

(* A linked chain stays linked when an event stamped later extends it.     *)
LEMMA LinkedExtends ==
    ASSUME NEW S, NEW e, \A s \in S : s.at \in Nat /\ s.at < e.at, e.at \in Nat, Linked(S),
           e.prev = HashOfNewest(S), ComputeHash(e.prev, e.body, e.at) = e.hash
    PROVE  Linked(S \cup {e})
<1>1. {s \in S \cup {e} : s.at < e.at} = S
  OBVIOUS
<1>2. \A r \in S : {s \in S \cup {e} : s.at < r.at} = {s \in S : s.at < r.at}
  OBVIOUS
<1>3. QED
  BY <1>1, <1>2 DEF Linked

(* Without overlap the view of an open transaction stays linked, and ends  *)
(* in the hash the transaction has in hand.                                *)
LEMMA LinkStep ==
    ASSUME ShapeOK, LinkOK, [AuditNext]_auditVars
    PROVE  LinkOK'
<1>1. ASSUME NEW w \in Writers, NEW t \in Tenants, ReadLast(w, t) PROVE LinkOK'
  <2>1. /\ UNCHANGED <<rows, pending, edited, deleted>>
        /\ tenant[w] \in {t, NoTenant}
        /\ tenant'[w] = t /\ read'[w] = LastHash(w, t)
        /\ \A v \in Writers \ {w} : tenant'[v] = tenant[v] /\ read'[v] = read[v]
        /\ overlapped \subseteq overlapped'
        /\ \A v \in Writers \ {w} : tenant[v] = t => t \in overlapped'
    BY <1>1 DEF ReadLast, ShapeOK
  <2>2. \A u : Trusted(u)' => Trusted(u)
    BY <2>1 DEF Trusted, Tampered, Chain
  <2>3. View(w, t)' = {r \in rows \cup pending[w] : r.tenant = t}
    BY <2>1 DEF View, Chain, ShapeOK
  <2>4. Trusted(t)' => /\ Linked(View(w, t))
                       /\ \A r \in Chain(t), p \in pending[w] : r.at < p.at
    <3>1. CASE tenant[w] = t
      BY <2>2, <3>1 DEF LinkOK
    <3>2. CASE tenant[w] = NoTenant
      <4>1. pending[w] = {} /\ View(w, t) = Chain(t)
        BY <3>2 DEF ShapeOK, View
      <4>2. QED
        BY <2>2, <4>1 DEF LinkOK
    <3>3. QED
      BY <2>1, <3>1, <3>2
  <2>5. \A v, u \in Writers :
          (v # u /\ tenant'[v] = tenant'[u] /\ tenant'[v] # NoTenant) => tenant'[v] \in overlapped'
    BY <2>1 DEF LinkOK
  <2>6. \A u : Chain(u)' = Chain(u) /\ \A v : View(v, u)' = View(v, u)
    BY <2>1 DEF Chain, View
  <2>7. \A u \in Tenants : Trusted(u)' => Linked(Chain(u))
    BY <2>2 DEF LinkOK
  <2>8. \A v \in Writers, u \in Tenants : (tenant'[v] = u /\ Trusted(u)') =>
          /\ Linked(View(v, u))
          /\ \A r \in Chain(u), p \in pending[v] : r.at < p.at
          /\ read'[v] # NoRead => read'[v] = HashOfNewest(View(v, u))
    <3>1. read'[w] = HashOfNewest(View(w, t))
      BY <2>1, <2>3, <2>6 DEF LastHash
    <3>2. QED
      BY <2>1, <2>2, <2>4, <3>1 DEF LinkOK
  <2>9. QED
    BY <2>1, <2>5, <2>6, <2>7, <2>8 DEF LinkOK, Linked
<1>2. ASSUME NEW w \in Writers, NEW body \in Bodies, Flush(w, body) PROVE LinkOK'
  <2> DEFINE e == [tenant |-> tenant[w], prev |-> read[w], body |-> body, at |-> clock,
                   hash |-> ComputeHash(read[w], body, clock)]
  <2>1. /\ UNCHANGED <<rows, tenant, overlapped, edited, deleted>>
        /\ read[w] # NoRead /\ read'[w] = NoRead
        /\ pending'[w] = pending[w] \cup {e}
        /\ \A v \in Writers \ {w} : pending'[v] = pending[v] /\ read'[v] = read[v]
    BY <1>2 DEF Flush, ShapeOK
  <2>2. \A u : Trusted(u)' => Trusted(u)
    BY <2>1 DEF Trusted, Tampered, Chain
  <2>3. /\ e.at = clock /\ e.prev = read[w] /\ clock \in Nat
        /\ ComputeHash(e.prev, e.body, e.at) = e.hash
    BY DEF ShapeOK
  <2> HIDE DEF e
  <2>4. \A t \in Tenants : \A r \in View(w, t) : r.at \in Nat /\ r.at < clock
    BY DEF View, Chain, ShapeOK, Shaped
  <2>5. \A u : /\ Chain(u)' = Chain(u)
               /\ View(w, u)' = View(w, u) \cup {e}
               /\ \A v \in Writers \ {w} : View(v, u)' = View(v, u)
    BY <2>1 DEF View, Chain
  <2>6. ASSUME NEW t \in Tenants, tenant[w] = t, Trusted(t)'
        PROVE  /\ Linked(View(w, t) \cup {e})
               /\ \A r \in Chain(t), p \in pending'[w] : r.at < p.at
    <3>1. Linked(View(w, t)) /\ read[w] = HashOfNewest(View(w, t))
          /\ \A r \in Chain(t), p \in pending[w] : r.at < p.at
      BY <2>1, <2>2, <2>6 DEF LinkOK
    <3>2. Linked(View(w, t) \cup {e})
      BY <2>3, <2>4, <3>1, LinkedExtends
    <3>3. QED
      BY <2>1, <2>3, <2>4, <3>1, <3>2 DEF View
  <2>7. \A v \in Writers, u \in Tenants : (tenant'[v] = u /\ Trusted(u)') =>
          /\ Linked(View(v, u)')
          /\ \A r \in Chain(u)', p \in pending'[v] : r.at < p.at
          /\ read'[v] # NoRead => read'[v] = HashOfNewest(View(v, u)')
    BY <2>1, <2>2, <2>5, <2>6 DEF LinkOK
  <2>8. \A u \in Tenants : Trusted(u)' => Linked(Chain(u)')
    BY <2>2, <2>5 DEF LinkOK
  <2>9. QED
    BY <2>1, <2>7, <2>8 DEF LinkOK, Linked
<1>3. ASSUME NEW w \in Writers, CommitEvents(w) PROVE LinkOK'
  <2>1. /\ UNCHANGED <<overlapped, read>>
        /\ rows' = rows \cup pending[w] /\ read[w] = NoRead
        /\ pending'[w] = {} /\ tenant'[w] = NoTenant /\ tenant[w] # NoTenant
        /\ \A v \in Writers \ {w} : pending'[v] = pending[v] /\ tenant'[v] = tenant[v]
        /\ \A p \in pending[w] : p.tenant = tenant[w]
    BY <1>3 DEF CommitEvents, ShapeOK
  <2>2. \A u \in Tenants : Trusted(u)' => Trusted(u)
    BY <1>3, TrustedBefore DEF AuditNext
  <2>3. ASSUME NEW t \in Tenants
        PROVE  Chain(t)' = IF tenant[w] = t THEN View(w, t) ELSE Chain(t)
    BY <2>1 DEF Chain, View
  <2>4. \A t \in Tenants : Trusted(t)' => Linked(Chain(t)')
    BY <2>2, <2>3 DEF LinkOK
  <2>5. ASSUME NEW v \in Writers, NEW t \in Tenants, tenant'[v] = t, Trusted(t)'
        PROVE  tenant[v] = t /\ Trusted(t) /\ Chain(t)' = Chain(t) /\ View(v, t)' = View(v, t)
               /\ v # w
    <3>1. v # w /\ tenant[v] = t
      BY <2>1, <2>5, AuditAssumption
    <3>2. Trusted(t) /\ tenant[w] # t
      BY <2>2, <2>5, <3>1, AuditAssumption DEF LinkOK, Trusted
    <3>3. QED
      BY <2>1, <2>3, <3>1, <3>2 DEF View
  <2>6. \A v \in Writers, t \in Tenants : (tenant'[v] = t /\ Trusted(t)') =>
           /\ Linked(View(v, t)')
           /\ \A r \in Chain(t)', p \in pending'[v] : r.at < p.at
           /\ read'[v] # NoRead => read'[v] = HashOfNewest(View(v, t)')
    BY <2>1, <2>5 DEF LinkOK
  <2>7. \A v, u \in Writers :
          (v # u /\ tenant'[v] = tenant'[u] /\ tenant'[v] # NoTenant) => tenant'[v] \in overlapped'
    BY <2>1 DEF LinkOK
  <2>8. QED
    BY <2>4, <2>6, <2>7 DEF LinkOK, Linked
<1>4. ASSUME NEW w \in Writers, RollbackEvents(w) PROVE LinkOK'
  <2>1. /\ UNCHANGED <<rows, overlapped, edited, deleted>>
        /\ tenant'[w] = NoTenant
        /\ \A v \in Writers \ {w} :
             pending'[v] = pending[v] /\ tenant'[v] = tenant[v] /\ read'[v] = read[v]
    BY <1>4 DEF RollbackEvents, ShapeOK
  <2>2. \A u : (Trusted(u)' <=> Trusted(u)) /\ Chain(u)' = Chain(u)
    BY <2>1 DEF Trusted, Tampered, Chain
  <2>3. \A v \in Writers \ {w} : \A u : View(v, u)' = View(v, u)
    BY <2>1, <2>2 DEF View, Chain
  <2>4. \A v \in Writers, t \in Tenants : tenant'[v] = t => v # w /\ tenant[v] = t
    BY <2>1, AuditAssumption
  <2>5. QED
    BY <2>1, <2>2, <2>3, <2>4 DEF LinkOK, Linked
<1>5. ASSUME NEW r \in rows,
             (\E body \in Bodies : EditRow(r, body)) \/ DeleteRow(r)
      PROVE  LinkOK'
  <2>1. UNCHANGED <<pending, tenant, read, overlapped>>
    BY <1>5 DEF EditRow, DeleteRow
  <2>2. \A u \in Tenants : Trusted(u)' => Trusted(u)
    BY <1>5, TrustedBefore DEF AuditNext
  <2>3. ~Trusted(r.tenant)' /\ \A u \in Tenants \ {r.tenant} : Chain(u)' = Chain(u)
    <3>1. CASE DeleteRow(r)
      BY <3>1 DEF DeleteRow, Trusted, Tampered, Chain
    <3>2. ASSUME NEW body \in Bodies, EditRow(r, body)
          PROVE  ~Trusted(r.tenant)' /\ \A u \in Tenants \ {r.tenant} : Chain(u)' = Chain(u)
      <4> DEFINE e == [r EXCEPT !.body = body]
      <4>1. e.tenant = r.tenant /\ e.at = r.at
        BY DEF ShapeOK, Shaped
      <4>2. rows' = (rows \ {r}) \cup {e} /\ edited' = edited \cup {r.at}
        BY <3>2 DEF EditRow
      <4> HIDE DEF e
      <4>3. QED
        BY <4>1, <4>2 DEF Trusted, Tampered, Chain
    <3>3. QED
      BY <1>5, <3>1, <3>2
  <2>4. \A u \in Tenants : Trusted(u)' => Chain(u)' = Chain(u)
    BY <2>3
  <2>5. \A v \in Writers, u \in Tenants : Trusted(u)' => View(v, u)' = View(v, u)
    BY <2>1, <2>4 DEF View
  <2>6. \A u \in Tenants : Trusted(u)' => Linked(Chain(u)')
    BY <2>2, <2>4 DEF LinkOK
  <2>7. \A v \in Writers, u \in Tenants : (tenant'[v] = u /\ Trusted(u)') =>
           /\ Linked(View(v, u)')
           /\ \A x \in Chain(u)', p \in pending'[v] : x.at < p.at
           /\ read'[v] # NoRead => read'[v] = HashOfNewest(View(v, u)')
    BY <2>1, <2>2, <2>4, <2>5 DEF LinkOK
  <2>8. \A v, u \in Writers :
          (v # u /\ tenant'[v] = tenant'[u] /\ tenant'[v] # NoTenant) => tenant'[v] \in overlapped'
    BY <2>1 DEF LinkOK
  <2>9. QED
    BY <2>6, <2>7, <2>8 DEF LinkOK, Linked
<1>6. CASE UNCHANGED auditVars
  <2>1. \A u : Chain(u)' = Chain(u) /\ (Trusted(u)' <=> Trusted(u))
    BY <1>6 DEF Chain, Trusted, Tampered, auditVars
  <2>2. \A v, u : View(v, u)' = View(v, u)
    BY <1>6, <2>1 DEF View, auditVars
  <2>3. UNCHANGED <<tenant, overlapped, pending, read>>
    BY <1>6 DEF auditVars
  <2>4. QED
    BY <2>1, <2>2, <2>3 DEF LinkOK, Linked
<1>7. QED
  BY <1>1, <1>2, <1>3, <1>4, <1>5, <1>6 DEF AuditNext

-----------------------------------------------------------------------------
(* The empty log satisfies the inductive invariant.                        *)
LEMMA AuditIInvInit == AuditInit => AuditIInv
BY AuditAssumption
DEF AuditInit, AuditIInv, ShapeOK, AnchorOK, Anchored, LinkOK, Linked, View, Chain, Trusted

(* The inductive invariant holds in every reachable state.                 *)
LEMMA AuditIInvCorrect == AuditSpec => []AuditIInv
<1>1. AuditIInv /\ [AuditNext]_auditVars => AuditIInv'
  BY ShapeStep, AnchorStep, LinkStep DEF AuditIInv
<1>2. QED
  BY <1>1, AuditIInvInit, PTL DEF AuditSpec

(* However transactions overlap and roll back, the log of a tenant is a    *)
(* tree: every committed event names the start of the chain or an earlier  *)
(* committed event of its own tenant.                                      *)
THEOREM AnchoredCorrect == AuditSpec => []Anchored
<1>1. AuditIInv => Anchored
  BY DEF AuditIInv, AnchorOK
<1>2. QED
  BY <1>1, AuditIInvCorrect, PTL

(* A tenant whose transactions do not overlap has a log that verifies, for *)
(* any number of other tenants, transactions and rollbacks.                *)
THEOREM UntamperedVerifiesCorrect == AuditSpec => []UntamperedVerifies
<1>1. AuditIInv => UntamperedVerifies
  BY DEF AuditIInv, LinkOK, Linked, Trusted, UntamperedVerifies, VerifyChain
<1>2. QED
  BY <1>1, AuditIInvCorrect, PTL

-----------------------------------------------------------------------------
(* A stamp names one event, ever: committed, removed, or flushed by one    *)
(* transaction.                                                            *)
StampsOK ==
    /\ \A r, s \in rows : r.at = s.at => r = s
    /\ \A r \in rows, d \in deleted : r.at # d.at
    /\ \A w \in Writers : \A p \in pending[w] :
         /\ \A r \in rows \cup deleted : r.at # p.at
         /\ \A q \in pending[w] : p.at = q.at => p = q
    /\ \A v, w \in Writers : v # w => \A p \in pending[v], q \in pending[w] : p.at # q.at

(* An event's hash is that of the body it was written with, and that body  *)
(* is gone just if the event was edited.                                   *)
Faithful(r) ==
    \E b : r.hash = ComputeHash(r.prev, b, r.at) /\ (r.at \in edited <=> b # r.body)
HashesOK ==
    /\ \A x \in edited : x \in Nat /\ x < clock
    /\ \A r \in rows \cup deleted : Faithful(r)
    /\ \A w \in Writers : \A p \in pending[w] : Faithful(p) /\ p.at \notin edited

(* The clock makes every new event's stamp new.                            *)
LEMMA StampsStep ==
    ASSUME ShapeOK, StampsOK, [AuditNext]_auditVars
    PROVE  StampsOK'
<1>1. ASSUME NEW w \in Writers, NEW t \in Tenants, ReadLast(w, t) PROVE StampsOK'
  BY <1>1 DEF StampsOK, ReadLast
<1>2. ASSUME NEW w \in Writers, NEW body \in Bodies, Flush(w, body) PROVE StampsOK'
  <2> DEFINE e == [tenant |-> tenant[w], prev |-> read[w], body |-> body, at |-> clock,
                   hash |-> ComputeHash(read[w], body, clock)]
  <2>1. /\ UNCHANGED <<rows, deleted>>
        /\ pending'[w] = pending[w] \cup {e}
        /\ \A v \in Writers \ {w} : pending'[v] = pending[v]
    BY <1>2 DEF Flush, ShapeOK
  <2>2. e.at = clock
    OBVIOUS
  <2> HIDE DEF e
  <2>3. /\ \A r \in rows \cup deleted : r.at # e.at
        /\ \A v \in Writers : \A p \in pending[v] : p.at # e.at
    BY <2>2 DEF ShapeOK, Shaped
  <2>4. QED
    BY <2>1, <2>3 DEF StampsOK
<1>3. ASSUME NEW w \in Writers, CommitEvents(w) PROVE StampsOK'
  <2>1. /\ UNCHANGED deleted
        /\ rows' = rows \cup pending[w] /\ pending'[w] = {}
        /\ \A v \in Writers \ {w} : pending'[v] = pending[v]
    BY <1>3 DEF CommitEvents, ShapeOK
  <2>2. QED
    BY <2>1 DEF StampsOK
<1>4. ASSUME NEW w \in Writers, RollbackEvents(w) PROVE StampsOK'
  <2>1. /\ UNCHANGED <<rows, deleted>> /\ pending'[w] = {}
        /\ \A v \in Writers \ {w} : pending'[v] = pending[v]
    BY <1>4 DEF RollbackEvents, ShapeOK
  <2>2. QED
    BY <2>1 DEF StampsOK
<1>5. ASSUME NEW r \in rows, NEW body \in Bodies, EditRow(r, body) PROVE StampsOK'
  <2> DEFINE e == [r EXCEPT !.body = body]
  <2>1. e.at = r.at
    BY DEF ShapeOK, Shaped
  <2>2. rows' = (rows \ {r}) \cup {e} /\ UNCHANGED <<pending, deleted>>
    BY <1>5 DEF EditRow
  <2> HIDE DEF e
  <2>3. QED
    BY <2>1, <2>2 DEF StampsOK
<1>6. ASSUME NEW r \in rows, DeleteRow(r) PROVE StampsOK'
  BY <1>6 DEF StampsOK, DeleteRow
<1>7. CASE UNCHANGED auditVars
  BY <1>7 DEF StampsOK, auditVars
<1>8. QED
  BY <1>1, <1>2, <1>3, <1>4, <1>5, <1>6, <1>7 DEF AuditNext

(* Writing is faithful, and an edit spoils the edited event alone.         *)
LEMMA HashesStep ==
    ASSUME ShapeOK, StampsOK, HashesOK, [AuditNext]_auditVars
    PROVE  HashesOK'
<1>1. ASSUME NEW w \in Writers, NEW t \in Tenants, ReadLast(w, t) PROVE HashesOK'
  <2>1. UNCHANGED <<rows, pending, clock, edited, deleted>>
    BY <1>1 DEF ReadLast
  <2>2. QED
    BY <2>1 DEF HashesOK, Faithful
<1>2. ASSUME NEW w \in Writers, NEW body \in Bodies, Flush(w, body) PROVE HashesOK'
  <2> DEFINE e == [tenant |-> tenant[w], prev |-> read[w], body |-> body, at |-> clock,
                   hash |-> ComputeHash(read[w], body, clock)]
  <2>1. /\ UNCHANGED <<rows, edited, deleted>>
        /\ clock' = clock + 1
        /\ pending'[w] = pending[w] \cup {e}
        /\ \A v \in Writers \ {w} : pending'[v] = pending[v]
    BY <1>2 DEF Flush, ShapeOK
  <2>2. e.at = clock /\ e.body = body /\ e.hash = ComputeHash(e.prev, body, e.at)
    OBVIOUS
  <2> HIDE DEF e
  <2>3. clock \in Nat /\ e.at \notin edited
    BY <2>2 DEF HashesOK, ShapeOK
  <2>4. Faithful(e)
    BY <2>2, <2>3 DEF Faithful
  <2>5. \A x \in edited' : x \in Nat /\ x < clock'
    BY <2>1, <2>3 DEF HashesOK
  <2>6. \A v \in Writers : \A p \in pending'[v] : Faithful(p) /\ p.at \notin edited
    BY <2>1, <2>3, <2>4 DEF HashesOK
  <2>7. \A r : Faithful(r) => Faithful(r)'
    BY <2>1 DEF Faithful
  <2>8. QED
    BY <2>1, <2>5, <2>6, <2>7 DEF HashesOK
<1>3. ASSUME NEW w \in Writers, CommitEvents(w) PROVE HashesOK'
  <2>1. /\ UNCHANGED <<deleted, edited, clock>>
        /\ rows' = rows \cup pending[w] /\ pending'[w] = {}
        /\ \A v \in Writers \ {w} : pending'[v] = pending[v]
    BY <1>3 DEF CommitEvents, ShapeOK
  <2>2. \A r : Faithful(r) => Faithful(r)'
    BY <2>1 DEF Faithful
  <2>3. QED
    BY <2>1, <2>2 DEF HashesOK
<1>4. ASSUME NEW w \in Writers, RollbackEvents(w) PROVE HashesOK'
  <2>1. /\ UNCHANGED <<rows, deleted, edited, clock>> /\ pending'[w] = {}
        /\ \A v \in Writers \ {w} : pending'[v] = pending[v]
    BY <1>4 DEF RollbackEvents, ShapeOK
  <2>2. \A r : Faithful(r) => Faithful(r)'
    BY <2>1 DEF Faithful
  <2>3. QED
    BY <2>1, <2>2 DEF HashesOK
<1>5. ASSUME NEW r \in rows, NEW body \in Bodies, EditRow(r, body) PROVE HashesOK'
  <2> DEFINE e == [r EXCEPT !.body = body]
  <2>1. /\ e.at = r.at /\ e.prev = r.prev /\ e.hash = r.hash /\ e.body = body
        /\ r.at \in Nat /\ r.at < clock
    BY DEF ShapeOK, Shaped
  <2>2. /\ rows' = (rows \ {r}) \cup {e} /\ edited' = edited \cup {r.at}
        /\ UNCHANGED <<pending, deleted, clock>>
        /\ body # r.body /\ r.at \notin edited
    BY <1>5 DEF EditRow
  <2> HIDE DEF e
  <2>3. PICK b : r.hash = ComputeHash(r.prev, b, r.at) /\ b = r.body
    BY <2>2 DEF HashesOK, Faithful
  <2>4. Faithful(e)'
    BY <2>1, <2>2, <2>3 DEF Faithful
  <2>5. \A s : (Faithful(s) /\ s.at # r.at) => Faithful(s)'
    BY <2>2 DEF Faithful
  <2>6. \A s \in (rows \ {r}) \cup deleted : s.at # r.at
    BY DEF StampsOK
  <2>7. \A w \in Writers : \A p \in pending[w] : p.at # r.at
    BY DEF StampsOK
  <2>8. \A s \in rows' \cup deleted' : Faithful(s)'
    BY <2>2, <2>4, <2>5, <2>6 DEF HashesOK
  <2>9. \A w \in Writers : \A p \in pending'[w] : Faithful(p)' /\ p.at \notin edited'
    BY <2>2, <2>5, <2>7 DEF HashesOK
  <2>10. QED
    BY <2>1, <2>2, <2>8, <2>9 DEF HashesOK
<1>6. ASSUME NEW r \in rows, DeleteRow(r) PROVE HashesOK'
  <2>1. /\ UNCHANGED <<pending, edited, clock>>
        /\ rows' \cup deleted' = rows \cup deleted
    BY <1>6 DEF DeleteRow
  <2>2. \A s : Faithful(s) => Faithful(s)'
    BY <2>1 DEF Faithful
  <2>3. QED
    BY <2>1, <2>2 DEF HashesOK
<1>7. CASE UNCHANGED auditVars
  BY <1>7 DEF HashesOK, Faithful, auditVars
<1>8. QED
  BY <1>1, <1>2, <1>3, <1>4, <1>5, <1>6, <1>7 DEF AuditNext

(* No event that is left has the hash of one that was removed.             *)
LEMMA RemovedUnmatched ==
    ASSUME ShapeOK, StampsOK, HashesOK, NEW t \in Tenants, NEW r \in Chain(t),
           NEW d \in deleted
    PROVE  d.hash # HashOfNewest({s \in Chain(t) : s.at < r.at})
<1> DEFINE S == {s \in Chain(t) : s.at < r.at}
<1>1. PICK b : d.hash = <<d.prev, b, d.at>>
  BY DEF HashesOK, Faithful, ComputeHash
<1>2. CASE S = {}
  <2>1. HashOfNewest(S) = <<>>
    BY <1>2 DEF HashOfNewest, GENESIS_HASH
  <2>2. d.hash # <<>>
    BY <1>1
  <2>3. QED
    BY <2>1, <2>2
<1>3. CASE S # {}
  <2>1. r.at \in Nat /\ \A s \in S : s.at \in Nat /\ s.at < r.at
    BY DEF ShapeOK, Shaped, Chain
  <2>2. Newest(S) \in S
    BY <1>3, <2>1, NewestExists
  <2>3. PICK n \in rows : n = Newest(S)
    BY <2>2 DEF Chain
  <2>4. PICK c : n.hash = <<n.prev, c, n.at>>
    BY <2>3 DEF HashesOK, Faithful, ComputeHash
  <2>5. n.at # d.at
    BY DEF StampsOK
  <2>6. n.hash # d.hash
    BY <1>1, <2>4, <2>5
  <2>7. HashOfNewest(S) = n.hash
    BY <1>3, <2>3 DEF HashOfNewest
  <2>8. QED
    BY <2>6, <2>7
<1>4. QED
  BY <1>2, <1>3

(* Whatever overlaps, and however many events are edited and removed, an   *)
(* event whose body was changed, or whose predecessor was removed, keeps   *)
(* its tenant's log from verifying.                                        *)
THEOREM TamperEvidentCorrect == AuditSpec => []TamperEvident
<1> DEFINE EvidenceInv == ShapeOK /\ StampsOK /\ HashesOK
<1>1. AuditInit => EvidenceInv
  BY AuditAssumption DEF AuditInit, ShapeOK, StampsOK, HashesOK
<1>2. EvidenceInv /\ [AuditNext]_auditVars => EvidenceInv'
  BY ShapeStep, StampsStep, HashesStep
<1>3. EvidenceInv => TamperEvident
  <2> SUFFICES ASSUME EvidenceInv, NEW t \in Tenants, NEW r \in Chain(t), VerifyChain(t),
                      r.at \in edited \/ \E d \in deleted : d.tenant = t /\ r.prev = d.hash
               PROVE  FALSE
    BY DEF TamperEvident
  <2>1. CASE r.at \in edited
    <3>1. PICK b : r.hash = <<r.prev, b, r.at>> /\ b # r.body
      BY <2>1 DEF HashesOK, Faithful, ComputeHash, Chain
    <3>2. r.hash = <<r.prev, r.body, r.at>>
      BY DEF VerifyChain, ComputeHash
    <3>3. QED
      BY <3>1, <3>2
  <2>2. CASE \E d \in deleted : d.tenant = t /\ r.prev = d.hash
    BY <2>2, RemovedUnmatched DEF VerifyChain
  <2>3. QED
    BY <2>1, <2>2
<1>4. QED
  BY <1>1, <1>2, <1>3, PTL DEF AuditSpec
=============================================================================
