----------------------- MODULE TelemetryPipeline_proofs ------------------------
(***************************************************************************)
(* Proofs of LossBounded and ProcessedMeansSettled, for any feed, number   *)
(* of entries, size of the stream and of a batch, and number of faults.    *)
(*                                                                         *)
(* For the first: of the entries that are neither pending, quarantined nor *)
(* stored, all but those of the batch in hand were lost to earlier faults; *)
(* a fault adds at most that batch to them, and a commit takes it out.     *)
(* For the second: what was handed out up to the target is no longer       *)
(* pending, and is never pending again.                                    *)
(***************************************************************************)
EXTENDS TelemetryPipeline, TLAPS, FiniteSetTheorems, SequenceTheorems,
        NaturalsInduction, WellFoundedInduction

-----------------------------------------------------------------------------
(* Sets of entries.                                                        *)
LEMMA LeastOf ==
  ASSUME NEW S, S \subseteq Nat, S # {}
  PROVE  Least(S) \in S /\ \A d \in S : Least(S) <= d
<1>1. IsWellFoundedOn(OpToRel(<, Nat), Nat)
  BY NatLessThanWellFounded
<1>2. \E x \in S : \A y \in S : <<y, x>> \notin OpToRel(<, Nat)
  BY <1>1, WFMin
<1>3. \A x, y \in Nat : y < x => <<y, x>> \in OpToRel(<, Nat)
  BY DEF OpToRel
<1>4. PICK x \in S : \A y \in S : ~(y < x)
  BY <1>2, <1>3
<1>5. \A y \in S : x <= y
  BY <1>4
<1> QED
  BY <1>5 DEF Least

LEMMA GreatestExists ==
  ASSUME NEW n \in Nat, NEW S, S \subseteq 1..n, S # {}
  PROVE  \E m \in S : \A d \in S : d <= m
<1> DEFINE T == {n - e : e \in S}
<1>1. T \subseteq Nat /\ T # {}
  <2>1. ASSUME NEW e \in S PROVE n - e \in Nat
    <3>1. e \in 1..n
      OBVIOUS
    <3> QED
      BY <3>1
  <2>2. T \subseteq Nat
    BY <2>1
  <2>3. T # {}
    OBVIOUS
  <2> QED
    BY <2>2, <2>3
<1> HIDE DEF T
<1>2. Least(T) \in T /\ \A d \in T : Least(T) <= d
  BY <1>1, LeastOf
<1>3. PICK m \in S : Least(T) = n - m
  BY <1>2 DEF T
<1>4. ASSUME NEW d \in S PROVE d <= m
  <2>0. d \in 1..n /\ m \in 1..n
    OBVIOUS
  <2>1. n - d \in T
    BY DEF T
  <2>2. n - m <= n - d
    BY <1>2, <1>3, <2>1
  <2> QED
    BY <2>0, <2>2
<1> QED
  BY <1>4

(* The oldest entries of a set: at most a batch, and none of the set that  *)
(* is older than one of them is left out.                                  *)
LEMMA OldestOf ==
  ASSUME NEW n \in Nat, NEW S, S \subseteq 1..n
  PROVE  /\ Oldest(S) \subseteq S /\ IsFiniteSet(Oldest(S))
         /\ Cardinality(Oldest(S)) <= BatchSize
         /\ \A e \in Oldest(S), d \in S : d < e => d \in Oldest(S)
<1>1. Oldest(S) \subseteq S
  BY DEF Oldest
<1>2. IsFiniteSet(1..n)
  BY FS_Interval
<1>3. \A T \in SUBSET (1..n) : IsFiniteSet(T) /\ Cardinality(T) \in Nat
  BY <1>2, FS_Subset, FS_CardinalityType
<1>4. BatchSize \in Nat \ {0}
  BY PipelineAssumption
<1>5. ASSUME NEW e \in Oldest(S), NEW d \in S, d < e
      PROVE  d \in Oldest(S)
  <2> DEFINE A == {x \in S : x < d}
             B == {x \in S : x < e}
  <2>0. e \in 1..n /\ d \in 1..n
    BY <1>1
  <2>1. A \subseteq B /\ A \subseteq 1..n /\ B \subseteq 1..n
    <3>1. ASSUME NEW x \in A PROVE x \in B
      <4>1. x \in 1..n /\ x < d
        OBVIOUS
      <4> QED
        BY <4>1, <2>0, <1>5
    <3> QED
      BY <3>1
  <2>2. Cardinality(B) < BatchSize
    BY DEF Oldest
  <2>3. IsFiniteSet(A) /\ IsFiniteSet(B) /\ Cardinality(A) \in Nat /\ Cardinality(B) \in Nat
    BY <1>3, <2>1
  <2> HIDE DEF A, B
  <2>4. Cardinality(A) <= Cardinality(B)
    BY <2>1, <2>3, FS_Subset
  <2>5. Cardinality(A) < BatchSize
    BY <1>4, <2>2, <2>3, <2>4
  <2> QED
    BY <2>5 DEF Oldest, A
<1>6. Cardinality(Oldest(S)) <= BatchSize
  <2>1. CASE Oldest(S) = {}
    BY <1>4, <2>1, FS_EmptySet
  <2>2. CASE Oldest(S) # {}
    <3>1. PICK m \in Oldest(S) : \A d \in Oldest(S) : d <= m
      BY <1>1, <2>2, GreatestExists
    <3> DEFINE B == {x \in S : x < m}
    <3>2. Cardinality(B) < BatchSize /\ B \subseteq 1..n
      BY DEF Oldest
    <3>3. IsFiniteSet(B) /\ Cardinality(B) \in Nat
      BY <1>3, <3>2
    <3>4. Oldest(S) \subseteq B \union {m}
      <4>1. ASSUME NEW x \in Oldest(S), x # m PROVE x < m
        <5>1. x \in 1..n /\ m \in 1..n /\ x <= m
          BY <1>1, <3>1
        <5> QED
          BY <4>1, <5>1
      <4> QED
        BY <1>1, <4>1
    <3> HIDE DEF B
    <3>5. IsFiniteSet(B \union {m}) /\ Cardinality(B \union {m}) <= Cardinality(B) + 1
      BY <3>3, FS_AddElement
    <3>6. Cardinality(Oldest(S)) <= Cardinality(B \union {m})
      BY <3>4, <3>5, FS_Subset
    <3>7. Cardinality(Oldest(S)) \in Nat /\ Cardinality(B \union {m}) \in Nat
      BY <1>1, <1>3, <3>5, FS_CardinalityType
    <3> QED
      BY <1>4, <3>2, <3>3, <3>5, <3>6, <3>7
  <2> QED
    BY <2>1, <2>2
<1> QED
  BY <1>1, <1>3, <1>5, <1>6

(* Over keeps the keys of both.                                            *)
LEMMA OverDomain ==
  ASSUME NEW f, NEW g
  PROVE  DOMAIN Over(f, g) = DOMAIN f \union DOMAIN g
BY DEF Over

-----------------------------------------------------------------------------
(* The group and the batch.                                                *)
StreamOk ==
  /\ stream \in Seq(Feed) /\ first \in Nat /\ delivered \in 0..Len(stream)
  /\ pel \subseteq 1..delivered /\ faults \in Nat
  /\ todo \subseteq pel /\ (Busy \/ todo = {})

WaitOk ==
  /\ waiter.target \in Nat
  /\ waiter.state = "processed" =>
       /\ waiter.target <= delivered
       /\ \A e \in pel : e > waiter.target

(* Entries that nobody holds any more and that no committed row stands for.*)
AtRisk == {e \in 1..delivered : /\ e >= first /\ e \notin pel /\ e \notin quarantined
                                /\ stream[e].key \notin DOMAIN table}

(* B holds the acknowledged entries of the batch in hand.                  *)
Hand(B) ==
  /\ B \subseteq 1..delivered
  /\ Cardinality(B) + Cardinality(todo) <= BatchSize
  /\ Cardinality(AtRisk \ B) <= faults * BatchSize
  /\ \A e \in B : stream[e].key \in DOMAIN tx \union DOMAIN table
  /\ B = {} \/ (Busy /\ ~doomed)

LossInv == \E B \in SUBSET (1..delivered) : Hand(B)

PipelineInv == StreamOk /\ WaitOk /\ LossInv

-----------------------------------------------------------------------------
(* How a step carries the batch on.                                        *)
LEMMA SizeType == BatchSize \in Nat \ {0}
BY PipelineAssumption

LEMMA TimesMonotone ==
  ASSUME NEW a \in Nat, NEW b \in Nat, NEW c \in Nat, a <= b
  PROVE  a * c <= b * c
<1>1. PICK k \in Nat : b = a + k
  <2>1. b - a \in Nat /\ b = a + (b - a)
    OBVIOUS
  <2> QED
    BY <2>1
<1>2. b * c = a * c + k * c
  BY <1>1
<1>3. k * c \in Nat /\ a * c \in Nat
  OBVIOUS
<1> QED
  BY <1>2, <1>3

LEMMA HandOutSets ==
  ASSUME StreamOk
  PROVE  /\ IsFiniteSet(AtRisk) /\ IsFiniteSet(todo)
         /\ \A S \in SUBSET AtRisk : IsFiniteSet(S) /\ Cardinality(S) \in Nat
         /\ \A S \in SUBSET todo : IsFiniteSet(S) /\ Cardinality(S) \in Nat
         /\ \A S \in SUBSET (1..delivered) : IsFiniteSet(S) /\ Cardinality(S) \in Nat
<1>1. delivered \in Nat
  BY DEF StreamOk
<1>0. IsFiniteSet(1..delivered)
  BY <1>1, FS_Interval
<1>2. \A S \in SUBSET (1..delivered) : IsFiniteSet(S) /\ Cardinality(S) \in Nat
  BY <1>0, FS_Subset, FS_CardinalityType
<1>3. AtRisk \subseteq 1..delivered /\ todo \subseteq 1..delivered
  BY DEF AtRisk, StreamOk
<1> QED
  BY <1>2, <1>3

(* A new batch, or none, in hand: what was at risk beyond the old one is   *)
(* all that still is.                                                      *)
LEMMA NewBatch ==
  ASSUME StreamOk, StreamOk', faults' \in Nat, faults' >= faults,
         NEW B \in SUBSET (1..delivered), Hand(B),
         AtRisk' \subseteq AtRisk \ B, Cardinality(todo') <= BatchSize
  PROVE  LossInv'
<1>1. Cardinality(AtRisk \ B) \in Nat /\ IsFiniteSet(AtRisk \ B)
  BY HandOutSets
<1>2. Cardinality(AtRisk') <= Cardinality(AtRisk \ B) /\ Cardinality(AtRisk') \in Nat
  BY <1>1, FS_Subset, FS_CardinalityType
<1>3. faults * BatchSize <= faults' * BatchSize
  <2>1. faults \in Nat /\ faults' \in Nat /\ faults <= faults'
    BY DEF StreamOk
  <2> QED
    BY <2>1, SizeType, TimesMonotone
<1>4. Cardinality(AtRisk') <= faults' * BatchSize
  BY <1>1, <1>2, <1>3, SizeType DEF Hand, StreamOk
<1>5. Cardinality({}) = 0
  BY FS_EmptySet
<1>6. Cardinality(todo') \in Nat
  <2>1. delivered' \in Nat /\ todo' \subseteq 1..delivered'
    BY DEF StreamOk
  <2>2. IsFiniteSet(1..delivered')
    BY <2>1, FS_Interval
  <2> QED
    BY <2>1, <2>2, FS_Subset, FS_CardinalityType
<1>7. AtRisk' \ {} = AtRisk'
  OBVIOUS
<1>8. Hand({})'
  BY <1>4, <1>5, <1>6, <1>7 DEF Hand
<1> QED
  BY <1>8 DEF LossInv

(* A fault gives up at most the batch in hand.                             *)
LEMMA GiveUp ==
  ASSUME StreamOk, StreamOk', LossInv, faults' = faults + 1,
         AtRisk' \subseteq AtRisk, Cardinality(todo') <= BatchSize
  PROVE  LossInv'
<1>1. PICK B \in SUBSET (1..delivered) : Hand(B)
  BY DEF LossInv
<1>2. /\ IsFiniteSet(AtRisk \ B) /\ Cardinality(AtRisk \ B) \in Nat
      /\ IsFiniteSet(B) /\ Cardinality(B) \in Nat /\ Cardinality(todo) \in Nat
  BY HandOutSets
<1>3. /\ IsFiniteSet((AtRisk \ B) \union B)
      /\ Cardinality((AtRisk \ B) \union B) <= Cardinality(AtRisk \ B) + Cardinality(B)
  <2>1. PICK R : R = AtRisk \ B
    OBVIOUS
  <2>2. /\ IsFiniteSet(R \union B)
        /\ Cardinality(R \union B) = Cardinality(R) + Cardinality(B) - Cardinality(R \cap B)
    BY <1>2, <2>1, FS_Union
  <2>3. Cardinality(R \cap B) \in Nat
    BY <1>2, FS_Subset, FS_CardinalityType, R \cap B \subseteq B
  <2> QED
    BY <1>2, <2>1, <2>2, <2>3
<1>4. AtRisk' \subseteq (AtRisk \ B) \union B
  OBVIOUS
<1>5. /\ Cardinality(AtRisk') <= Cardinality((AtRisk \ B) \union B)
      /\ Cardinality(AtRisk') \in Nat /\ Cardinality((AtRisk \ B) \union B) \in Nat
  BY <1>3, <1>4, FS_Subset, FS_CardinalityType
<1>6. Cardinality(AtRisk') <= Cardinality(AtRisk \ B) + BatchSize
  BY <1>1, <1>2, <1>3, <1>5, SizeType DEF Hand
<1>7. faults' * BatchSize = faults * BatchSize + BatchSize /\ faults * BatchSize \in Nat
  BY SizeType DEF StreamOk
<1>8. Cardinality(AtRisk') <= faults' * BatchSize
  BY <1>1, <1>2, <1>5, <1>6, <1>7, SizeType DEF Hand
<1>9. Cardinality({}) = 0
  BY FS_EmptySet
<1>10. Cardinality(todo') \in Nat
  <2>1. delivered' \in Nat /\ todo' \subseteq 1..delivered'
    BY DEF StreamOk
  <2>2. IsFiniteSet(1..delivered')
    BY <2>1, FS_Interval
  <2> QED
    BY <2>1, <2>2, FS_Subset, FS_CardinalityType
<1>11. AtRisk' \ {} = AtRisk'
  OBVIOUS
<1>12. Hand({})'
  BY <1>8, <1>9, <1>10, <1>11 DEF Hand
<1> QED
  BY <1>12 DEF LossInv

-----------------------------------------------------------------------------
(* What the group hands out is all it holds up to its new last entry.      *)
LEMMA HandedOut ==
  ASSUME StreamOk, HandOut(Oldest(Unread))
  PROVE  /\ Oldest(Unread) \subseteq Unread
         /\ Oldest(Unread) \subseteq pel' /\ pel \subseteq pel'
         /\ pel' \subseteq pel \union Oldest(Unread)
         /\ stream' = stream /\ first' = first
         /\ delivered' \in 1..Len(stream) /\ delivered < delivered'
         /\ \A d \in Oldest(Unread) : d <= delivered'
         /\ \A e \in 1..delivered' : e > delivered /\ e >= first => e \in pel'
<1>1. Len(stream) \in Nat /\ delivered \in Nat /\ first \in Nat
  BY DEF StreamOk
<1>2. Unread \subseteq 1..Len(stream)
  BY DEF Unread, Entries
<1> PICK batch : batch = Oldest(Unread)
  OBVIOUS
<1>3. /\ batch \subseteq Unread
      /\ \A e \in batch, d \in Unread : d < e => d \in batch
  BY <1>1, <1>2, OldestOf
<1>4. /\ batch # {} /\ pel' = pel \union batch /\ stream' = stream /\ first' = first
      /\ delivered' = CHOOSE e \in batch : \A d \in batch : d <= e
  BY DEF HandOut
<1>5. \E m \in batch : \A d \in batch : d <= m
  BY <1>1, <1>2, <1>3, <1>4, GreatestExists
<1>6. delivered' \in batch /\ \A d \in batch : d <= delivered'
  BY <1>4, <1>5
<1>7. delivered' \in 1..Len(stream) /\ delivered < delivered'
  BY <1>1, <1>3, <1>6 DEF Unread, Entries
<1>8. ASSUME NEW e \in 1..delivered', e > delivered, e >= first
      PROVE  e \in batch
  <2>1. e \in Unread
    BY <1>1, <1>7, <1>8 DEF Unread, Entries
  <2>2. CASE e = delivered'
    BY <1>6, <2>2
  <2>3. CASE e < delivered'
    BY <1>3, <1>6, <2>1, <2>3
  <2> QED
    BY <1>7, <2>2, <2>3
<1> QED
  BY <1>3, <1>4, <1>6, <1>7, <1>8

LEMMA RecoveryBatch ==
  ASSUME StreamOk
  PROVE  Oldest(pel) \subseteq pel /\ Cardinality(Oldest(pel)) <= BatchSize
         /\ IsFiniteSet(Oldest(pel))
<1>1. delivered \in Nat /\ pel \subseteq 1..delivered
  BY DEF StreamOk
<1> QED
  BY <1>1, OldestOf

LEMMA UnreadBatch ==
  ASSUME StreamOk
  PROVE  Cardinality(Oldest(Unread)) <= BatchSize
<1>1. Len(stream) \in Nat /\ Unread \subseteq 1..Len(stream)
  BY DEF StreamOk, Unread, Entries
<1> QED
  BY <1>1, OldestOf

(* The entry the consumer works on.                                        *)
LEMMA InHand ==
  ASSUME StreamOk, todo # {}
  PROVE  Least(todo) \in todo /\ Least(todo) \in pel /\ Least(todo) \in 1..delivered
<1>1. todo \subseteq Nat /\ todo \subseteq pel /\ pel \subseteq 1..delivered
  BY DEF StreamOk
<1> QED
  BY <1>1, LeastOf

-----------------------------------------------------------------------------
(* The state of the stream, the group and the consumer.                    *)
LEMMA StreamStep ==
  ASSUME StreamOk, Next
  PROVE  StreamOk'
<1>0. /\ stream \in Seq(Feed) /\ first \in Nat /\ delivered \in 0..Len(stream)
      /\ pel \subseteq 1..delivered /\ faults \in Nat
      /\ todo \subseteq pel /\ (Busy \/ todo = {})
      /\ Len(stream) \in Nat
  BY DEF StreamOk
<1>1. ASSUME NEW r \in Feed, Publish(r) PROVE StreamOk'
  <2>1. /\ stream' = Append(stream, r)
        /\ UNCHANGED <<delivered, pel, pc, todo, faults>>
        /\ first' \in first..(IF Len(stream) + 2 - Cap > first
                              THEN Len(stream) + 2 - Cap ELSE first)
    BY <1>1 DEF Publish, session
  <2>2. stream' \in Seq(Feed) /\ Len(stream') = Len(stream) + 1
    BY <1>0, <2>1
  <2>3. first' \in Nat
    BY <1>0, <2>1, PipelineAssumption
  <2>4. delivered' \in 0..Len(stream')
    BY <1>0, <2>1, <2>2
  <2> QED
    BY <1>0, <2>1, <2>2, <2>3, <2>4 DEF StreamOk, Busy
<1>2. CASE ReadNew
  <2>1. HandOut(Oldest(Unread)) /\ todo' = Oldest(Unread) /\ pc' = "new_batch"
        /\ faults' = faults
    BY <1>2 DEF ReadNew
  <2>2. /\ Oldest(Unread) \subseteq pel' /\ pel' \subseteq pel \union Oldest(Unread)
        /\ stream' = stream /\ first' = first
        /\ delivered' \in 1..Len(stream) /\ delivered < delivered'
        /\ \A d \in Oldest(Unread) : d <= delivered'
        /\ Oldest(Unread) \subseteq Unread
    BY <2>1, HandedOut
  <2>3. ASSUME NEW e \in pel' PROVE e \in 1..delivered'
    <3>1. CASE e \in pel
      <4>1. e \in 1..delivered
        BY <1>0, <3>1
      <4> QED
        BY <1>0, <2>2, <4>1
    <3>2. CASE e \in Oldest(Unread)
      <4>1. e \in 1..Len(stream) /\ e <= delivered'
        BY <2>2, <3>2 DEF Unread, Entries
      <4> QED
        BY <1>0, <2>2, <4>1
    <3> QED
      BY <2>2, <3>1, <3>2
  <2> QED
    BY <1>0, <2>1, <2>2, <2>3 DEF StreamOk, Busy
<1>3. CASE ReadNewLost
  <2>1. HandOut(Oldest(Unread)) /\ todo' = todo /\ pc' = pc /\ faults' = faults + 1
    BY <1>3 DEF ReadNewLost, Fault, session
  <2>2. /\ pel \subseteq pel' /\ pel' \subseteq pel \union Oldest(Unread)
        /\ stream' = stream /\ first' = first
        /\ delivered' \in 1..Len(stream) /\ delivered < delivered'
        /\ \A d \in Oldest(Unread) : d <= delivered'
        /\ Oldest(Unread) \subseteq Unread
    BY <2>1, HandedOut
  <2>3. ASSUME NEW e \in pel' PROVE e \in 1..delivered'
    <3>1. CASE e \in pel
      <4>1. e \in 1..delivered
        BY <1>0, <3>1
      <4> QED
        BY <1>0, <2>2, <4>1
    <3>2. CASE e \in Oldest(Unread)
      <4>1. e \in 1..Len(stream) /\ e <= delivered'
        BY <2>2, <3>2 DEF Unread, Entries
      <4> QED
        BY <1>0, <2>2, <4>1
    <3> QED
      BY <2>2, <3>1, <3>2
  <2> QED
    BY <1>0, <2>1, <2>2, <2>3 DEF StreamOk, Busy
<1>4. CASE RecoverNext
  <2> PICK batch : batch = Oldest(pel)
    OBVIOUS
  <2>1. batch \subseteq pel
    BY RecoveryBatch
  <2>2. /\ pel' = pel \ {e \in batch : e < first}
        /\ todo' = {e \in batch : e >= first}
        /\ pc' = IF batch = {} THEN "idle"
                 ELSE IF todo' = {} THEN "recovering" ELSE "recovery_batch"
        /\ UNCHANGED <<stream, first, delivered, faults>>
    BY <1>4 DEF RecoverNext
  <2>3. ASSUME NEW e \in todo' PROVE e \in pel'
    <3>1. e \in batch /\ e >= first /\ e \in pel
      BY <2>1, <2>2
    <3>2. e \in 1..delivered
      BY <1>0, <3>1
    <3>3. ~(e < first)
      BY <1>0, <3>1, <3>2
    <3> QED
      BY <2>2, <3>1, <3>3
  <2>4. Busy' \/ todo' = {}
    BY <2>2 DEF Busy
  <2> QED
    BY <1>0, <2>2, <2>3, <2>4 DEF StreamOk
<1>5. CASE Persist \/ Quarantine
  <2>1. todo # {} /\ pel' = pel \ {Least(todo)} /\ todo' = todo \ {Least(todo)}
        /\ UNCHANGED <<stream, first, delivered, faults, pc>> /\ Busy
    BY <1>5 DEF Persist, Quarantine, Ack
  <2> QED
    BY <1>0, <2>1 DEF StreamOk, Busy
<1>6. CASE CommitBatch
  <2>1. todo = {} /\ UNCHANGED <<stream, first, delivered, pel, todo, faults>>
    BY <1>6 DEF CommitBatch, group
  <2> QED
    BY <1>0, <2>1 DEF StreamOk
<1>7. CASE CommitFails \/ AckFails \/ Crash
  <2>1. todo' = {} /\ UNCHANGED <<stream, first, delivered, pel>> /\ faults' \in {faults, faults + 1}
    BY <1>7 DEF CommitFails, AckFails, Crash, Fail, Fault, group
  <2> QED
    BY <1>0, <2>1 DEF StreamOk
<1>8. CASE ConnectionLost
  <2>1. UNCHANGED <<stream, first, delivered, pel, todo, pc>> /\ faults' = faults + 1
    BY <1>8 DEF ConnectionLost, Fault, group
  <2> QED
    BY <1>0, <2>1 DEF StreamOk, Busy
<1>9. CASE RecoveryFails \/ Restart \/ EnsureGroupFails
  <2>1. /\ UNCHANGED <<stream, first, delivered, pel, todo>> /\ ~Busy
        /\ faults' \in {faults, faults + 1}
    BY <1>9 DEF RecoveryFails, Restart, EnsureGroupFails, Fault, group, session, Busy
  <2> QED
    BY <1>0, <2>1 DEF StreamOk
<1>10. CASE StartWait \/ WaitDone \/ WaitTimeout
  <2>1. UNCHANGED <<stream, first, delivered, pel, todo, pc, faults>>
    BY <1>10 DEF StartWait, WaitDone, WaitTimeout, group, session
  <2> QED
    BY <1>0, <2>1 DEF StreamOk, Busy
<1> QED
  BY <1>1, <1>2, <1>3, <1>4, <1>5, <1>6, <1>7, <1>8, <1>9, <1>10
     DEF Next, Consumer, Trouble

(* The wait of the poller.                                                 *)
LEMMA WaitStep ==
  ASSUME StreamOk, WaitOk, Next
  PROVE  WaitOk'
<1>0. /\ waiter.target \in Nat /\ delivered \in Nat /\ Len(stream) \in Nat
      /\ pel \subseteq 1..delivered
      /\ waiter.state = "processed" =>
           waiter.target <= delivered /\ \A e \in pel : e > waiter.target
  BY DEF StreamOk, WaitOk
<1>1. CASE ReadNew \/ ReadNewLost
  <2>1. HandOut(Oldest(Unread)) /\ waiter' = waiter
    BY <1>1 DEF ReadNew, ReadNewLost
  <2>2. /\ pel' \subseteq pel \union Unread /\ delivered < delivered'
        /\ delivered' \in 1..Len(stream)
    BY <2>1, HandedOut
  <2>3. ASSUME waiter.state = "processed", NEW e \in pel' PROVE e > waiter.target
    BY <1>0, <2>2, <2>3 DEF Unread, Entries
  <2> QED
    BY <1>0, <2>1, <2>2, <2>3 DEF WaitOk
<1>2. CASE StartWait
  <2>1. waiter' = [state |-> "waiting", target |-> Len(stream)]
    BY <1>2 DEF StartWait
  <2> QED
    BY <1>0, <2>1 DEF WaitOk
<1>3. CASE WaitDone
  <2>1. /\ delivered >= waiter.target /\ \A e \in pel : e > waiter.target
        /\ waiter' = [waiter EXCEPT !.state = "processed"]
        /\ UNCHANGED <<delivered, pel>>
    BY <1>3 DEF WaitDone, group
  <2>2. waiter'.target = waiter.target
    BY <2>1
  <2> QED
    BY <1>0, <2>1, <2>2 DEF WaitOk
<1>4. CASE WaitTimeout
  <2>1. waiter'.target = waiter.target /\ UNCHANGED <<delivered, pel>>
    BY <1>4 DEF WaitTimeout, group
  <2>2. waiter'.state = "timeout" \/ waiter'.state = waiter.state
    BY <1>4 DEF WaitTimeout
  <2> QED
    BY <1>0, <2>1, <2>2 DEF WaitOk
<1>5. ASSUME pel' \subseteq pel, delivered' = delivered, waiter' = waiter
      PROVE  WaitOk'
  BY <1>0, <1>5 DEF WaitOk
<1>6. ASSUME NEW r \in Feed, Publish(r) PROVE WaitOk'
  BY <1>5, <1>6 DEF Publish
<1>7. CASE RecoverNext \/ Persist \/ Quarantine
  <2>1. pel' \subseteq pel /\ delivered' = delivered /\ waiter' = waiter
    BY <1>7 DEF RecoverNext, Persist, Quarantine, Ack
  <2> QED
    BY <1>5, <2>1
<1>8. CASE CommitBatch \/ Restart \/ RecoveryFails \/ ConnectionLost
           \/ CommitFails \/ AckFails \/ Crash \/ EnsureGroupFails
  <2>1. pel' = pel /\ delivered' = delivered /\ waiter' = waiter
    BY <1>8 DEF CommitBatch, Restart, RecoveryFails, ConnectionLost, CommitFails,
                AckFails, Crash, EnsureGroupFails, Fail, group
  <2> QED
    BY <1>5, <2>1
<1> QED
  BY <1>1, <1>2, <1>3, <1>4, <1>6, <1>7, <1>8 DEF Next, Consumer, Trouble

-----------------------------------------------------------------------------
(* The losses.                                                             *)
LEMMA BatchSizes ==
  ASSUME StreamOk, LossInv
  PROVE  /\ Cardinality(todo) \in Nat /\ Cardinality(todo) <= BatchSize
         /\ ~Busy \/ doomed => Hand({})
<1>1. PICK B \in SUBSET (1..delivered) : Hand(B)
  BY DEF LossInv
<1>2. Cardinality(todo) \in Nat /\ Cardinality(B) \in Nat
  BY HandOutSets
<1>3. Cardinality(B) + Cardinality(todo) <= BatchSize
  BY <1>1 DEF Hand
<1>4. ASSUME ~Busy \/ doomed PROVE Hand({})
  <2>1. B = {}
    BY <1>1, <1>4 DEF Hand
  <2> QED
    BY <1>1, <2>1
<1> QED
  BY <1>2, <1>3, <1>4, SizeType

LEMMA SubsetSize ==
  ASSUME NEW S, NEW T \in SUBSET S, IsFiniteSet(S), Cardinality(S) <= BatchSize
  PROVE  Cardinality(T) <= BatchSize
<1>1. /\ Cardinality(T) <= Cardinality(S)
      /\ Cardinality(T) \in Nat /\ Cardinality(S) \in Nat
  BY FS_Subset, FS_CardinalityType
<1> QED
  BY <1>1, SizeType

LEMMA LossStep ==
  ASSUME StreamOk, StreamOk', LossInv, Next
  PROVE  LossInv'
<1>0. /\ stream \in Seq(Feed) /\ first \in Nat /\ delivered \in 0..Len(stream)
      /\ pel \subseteq 1..delivered /\ faults \in Nat /\ faults' \in Nat
      /\ todo \subseteq pel /\ (Busy \/ todo = {})
      /\ Len(stream) \in Nat /\ delivered \in Nat
  BY DEF StreamOk
<1>a. Cardinality({}) = 0 /\ Cardinality({}) <= BatchSize
  BY FS_EmptySet, SizeType
<1>b. PICK B \in SUBSET (1..delivered) : Hand(B)
  BY DEF LossInv
<1>c. Cardinality(todo) \in Nat /\ Cardinality(todo) <= BatchSize
  BY BatchSizes
<1>1. ASSUME NEW r \in Feed, Publish(r) PROVE LossInv'
  <2>1. /\ stream' = Append(stream, r) /\ first' \in Nat /\ first' >= first
        /\ UNCHANGED <<delivered, pel, pc, todo, tx, doomed, table, quarantined, faults>>
    BY <1>0, <1>1, PipelineAssumption DEF Publish, session
  <2>2. \A e \in 1..delivered : stream'[e] = stream[e]
    BY <1>0, <2>1
  <2>3. ASSUME NEW e \in AtRisk' PROVE e \in AtRisk
    <3>1. e \in 1..delivered /\ e >= first'
      BY <2>1 DEF AtRisk
    <3>2. e >= first
      BY <1>0, <2>1, <3>1
    <3> QED
      BY <2>1, <2>2, <3>1, <3>2 DEF AtRisk
  <2>4. /\ IsFiniteSet(AtRisk \ B) /\ Cardinality(AtRisk \ B) \in Nat
        /\ AtRisk' \ B \subseteq AtRisk \ B
    BY <2>3, HandOutSets
  <2>5. Cardinality(AtRisk' \ B) <= Cardinality(AtRisk \ B) /\ Cardinality(AtRisk' \ B) \in Nat
    BY <2>4, FS_Subset, FS_CardinalityType
  <2>6. Cardinality(AtRisk' \ B) <= faults * BatchSize
    BY <1>0, <1>b, <2>4, <2>5, SizeType DEF Hand
  <2>7. Hand(B)'
    BY <1>b, <2>1, <2>2, <2>6 DEF Hand, Busy
  <2> QED
    BY <1>b, <2>1, <2>7 DEF LossInv
<1>2. CASE ReadNew
  <2>1. /\ HandOut(Oldest(Unread)) /\ todo' = Oldest(Unread) /\ ~Busy
        /\ UNCHANGED <<table, quarantined, faults>>
    BY <1>2 DEF ReadNew, Busy
  <2>2. /\ stream' = stream /\ first' = first /\ pel \subseteq pel' /\ delivered' \in Nat
        /\ \A e \in 1..delivered' : e > delivered /\ e >= first => e \in pel'
    BY <2>1, HandedOut
  <2>3. AtRisk' \subseteq AtRisk
    BY <1>0, <2>1, <2>2 DEF AtRisk
  <2>4. Hand({}) /\ Cardinality(todo') <= BatchSize
    BY <2>1, BatchSizes, UnreadBatch
  <2> QED
    BY <1>0, <2>1, <2>3, <2>4, NewBatch
<1>3. CASE ReadNewLost
  <2>1. /\ HandOut(Oldest(Unread)) /\ todo' = todo /\ faults' = faults + 1
        /\ UNCHANGED <<table, quarantined>>
    BY <1>3 DEF ReadNewLost, Fault, session
  <2>2. /\ stream' = stream /\ first' = first /\ pel \subseteq pel' /\ delivered' \in Nat
        /\ \A e \in 1..delivered' : e > delivered /\ e >= first => e \in pel'
    BY <2>1, HandedOut
  <2>3. AtRisk' \subseteq AtRisk
    BY <1>0, <2>1, <2>2 DEF AtRisk
  <2> QED
    BY <1>c, <2>1, <2>3, GiveUp
<1>4. CASE RecoverNext
  <2> PICK batch : batch = Oldest(pel)
    OBVIOUS
  <2>1. batch \subseteq pel /\ IsFiniteSet(batch) /\ Cardinality(batch) <= BatchSize
    BY RecoveryBatch
  <2>2. /\ pel' = pel \ {e \in batch : e < first}
        /\ todo' \in SUBSET batch /\ ~Busy
        /\ UNCHANGED <<stream, first, delivered, table, quarantined, faults>>
    BY <1>4 DEF RecoverNext, Busy
  <2>3. AtRisk' \subseteq AtRisk
    <3>1. ASSUME NEW e \in AtRisk' PROVE e \in AtRisk
      <4>1. e \in 1..delivered /\ e >= first /\ e \notin pel'
        BY <2>2, <3>1 DEF AtRisk
      <4>2. e \notin pel
        BY <1>0, <2>2, <4>1
      <4> QED
        BY <2>2, <3>1, <4>1, <4>2 DEF AtRisk
    <3> QED
      BY <3>1
  <2>4. Cardinality(todo') <= BatchSize
    BY <2>1, <2>2, SubsetSize
  <2>5. Hand({})
    BY <2>2, BatchSizes
  <2> QED
    BY <1>0, <2>2, <2>3, <2>4, <2>5, NewBatch
<1>5. CASE Persist
  <2> PICK e : e = Least(todo)
    OBVIOUS
  <2>1. /\ e \in todo /\ e \in 1..delivered
    BY <1>5, InHand DEF Persist
  <2>2. /\ pel' = pel \ {e} /\ todo' = todo \ {e} /\ Busy /\ ~doomed
        /\ tx' = IF stream[e].key \in DOMAIN table \union DOMAIN tx
                 THEN tx ELSE Over(tx, [k \in {stream[e].key} |-> stream[e].value])
        /\ UNCHANGED <<stream, first, delivered, pc, doomed, table, quarantined, faults>>
    BY <1>5 DEF Persist, Ack, Insert
  <2>3. /\ stream[e].key \in DOMAIN tx' \union DOMAIN table
        /\ DOMAIN tx \subseteq DOMAIN tx'
    <3>1. CASE stream[e].key \in DOMAIN table \union DOMAIN tx
      BY <2>2, <3>1
    <3>2. CASE stream[e].key \notin DOMAIN table \union DOMAIN tx
      <4>1. tx' = Over(tx, [k \in {stream[e].key} |-> stream[e].value])
        BY <2>2, <3>2
      <4>2. DOMAIN tx' = DOMAIN tx \union {stream[e].key}
        BY <4>1, OverDomain
      <4> QED
        BY <4>2
    <3> QED
      BY <3>1, <3>2
  <2>4. PICK C : C = B \union {e}
    OBVIOUS
  <2>5. C \subseteq 1..delivered
    BY <2>1, <2>4
  <2>6. AtRisk' \ C \subseteq AtRisk \ B
    BY <2>2, <2>4 DEF AtRisk
  <2>7. IsFiniteSet(AtRisk \ B) /\ Cardinality(AtRisk \ B) \in Nat
    BY HandOutSets
  <2>8. Cardinality(AtRisk' \ C) <= Cardinality(AtRisk \ B) /\ Cardinality(AtRisk' \ C) \in Nat
    BY <2>6, <2>7, FS_Subset, FS_CardinalityType
  <2>9. Cardinality(AtRisk' \ C) <= faults * BatchSize
    BY <1>0, <1>b, <2>7, <2>8, SizeType DEF Hand
  <2>10. Cardinality(C) <= Cardinality(B) + 1 /\ Cardinality(C) \in Nat /\ Cardinality(B) \in Nat
    <3>1. IsFiniteSet(B) /\ Cardinality(B) \in Nat /\ Cardinality(C) \in Nat
      BY <2>5, HandOutSets
    <3>2. IsFiniteSet(B \union {e})
          /\ Cardinality(B \union {e}) = IF e \in B THEN Cardinality(B) ELSE Cardinality(B) + 1
      BY <3>1, FS_AddElement
    <3> QED
      BY <2>4, <3>1, <3>2
  <2>11. Cardinality(todo \ {e}) = Cardinality(todo) - 1
    BY <2>1, HandOutSets, FS_RemoveElement
  <2>12. Cardinality(C) + Cardinality(todo') <= BatchSize
    BY <1>b, <1>c, <2>2, <2>10, <2>11, SizeType DEF Hand
  <2>13. \A d \in C : stream'[d].key \in DOMAIN tx' \union DOMAIN table'
    BY <1>b, <2>2, <2>3, <2>4 DEF Hand
  <2>14. Hand(C)'
    BY <2>2, <2>5, <2>9, <2>12, <2>13 DEF Hand, Busy
  <2> QED
    BY <2>2, <2>5, <2>14 DEF LossInv
<1>6. CASE Quarantine
  <2> PICK e : e = Least(todo)
    OBVIOUS
  <2>1. e \in todo
    BY <1>6, InHand DEF Quarantine
  <2>2. /\ pel' = pel \ {e} /\ todo' = todo \ {e} /\ quarantined' = quarantined \union {e}
        /\ UNCHANGED <<stream, first, delivered, pc, tx, doomed, table, faults>>
    BY <1>6 DEF Quarantine, Ack
  <2>3. AtRisk' \ B \subseteq AtRisk \ B
    BY <2>2 DEF AtRisk
  <2>4. IsFiniteSet(AtRisk \ B) /\ Cardinality(AtRisk \ B) \in Nat /\ Cardinality(B) \in Nat
    BY HandOutSets
  <2>5. Cardinality(AtRisk' \ B) <= Cardinality(AtRisk \ B) /\ Cardinality(AtRisk' \ B) \in Nat
    BY <2>3, <2>4, FS_Subset, FS_CardinalityType
  <2>6. Cardinality(AtRisk' \ B) <= faults * BatchSize
    BY <1>0, <1>b, <2>4, <2>5, SizeType DEF Hand
  <2>7. Cardinality(todo \ {e}) = Cardinality(todo) - 1
    BY <2>1, HandOutSets, FS_RemoveElement
  <2>8. Cardinality(B) + Cardinality(todo') <= BatchSize
    BY <1>b, <1>c, <2>2, <2>4, <2>7, SizeType DEF Hand
  <2>9. Hand(B)'
    BY <1>b, <2>2, <2>6, <2>8 DEF Hand, Busy
  <2> QED
    BY <1>b, <2>2, <2>9 DEF LossInv
<1>7. CASE CommitBatch
  <2>1. /\ table' = Over(tx, table) /\ todo' = {}
        /\ UNCHANGED <<stream, first, delivered, pel, quarantined, faults>>
    BY <1>7 DEF CommitBatch, group
  <2>2. DOMAIN table' = DOMAIN tx \union DOMAIN table
    BY <2>1, OverDomain
  <2>3. AtRisk' \subseteq AtRisk \ B
    BY <1>b, <2>1, <2>2 DEF AtRisk, Hand
  <2> QED
    BY <1>0, <1>a, <1>b, <2>1, <2>3, NewBatch
<1>8. CASE ConnectionLost
  <2>1. /\ todo' = todo /\ faults' = faults + 1
        /\ UNCHANGED <<stream, first, delivered, pel, quarantined, table>>
    BY <1>8 DEF ConnectionLost, Fault, group
  <2>2. AtRisk' \subseteq AtRisk
    BY <2>1 DEF AtRisk
  <2> QED
    BY <1>c, <2>1, <2>2, GiveUp
<1>9. CASE CommitFails \/ AckFails \/ (Crash /\ pc # "dead")
  <2>1. /\ todo' = {} /\ quarantined \subseteq quarantined'
        /\ UNCHANGED <<stream, first, delivered, pel, table>>
        /\ \/ faults' = faults + 1
           \/ doomed /\ faults' = faults
    BY <1>9 DEF CommitFails, AckFails, Crash, Fail, Fault, group
  <2>2. AtRisk' \subseteq AtRisk
    BY <2>1 DEF AtRisk
  <2>3. CASE faults' = faults + 1
    BY <1>a, <2>1, <2>2, <2>3, GiveUp
  <2>4. CASE doomed /\ faults' = faults
    <3>1. Hand({})
      BY <2>4, BatchSizes
    <3> QED
      BY <1>0, <1>a, <2>1, <2>2, <2>4, <3>1, NewBatch
  <2> QED
    BY <2>1, <2>3, <2>4
<1>10. CASE RecoveryFails \/ Restart \/ EnsureGroupFails \/ StartWait \/ WaitDone
           \/ WaitTimeout
  <2>1. /\ UNCHANGED <<stream, first, delivered, pel, todo, tx, doomed, table, quarantined>>
        /\ \/ faults' = faults + 1
           \/ faults' = faults /\ (Busy' <=> Busy)
    BY <1>10 DEF RecoveryFails, Restart, EnsureGroupFails, StartWait, WaitDone, WaitTimeout,
                 Fault, group, session, Busy
  <2>2. AtRisk' = AtRisk
    BY <2>1 DEF AtRisk
  <2>3. CASE faults' = faults + 1
    BY <1>c, <2>1, <2>2, <2>3, GiveUp
  <2>4. CASE faults' = faults /\ (Busy' <=> Busy)
    <3>1. Hand(B)'
      BY <1>b, <2>1, <2>2, <2>4 DEF Hand
    <3> QED
      BY <1>b, <2>1, <3>1 DEF LossInv
  <2> QED
    BY <2>1, <2>3, <2>4
<1>11. CASE Crash /\ pc = "dead"
  <2>1. /\ todo' = {} /\ ~Busy
        /\ UNCHANGED <<stream, first, delivered, pel, table, quarantined, faults>>
    BY <1>11 DEF Crash, Busy, group
  <2>2. AtRisk' \subseteq AtRisk
    BY <2>1 DEF AtRisk
  <2>3. Hand({})
    BY <2>1, BatchSizes
  <2> QED
    BY <1>0, <1>a, <2>1, <2>2, <2>3, NewBatch
<1> QED
  BY <1>1, <1>2, <1>3, <1>4, <1>5, <1>6, <1>7, <1>8, <1>9, <1>10, <1>11
     DEF Next, Consumer, Trouble

-----------------------------------------------------------------------------
(* The invariant: what is lost is what earlier faults gave up or belongs   *)
(* to the batch in hand, and a finished wait has nothing pending.          *)
THEOREM PipelineInvariant == Spec => []PipelineInv
<1>1. Init => PipelineInv
  <2> SUFFICES ASSUME Init PROVE PipelineInv
    OBVIOUS
  <2>1. /\ stream = <<>> /\ first = 1 /\ delivered = 0 /\ pel = {} /\ todo = {}
        /\ faults = 0 /\ waiter = [state |-> "none", target |-> 0]
    BY DEF Init
  <2>2. StreamOk
    BY <2>1 DEF StreamOk
  <2>3. WaitOk
    BY <2>1 DEF WaitOk
  <2>4. AtRisk \ {} = {}
    BY <2>1 DEF AtRisk
  <2>5. Hand({})
    BY <2>1, <2>4, FS_EmptySet, SizeType DEF Hand
  <2> QED
    BY <2>1, <2>2, <2>3, <2>5 DEF PipelineInv, LossInv
<1>2. PipelineInv /\ [Next]_vars => PipelineInv'
  <2> SUFFICES ASSUME PipelineInv, [Next]_vars PROVE PipelineInv'
    OBVIOUS
  <2>1. CASE Next
    BY <2>1, StreamStep, WaitStep, LossStep DEF PipelineInv
  <2>2. CASE UNCHANGED vars
    <3>1. UNCHANGED <<stream, first, delivered, pel, pc, todo, tx, doomed, table,
                      quarantined, faults, waiter>>
      BY <2>2 DEF vars, group, session
    <3>2. AtRisk' = AtRisk /\ (Busy' <=> Busy)
      BY <3>1 DEF AtRisk, Busy
    <3>3. \A B : Hand(B) => Hand(B)'
      BY <3>1, <3>2 DEF Hand
    <3>4. LossInv'
      BY <3>1, <3>3 DEF PipelineInv, LossInv
    <3> QED
      BY <3>1, <3>2, <3>4 DEF PipelineInv, StreamOk, WaitOk
  <2> QED
    BY <2>1, <2>2
<1> QED
  BY <1>1, <1>2, PTL DEF Spec

(* _process_events acknowledges before it commits: a fault loses readings, *)
(* but never more than the batch it hits, and without a fault none is lost.*)
THEOREM LossBoundedCorrect == Spec => []LossBounded
<1>1. PipelineInv => LossBounded
  <2> SUFFICES ASSUME PipelineInv PROVE LossBounded
    OBVIOUS
  <2>1. StreamOk /\ faults \in Nat
    BY DEF PipelineInv, StreamOk
  <2>2. PICK B \in SUBSET (1..delivered) : Hand(B)
    BY DEF PipelineInv, LossInv
  <2>3. Lost \subseteq AtRisk \ B
    BY <2>2 DEF Lost, AtRisk, Hand
  <2>4. IsFiniteSet(AtRisk \ B) /\ Cardinality(AtRisk \ B) \in Nat
    BY <2>1, HandOutSets
  <2>5. Cardinality(Lost) <= Cardinality(AtRisk \ B) /\ Cardinality(Lost) \in Nat
    BY <2>3, <2>4, FS_Subset, FS_CardinalityType
  <2> QED
    BY <2>1, <2>2, <2>4, <2>5, SizeType DEF LossBounded, Hand
<1> QED
  BY <1>1, PipelineInvariant, PTL

(* wait_until_processed: once it has answered, every entry up to its       *)
(* target is settled or about to be committed, whatever failed meanwhile.  *)
THEOREM ProcessedMeansSettledCorrect == Spec => []ProcessedMeansSettled
<1>1. PipelineInv => ProcessedMeansSettled
  <2> SUFFICES ASSUME PipelineInv, waiter.state = "processed",
                      NEW e \in 1..waiter.target
               PROVE  Settled(e) \/ stream[e].key \in DOMAIN tx
    BY DEF ProcessedMeansSettled
  <2>1. /\ delivered \in Nat /\ waiter.target \in Nat /\ waiter.target <= delivered
        /\ first \in Nat
        /\ \A d \in pel : d > waiter.target
    BY DEF PipelineInv, StreamOk, WaitOk
  <2>2. e \in 1..delivered /\ e \notin pel
    BY <2>1
  <2>3. e < first \/ e >= first
    BY <2>1, <2>2
  <2> QED
    BY <2>2, <2>3 DEF Settled, Stored, Lost
<1> QED
  BY <1>1, PipelineInvariant, PTL
===============================================================================
