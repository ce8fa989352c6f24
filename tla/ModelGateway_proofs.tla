------------------------- MODULE ModelGateway_proofs -------------------------
(***************************************************************************)
(* Proofs of FailuresExpire, LateAttemptsBounded and SpendBounded, for any *)
(* number of callers, processes and threads, and any limits.               *)
(*                                                                         *)
(* All three rest on the pools: a job that is not given up belongs to one  *)
(* caller, who waits for it.  The failure counter lacks a life only while  *)
(* a caller is between the two commands.  Under an open breaker, what a    *)
(* caller has submitted and what its call may still submit stay within one *)
(* call.  And what reached the provider, what waits in a pool and what the *)
(* calls may still submit stay within two attempts for every call that was *)
(* let through, which the counters of the limiter bound.                   *)
(***************************************************************************)
EXTENDS ModelGateway, TLAPS, SequenceTheorems, FiniteSetTheorems

(* What RemoveAt leaves of a sequence.                                     *)
LEMMA RemoveAtFacts ==
  ASSUME NEW S, NEW s \in Seq(S), NEW i \in 1..Len(s)
  PROVE  /\ RemoveAt(s, i) \in Seq(S) /\ Len(RemoveAt(s, i)) = Len(s) - 1
         /\ \A j \in 1..(Len(s) - 1) : RemoveAt(s, i)[j] = IF j < i THEN s[j] ELSE s[j + 1]
<1> DEFINE n == Len(s)
           a == SubSeq(s, 1, i - 1)
           b == SubSeq(s, i + 1, n)
<1>1. n \in Nat /\ i \in Nat /\ i <= n /\ \A k \in 1..n : s[k] \in S
  BY LenProperties, ElementOfSeq
<1>2. /\ a \in Seq(S) /\ Len(a) = i - 1 /\ \A j \in 1..(i - 1) : a[j] = s[j]
  <2>1. \A k \in 1..(i - 1) : s[k] \in S
    BY <1>1
  <2>2. /\ SubSeq(s, 1, i - 1) \in Seq(S)
        /\ Len(SubSeq(s, 1, i - 1)) = IF 1 <= i - 1 THEN (i - 1) - 1 + 1 ELSE 0
        /\ \A j \in 1..((i - 1) - 1 + 1) : SubSeq(s, 1, i - 1)[j] = s[1 + j - 1]
    BY <1>1, <2>1, SubSeqProperties
  <2> QED
    BY <1>1, <2>2
<1>3. /\ b \in Seq(S) /\ Len(b) = n - i /\ \A j \in 1..(n - i) : b[j] = s[i + j]
  <2>1. \A k \in (i + 1)..n : s[k] \in S
    BY <1>1
  <2>2. /\ SubSeq(s, i + 1, n) \in Seq(S)
        /\ Len(SubSeq(s, i + 1, n)) = IF i + 1 <= n THEN n - (i + 1) + 1 ELSE 0
        /\ \A j \in 1..(n - (i + 1) + 1) : SubSeq(s, i + 1, n)[j] = s[(i + 1) + j - 1]
    BY <1>1, <2>1, SubSeqProperties
  <2> QED
    BY <1>1, <2>2
<1> HIDE DEF a, b
<1>4. RemoveAt(s, i) = a \o b
  BY DEF RemoveAt, a, b
<1>5. /\ a \o b \in Seq(S) /\ Len(a \o b) = n - 1
      /\ \A j \in 1..(n - 1) : (a \o b)[j] = IF j <= i - 1 THEN a[j] ELSE b[j - (i - 1)]
  BY <1>1, <1>2, <1>3, ConcatProperties
<1>6. \A j \in 1..(n - 1) : (a \o b)[j] = IF j < i THEN s[j] ELSE s[j + 1]
  <2> SUFFICES ASSUME NEW j \in 1..(n - 1)
               PROVE  (a \o b)[j] = IF j < i THEN s[j] ELSE s[j + 1]
    OBVIOUS
  <2>1. CASE j < i
    BY <2>1, <1>1, <1>2, <1>5
  <2>2. CASE ~(j < i)
    <3>1. j - (i - 1) \in 1..(n - i) /\ (a \o b)[j] = b[j - (i - 1)]
      BY <2>2, <1>1, <1>5
    <3>2. b[j - (i - 1)] = s[i + (j - (i - 1))] /\ i + (j - (i - 1)) = j + 1
      BY <3>1, <1>1, <1>3
    <3> QED
      BY <2>2, <3>1, <3>2
  <2> QED
    BY <2>1, <2>2
<1> QED
  BY <1>4, <1>5, <1>6

-----------------------------------------------------------------------------
(* The calls and the pools.                                                *)
CallRow == [pc : {"idle", "admitted", "trying", "waiting", "valid", "closing", "failed", "counted"},
            attempt : 0..2, count : Nat]
Job == Callers \union {"abandoned"}

CallsOk ==
  /\ call \in [Callers -> CallRow]
  /\ \A c \in Callers : call[c].pc # "idle" => call[c].attempt \in {1, 2}

JobsOk ==
  /\ queue \in [Processes -> Seq(Job)]
  /\ \A p \in Processes : \A i \in 1..Len(queue[p]) :
       queue[p][i] # "abandoned" =>
         /\ Home[queue[p][i]] = p /\ call[queue[p][i]].pc = "waiting"
         /\ \A j \in 1..Len(queue[p]) : queue[p][j] = queue[p][i] => j = i

CountersOk ==
  /\ clock \in Nat /\ minute \in Nat /\ day \in Nat /\ failures \in Nat
  /\ failuresUntil \in Int /\ openUntil \in Nat
  /\ mishaps \in Nat /\ reached \in Nat /\ unmetered \in Nat

PoolInv == CallsOk /\ JobsOk /\ CountersOk

-----------------------------------------------------------------------------
(* A step of one call to q leaves the others where they are.               *)
LEMMA CallMoves ==
  ASSUME CallsOk, NEW c \in Callers, NEW q \in CallRow,
         q.pc # "idle" => q.attempt \in {1, 2},
         call' = [call EXCEPT ![c] = q]
  PROVE  CallsOk' /\ call'[c] = q /\ \A d \in Callers \ {c} : call'[d] = call[d]
BY DEF CallsOk

(* Goto changes the place of a call and no more.                           *)
LEMMA GotoMoves ==
  ASSUME CallsOk, NEW c \in Callers, call[c].pc # "idle",
         NEW pc \in {"trying", "waiting", "valid", "closing", "failed", "counted"},
         Goto(c, pc)
  PROVE  /\ CallsOk' /\ \A d \in Callers \ {c} : call'[d] = call[d]
         /\ call'[c].pc = pc /\ call'[c].attempt = call[c].attempt
<1> DEFINE q == [call[c] EXCEPT !.pc = pc]
<1>1. call[c] \in CallRow /\ call[c].attempt \in {1, 2}
  BY DEF CallsOk
<1>2. q \in CallRow /\ q.pc = pc /\ q.attempt = call[c].attempt
  BY <1>1 DEF CallRow
<1>3. call' = [call EXCEPT ![c] = q]
  BY DEF Goto
<1> HIDE DEF q
<1> QED
  BY <1>1, <1>2, <1>3, CallMoves

LEMMA ReturnMoves ==
  ASSUME CallsOk, NEW c \in Callers, Return(c)
  PROVE  CallsOk' /\ call'[c] = NoCall /\ \A d \in Callers \ {c} : call'[d] = call[d]
<1>1. NoCall \in CallRow /\ NoCall.pc = "idle"
  BY DEF NoCall, CallRow
<1> QED
  BY <1>1, CallMoves DEF Return

(* After a first attempt a call tries again, after a second it returns.    *)
LEMMA RetryMoves ==
  ASSUME CallsOk, NEW c \in Callers, TryAgain(c), call[c].pc # "idle"
  PROVE  /\ CallsOk' /\ \A d \in Callers \ {c} : call'[d] = call[d]
         /\ \/ call[c].attempt = 1 /\ call'[c].pc = "trying" /\ call'[c].attempt = 2
            \/ call[c].attempt = 2 /\ call'[c] = NoCall
<1>1. CASE call[c].attempt = 1
  <2> DEFINE q == [pc |-> "trying", attempt |-> 2, count |-> 0]
  <2>1. q \in CallRow /\ q.pc = "trying" /\ q.attempt = 2 /\ call' = [call EXCEPT ![c] = q]
    BY <1>1 DEF CallRow, TryAgain
  <2> HIDE DEF q
  <2> QED
    BY <1>1, <2>1, CallMoves
<1>2. CASE call[c].attempt # 1
  <2>1. call[c].attempt = 2 /\ Return(c)
    BY <1>2 DEF CallsOk, TryAgain
  <2> QED
    BY <2>1, ReturnMoves
<1> QED
  BY <1>1, <1>2

(* A caller who does not wait for a job may move.                          *)
LEMMA JobsStay ==
  ASSUME JobsOk, NEW c, call[c].pc # "waiting", UNCHANGED queue,
         \A d \in Callers \ {c} : call'[d] = call[d]
  PROVE  JobsOk'
<1>1. ASSUME NEW p \in Processes, NEW i \in 1..Len(queue[p]), queue[p][i] # "abandoned"
      PROVE  queue[p][i] \in Callers \ {c}
  <2>1. queue[p] \in Seq(Job)
    BY DEF JobsOk
  <2>2. queue[p][i] \in Job
    BY <2>1, ElementOfSeq
  <2> QED
    BY <1>1, <2>2 DEF JobsOk, Job
<1> QED
  BY <1>1 DEF JobsOk

LEMMA JobsTyped ==
  ASSUME JobsOk, NEW p \in Processes
  PROVE  /\ queue[p] \in Seq(Job) /\ Len(queue[p]) \in Nat
         /\ \A i \in 1..Len(queue[p]) : queue[p][i] \in Job
BY LenProperties, ElementOfSeq DEF JobsOk

(* A job is submitted by a caller who has none.                            *)
LEMMA SubmitKeepsJobs ==
  ASSUME PoolInv, NEW c \in Callers, Submit(c)
  PROVE  /\ CallsOk' /\ JobsOk'
         /\ queue' = [queue EXCEPT ![Home[c]] = Append(queue[Home[c]], c)]
         /\ Len(queue'[Home[c]]) = Len(queue[Home[c]]) + 1
<1> DEFINE p == Home[c]
           s == queue[p]
           t == Append(s, c)
<1>1. p \in Processes /\ c \in Job /\ c # "abandoned"
  BY GatewayAssumption DEF Job
<1>2. call[c].pc = "trying" /\ Goto(c, "waiting") /\ queue' = [queue EXCEPT ![p] = t]
  BY DEF Submit
<1>3. s \in Seq(Job) /\ Len(s) \in Nat /\ \A i \in 1..Len(s) : s[i] \in Job
  BY <1>1, JobsTyped DEF PoolInv
<1>4. t \in Seq(Job) /\ Len(t) = Len(s) + 1 /\ t[Len(s) + 1] = c /\ \A i \in 1..Len(s) : t[i] = s[i]
  BY <1>1, <1>3
<1>5. /\ CallsOk' /\ call'[c].pc = "waiting" /\ \A d \in Callers \ {c} : call'[d] = call[d]
  BY <1>2, GotoMoves DEF PoolInv
<1> HIDE DEF t, s
<1>6. queue' \in [Processes -> Seq(Job)] /\ queue'[p] = t
      /\ \A r \in Processes \ {p} : queue'[r] = queue[r]
  BY <1>1, <1>2, <1>4 DEF PoolInv, JobsOk
<1>7. \A r \in Processes : \A i \in 1..Len(queue[r]) : queue[r][i] # c
  BY <1>1, <1>2 DEF PoolInv, JobsOk
<1>8. ASSUME NEW r \in Processes, NEW i \in 1..Len(queue'[r]), queue'[r][i] # "abandoned"
      PROVE  /\ Home[queue'[r][i]] = r /\ call'[queue'[r][i]].pc = "waiting"
             /\ \A j \in 1..Len(queue'[r]) : queue'[r][j] = queue'[r][i] => j = i
  <2>1. CASE r # p
    <3>1. queue'[r] = queue[r]
      BY <2>1, <1>6
    <3>2. queue[r][i] \in Callers \ {c}
      BY <3>1, <1>7, <1>8, JobsTyped DEF PoolInv, Job
    <3> QED
      BY <3>1, <3>2, <1>5, <1>8 DEF PoolInv, JobsOk
  <2>2. CASE r = p /\ i = Len(s) + 1
    <3>1. queue'[r] = t /\ t[i] = c
      BY <2>2, <1>4, <1>6
    <3>2. \A j \in 1..Len(t) : t[j] = c => j = i
      BY <2>2, <1>1, <1>3, <1>4, <1>7 DEF s
    <3> QED
      BY <3>1, <3>2, <2>2, <1>5
  <2>3. CASE r = p /\ i # Len(s) + 1
    <3>1. queue'[r] = t /\ i \in 1..Len(s) /\ t[i] = s[i]
      BY <2>3, <1>3, <1>4, <1>6
    <3>2. s[i] \in Callers \ {c}
      BY <3>1, <1>1, <1>3, <1>7, <1>8 DEF Job, s
    <3>3. Home[s[i]] = p /\ call[s[i]].pc = "waiting" /\ \A j \in 1..Len(s) : s[j] = s[i] => j = i
      BY <3>1, <1>1, <1>8 DEF PoolInv, JobsOk, s
    <3>4. \A j \in 1..Len(t) : t[j] = t[i] => j = i
      BY <3>1, <3>2, <3>3, <1>3, <1>4
    <3> QED
      BY <3>1, <3>2, <3>3, <3>4, <2>3, <1>5
  <2> QED
    BY <2>1, <2>2, <2>3
<1> QED
  BY <1>2, <1>4, <1>5, <1>6, <1>8 DEF JobsOk, s, t

(* The job that ends is out of the pool, and its caller goes on.           *)
LEMMA JobEndsKeepsJobs ==
  ASSUME PoolInv, NEW p \in Processes, JobEnds(p)
  PROVE  /\ CallsOk' /\ JobsOk'
         /\ Len(queue[p]) > 0 /\ Len(queue'[p]) = Len(queue[p]) - 1
         /\ \A r \in Processes \ {p} : queue'[r] = queue[r]
         /\ reached' = IF Len(queue[p]) > Threads THEN reached + 1 ELSE reached
         /\ \/ UNCHANGED call
            \/ \E c \in Callers : /\ call[c].pc = "waiting" /\ call'[c].pc \in {"valid", "failed"}
                                  /\ call'[c].attempt = call[c].attempt
                                  /\ \A d \in Callers \ {c} : call'[d] = call[d]
<1> DEFINE s == queue[p]
<1>1. PICK i \in 1..Len(s) :
        /\ queue' = [queue EXCEPT ![p] = RemoveAt(s, i)]
        /\ reached' = IF Len(s) > Threads THEN reached + 1 ELSE reached
        /\ IF s[i] = "abandoned" THEN UNCHANGED call
           ELSE Goto(s[i], "valid") \/ Goto(s[i], "failed")
  BY DEF JobEnds
<1> DEFINE t == RemoveAt(s, i)
<1>2. s \in Seq(Job) /\ Len(s) \in Nat /\ \A k \in 1..Len(s) : s[k] \in Job
  BY JobsTyped DEF PoolInv
<1>3. /\ t \in Seq(Job) /\ Len(t) = Len(s) - 1
      /\ \A j \in 1..(Len(s) - 1) : t[j] = IF j < i THEN s[j] ELSE s[j + 1]
  BY <1>2, RemoveAtFacts
<1> HIDE DEF t
<1>4. queue' \in [Processes -> Seq(Job)] /\ queue'[p] = t
      /\ \A r \in Processes \ {p} : queue'[r] = queue[r]
  BY <1>1, <1>3 DEF PoolInv, JobsOk, t
<1>5. \/ s[i] = "abandoned" /\ UNCHANGED call
      \/ /\ s[i] \in Callers /\ call[s[i]].pc = "waiting" /\ CallsOk'
         /\ call'[s[i]].pc \in {"valid", "failed"} /\ call'[s[i]].attempt = call[s[i]].attempt
         /\ \A d \in Callers \ {s[i]} : call'[d] = call[d]
  <2>1. CASE s[i] = "abandoned"
    BY <2>1, <1>1
  <2>2. CASE s[i] # "abandoned"
    <3>1. s[i] \in Callers /\ call[s[i]].pc = "waiting"
      BY <2>2, <1>2 DEF PoolInv, JobsOk, Job
    <3>2. CASE Goto(s[i], "valid")
      BY <3>1, <3>2, GotoMoves DEF PoolInv
    <3>3. CASE Goto(s[i], "failed")
      BY <3>1, <3>3, GotoMoves DEF PoolInv
    <3> QED
      BY <2>2, <1>1, <3>1, <3>2, <3>3
  <2> QED
    BY <2>1, <2>2
<1>6. CallsOk'
  BY <1>5 DEF PoolInv, CallsOk
<1>7. \A j \in 1..Len(t) : \E k \in 1..Len(s) :
        k # i /\ t[j] = s[k] /\ k = IF j < i THEN j ELSE j + 1
  <2> TAKE j \in 1..Len(t)
  <2>1. j \in Nat /\ 1 <= j /\ j <= Len(s) - 1 /\ i \in Nat /\ 1 <= i /\ i <= Len(s)
    BY <1>2, <1>3
  <2>2. t[j] = IF j < i THEN s[j] ELSE s[j + 1]
    BY <2>1, <1>3
  <2>3. CASE j < i
    BY <2>1, <2>2, <2>3
  <2>4. CASE ~(j < i)
    BY <2>1, <2>2, <2>4
  <2> QED
    BY <2>3, <2>4
<1>8. ASSUME NEW r \in Processes, NEW j \in 1..Len(queue'[r]), queue'[r][j] # "abandoned"
      PROVE  /\ Home[queue'[r][j]] = r /\ call'[queue'[r][j]].pc = "waiting"
             /\ \A m \in 1..Len(queue'[r]) : queue'[r][m] = queue'[r][j] => m = j
  <2>1. CASE r # p
    <3>1. queue'[r] = queue[r]
      BY <2>1, <1>4
    <3>2. queue[r][j] \in Callers /\ Home[queue[r][j]] = r
      BY <3>1, <1>8, JobsTyped DEF PoolInv, JobsOk, Job
    <3>3. s[i] # "abandoned" => Home[s[i]] = p
      BY DEF PoolInv, JobsOk
    <3> DEFINE c == queue[r][j]
    <3>4. call'[c] = call[c]
      <4>1. c \in Callers /\ Home[c] = r
        BY <3>2
      <4>2. s[i] # "abandoned" => c # s[i]
        BY <4>1, <3>3, <2>1
      <4>3. CASE UNCHANGED call
        BY <4>3
      <4>4. CASE s[i] # "abandoned" /\ \A d \in Callers \ {s[i]} : call'[d] = call[d]
        <5> HIDE DEF c
        <5>1. c \in Callers \ {s[i]}
          BY <4>1, <4>2, <4>4
        <5> QED
          BY <4>4, <5>1
      <4>5. UNCHANGED call \/ (s[i] # "abandoned" /\ \A d \in Callers \ {s[i]} : call'[d] = call[d])
        BY <1>5, GatewayAssumption
      <4> QED
        BY <4>3, <4>4, <4>5
    <3> QED
      BY <3>1, <3>2, <3>4, <1>8 DEF PoolInv, JobsOk
  <2>2. CASE r = p
    <3>1. PICK k \in 1..Len(s) : k # i /\ t[j] = s[k] /\ k = IF j < i THEN j ELSE j + 1
      BY <2>2, <1>4, <1>7
    <3>2. /\ s[k] \in Callers /\ Home[s[k]] = p /\ call[s[k]].pc = "waiting"
          /\ \A m \in 1..Len(s) : s[m] = s[k] => m = k
      BY <3>1, <2>2, <1>2, <1>4, <1>8 DEF PoolInv, JobsOk, Job
    <3>3. call'[s[k]] = call[s[k]]
      BY <3>1, <3>2, <1>5
    <3>4. \A m \in 1..Len(t) : t[m] = t[j] => m = j
      <4> SUFFICES ASSUME NEW m \in 1..Len(t), t[m] = t[j] PROVE m = j
        OBVIOUS
      <4>1. PICK l \in 1..Len(s) : l # i /\ t[m] = s[l] /\ l = IF m < i THEN m ELSE m + 1
        BY <1>7
      <4>2. l = k
        BY <4>1, <3>1, <3>2
      <4>3. j \in Int /\ m \in Int /\ i \in Int
        BY <2>2, <1>4
      <4> HIDE DEF s
      <4> QED
        BY <4>1, <4>2, <4>3, <3>1
    <3> QED
      BY <2>2, <1>4, <3>1, <3>2, <3>3, <3>4
  <2> QED
    BY <2>1, <2>2
<1>9. JobsOk'
  BY <1>4, <1>8 DEF JobsOk
<1>10. Len(s) > 0 /\ Len(queue'[p]) = Len(s) - 1
  BY <1>2, <1>3, <1>4
<1>11. \/ UNCHANGED call
       \/ \E c \in Callers : /\ call[c].pc = "waiting" /\ call'[c].pc \in {"valid", "failed"}
                             /\ call'[c].attempt = call[c].attempt
                             /\ \A d \in Callers \ {c} : call'[d] = call[d]
  BY <1>5
<1> QED
  BY <1>1, <1>4, <1>6, <1>9, <1>10, <1>11

(* A caller that gives up leaves an abandoned job in the place of its own. *)
LEMMA TimeoutKeepsJobs ==
  ASSUME PoolInv, NEW c \in Callers, Timeout(c)
  PROVE  /\ CallsOk' /\ JobsOk'
         /\ \A p \in Processes : Len(queue'[p]) = Len(queue[p])
<1> DEFINE p == Home[c]
           s == queue[p]
           t == [i \in DOMAIN s |-> IF s[i] = c THEN "abandoned" ELSE s[i]]
<1>1. call[c].pc = "waiting" /\ Goto(c, "failed") /\ queue' = [queue EXCEPT ![p] = t]
  BY DEF Timeout
<1>2. p \in Processes
  BY GatewayAssumption
<1>3. /\ s \in Seq(Job) /\ Len(s) \in Nat /\ DOMAIN s = 1..Len(s)
      /\ \A i \in 1..Len(s) : s[i] \in Job
  BY <1>2, JobsTyped, LenProperties DEF PoolInv
<1>4. /\ t \in Seq(Job) /\ Len(t) = Len(s)
      /\ \A i \in 1..Len(s) : t[i] = IF s[i] = c THEN "abandoned" ELSE s[i]
  BY <1>3 DEF Job
<1>5. /\ CallsOk' /\ \A d \in Callers \ {c} : call'[d] = call[d]
  BY <1>1, GotoMoves DEF PoolInv
<1> HIDE DEF t, s
<1>6. queue' \in [Processes -> Seq(Job)] /\ queue'[p] = t
      /\ \A r \in Processes \ {p} : queue'[r] = queue[r]
  BY <1>1, <1>2, <1>4 DEF PoolInv, JobsOk
<1>7. ASSUME NEW r \in Processes, NEW i \in 1..Len(queue'[r]), queue'[r][i] # "abandoned"
      PROVE  /\ Home[queue'[r][i]] = r /\ call'[queue'[r][i]].pc = "waiting"
             /\ \A j \in 1..Len(queue'[r]) : queue'[r][j] = queue'[r][i] => j = i
  <2>1. CASE r # p
    <3>1. queue'[r] = queue[r]
      BY <2>1, <1>6
    <3>2. queue[r][i] \in Callers /\ Home[queue[r][i]] = r
      BY <3>1, <1>7, JobsTyped DEF PoolInv, JobsOk, Job
    <3>3. queue[r][i] \in Callers \ {c}
      BY <3>2, <2>1
    <3> QED
      BY <3>1, <3>3, <1>5, <1>7 DEF PoolInv, JobsOk
  <2>2. CASE r = p
    <3>1. queue'[r] = t /\ i \in 1..Len(s) /\ s[i] # c /\ t[i] = s[i]
      BY <2>2, <1>4, <1>6, <1>7
    <3>2. s[i] \in Callers \ {c}
      BY <3>1, <2>2, <1>3, <1>6, <1>7 DEF Job
    <3>3. Home[s[i]] = p /\ call[s[i]].pc = "waiting" /\ \A j \in 1..Len(s) : s[j] = s[i] => j = i
      BY <3>1, <3>2, <1>2, <2>2, <1>6, <1>7 DEF PoolInv, JobsOk, s
    <3>4. \A j \in 1..Len(t) : t[j] = t[i] => j = i
      BY <3>1, <3>2, <3>3, <1>4, <1>7, <1>6, <2>2
    <3> QED
      BY <3>1, <3>2, <3>3, <3>4, <2>2, <1>5
  <2> QED
    BY <2>1, <2>2
<1>8. \A r \in Processes : Len(queue'[r]) = Len(queue[r])
  BY <1>4, <1>6 DEF s
<1> QED
  BY <1>5, <1>6, <1>7, <1>8 DEF JobsOk

(* With a process its calls and its jobs are gone.                         *)
LEMMA CrashKeepsJobs ==
  ASSUME PoolInv, NEW p \in Processes, CrashProcess(p)
  PROVE  /\ CallsOk' /\ JobsOk'
         /\ \A c \in Callers : call'[c] = call[c] \/ call'[c] = NoCall
         /\ \A r \in Processes : queue'[r] = queue[r] \/ queue'[r] = <<>>
<1>1. /\ call' = [c \in Callers |-> IF Home[c] = p THEN NoCall ELSE call[c]]
      /\ queue' = [queue EXCEPT ![p] = <<>>]
  BY DEF CrashProcess
<1>2. NoCall \in CallRow /\ NoCall.pc = "idle"
  BY DEF NoCall, CallRow
<1>3. CallsOk'
  BY <1>1, <1>2 DEF PoolInv, CallsOk
<1>4. /\ queue' \in [Processes -> Seq(Job)] /\ queue'[p] = <<>>
      /\ \A r \in Processes \ {p} : queue'[r] = queue[r]
  BY <1>1 DEF PoolInv, JobsOk
<1>5. ASSUME NEW r \in Processes, NEW i \in 1..Len(queue'[r]), queue'[r][i] # "abandoned"
      PROVE  /\ Home[queue'[r][i]] = r /\ call'[queue'[r][i]].pc = "waiting"
             /\ \A j \in 1..Len(queue'[r]) : queue'[r][j] = queue'[r][i] => j = i
  <2>1. r # p /\ queue'[r] = queue[r]
    BY <1>4, <1>5
  <2>2. queue[r][i] \in Callers /\ Home[queue[r][i]] = r
    BY <2>1, <1>5, JobsTyped DEF PoolInv, JobsOk, Job
  <2>3. call'[queue[r][i]] = call[queue[r][i]]
    BY <2>1, <2>2, <1>1
  <2> QED
    BY <2>1, <2>2, <2>3, <1>5 DEF PoolInv, JobsOk
<1>6. JobsOk'
  BY <1>4, <1>5 DEF JobsOk
<1> QED
  BY <1>1, <1>3, <1>4, <1>6

LEMMA CountedRow ==
  ASSUME NEW r \in CallRow, NEW n \in Nat
  PROVE  LET q == [r EXCEPT !.pc = "counted", !.count = n] IN
           q \in CallRow /\ q.pc = "counted" /\ q.attempt = r.attempt
BY DEF CallRow

LEMMA CountersStep ==
  ASSUME PoolInv, [GatewayNext]_gatewayVars
  PROVE  CountersOk'
<1> USE DEF PoolInv, CountersOk
<1>1. CASE GatewayTick
  BY <1>1 DEF GatewayTick, Never
<1>2. ASSUME NEW c \in Callers, Allow(c) \/ AllowFailsOpen(c)
      PROVE  CountersOk'
  <2>1. /\ UNCHANGED <<clock, failures, failuresUntil, openUntil, reached>>
        /\ (minute' = minute + 1 /\ day' = day + 1) \/ (minute' = minute /\ day' = day)
        /\ mishaps' \in {mishaps, mishaps + 1} /\ unmetered' \in {unmetered, unmetered + 1}
    BY <1>2 DEF Allow, AllowFailsOpen, Begin, Count, Mishap, limiter, breaker
  <2> QED
    BY <2>1
<1>3. ASSUME NEW c \in Callers,
             CheckBreaker(c) \/ CheckFailsOpen(c) \/ Submit(c) \/ Timeout(c)
      PROVE  CountersOk'
  <2>1. /\ UNCHANGED <<clock, minute, day, failures, failuresUntil, openUntil, unmetered>>
        /\ mishaps' \in {mishaps, mishaps + 1} /\ reached' \in {reached, reached + 1}
    BY <1>3 DEF CheckBreaker, CheckFailsOpen, Submit, Timeout, Mishap, limiter, breaker
  <2> QED
    BY <2>1
<1>4. ASSUME NEW c \in Callers,
             ForgetFailures(c) \/ CloseBreaker(c) \/ CountFailure(c)
      PROVE  CountersOk'
  BY <1>4 DEF ForgetFailures, CloseBreaker, CountFailure, limiter, Never
<1>5. ASSUME NEW c \in Callers, TripBreaker(c) \/ RecordFails(c)
      PROVE  CountersOk'
  <2>1. /\ UNCHANGED <<clock, minute, day, failures, unmetered, reached>>
        /\ mishaps' \in {mishaps, mishaps + 1}
        /\ failuresUntil' \in {failuresUntil, clock + FailureTTL}
        /\ openUntil' \in {openUntil, clock + Cooldown}
    BY <1>5 DEF TripBreaker, RecordFails, Expiring, Mishap, limiter
  <2>2. FailureTTL \in Nat /\ Cooldown \in Nat
    BY GatewayAssumption
  <2> QED
    BY <2>1, <2>2
<1>6. ASSUME NEW p \in Processes, JobEnds(p) \/ CrashProcess(p)
      PROVE  CountersOk'
  <2>1. /\ UNCHANGED <<clock, minute, day, failures, failuresUntil, openUntil, unmetered>>
        /\ mishaps' \in {mishaps, mishaps + 1} /\ reached' \in {reached, reached + 1}
    BY <1>6 DEF JobEnds, CrashProcess, Mishap, limiter, breaker
  <2> QED
    BY <2>1
<1>7. CASE UNCHANGED gatewayVars
  BY <1>7 DEF gatewayVars, limiter, breaker
<1> QED
  BY <1>1, <1>2, <1>3, <1>4, <1>5, <1>6, <1>7 DEF GatewayNext, Own

(* Where a caller goes that neither submits nor gives up a job: what it    *)
(* does next, and what it may still submit.                                *)
LEMMA CallersStep ==
  ASSUME PoolInv, NEW c \in Callers,
         \/ Allow(c) \/ AllowFailsOpen(c) \/ CheckBreaker(c) \/ CheckFailsOpen(c)
         \/ ForgetFailures(c) \/ CloseBreaker(c) \/ CountFailure(c) \/ TripBreaker(c)
         \/ RecordFails(c)
  PROVE  CallsOk' /\ JobsOk' /\ UNCHANGED queue /\ \A d \in Callers \ {c} : call'[d] = call[d]
<1>1. UNCHANGED queue /\ call[c].pc # "waiting"
  BY DEF Allow, AllowFailsOpen, CheckBreaker, CheckFailsOpen, ForgetFailures, CloseBreaker,
         CountFailure, TripBreaker, RecordFails, Begin
<1>2. CallsOk' /\ \A d \in Callers \ {c} : call'[d] = call[d]
  <2>1. CASE Allow(c) \/ AllowFailsOpen(c)
    <3>1. FirstAttempt \in CallRow /\ FirstAttempt.attempt = 1
      BY DEF FirstAttempt, CallRow
    <3>2. UNCHANGED call \/ call' = [call EXCEPT ![c] = FirstAttempt]
      BY <2>1 DEF Allow, AllowFailsOpen
    <3>3. CASE UNCHANGED call
      BY <3>3 DEF PoolInv, CallsOk
    <3> QED
      BY <3>1, <3>2, <3>3, CallMoves DEF PoolInv
  <2>2. CASE CheckBreaker(c) \/ CheckFailsOpen(c)
    <3>1. call[c].pc = "admitted" /\ (Goto(c, "trying") \/ Return(c))
      BY <2>2 DEF CheckBreaker, CheckFailsOpen
    <3> QED
      BY <3>1, GotoMoves, ReturnMoves DEF PoolInv
  <2>3. CASE ForgetFailures(c) \/ CloseBreaker(c)
    <3>1. call[c].pc # "idle" /\ (Goto(c, "closing") \/ Return(c))
      BY <2>3 DEF ForgetFailures, CloseBreaker
    <3> QED
      BY <3>1, GotoMoves, ReturnMoves DEF PoolInv
  <2>4. CASE CountFailure(c)
    <3>0. call[c] \in CallRow /\ call[c].attempt \in {1, 2} /\ failures + 1 \in Nat
      BY <2>4 DEF PoolInv, CallsOk, CountersOk, CountFailure
    <3>1. PICK r \in CallRow, n \in Nat : r = call[c] /\ n = failures + 1 /\ r.attempt \in {1, 2}
      BY <3>0
    <3> DEFINE q == [r EXCEPT !.pc = "counted", !.count = n]
    <3>2. q \in CallRow /\ q.attempt = r.attempt
      BY CountedRow
    <3>3. call' = [call EXCEPT ![c] = q]
      BY <2>4, <3>1 DEF CountFailure
    <3> HIDE DEF q
    <3> QED
      BY <3>1, <3>2, <3>3, CallMoves DEF PoolInv
  <2>5. CASE TripBreaker(c) \/ RecordFails(c)
    <3>1. call[c].pc # "idle" /\ (TryAgain(c) \/ Return(c))
      BY <2>5 DEF TripBreaker, RecordFails
    <3> QED
      BY <3>1, RetryMoves, ReturnMoves DEF PoolInv
  <2> QED
    BY <2>1, <2>2, <2>3, <2>4, <2>5
<1> QED
  BY <1>1, <1>2, JobsStay DEF PoolInv

LEMMA PoolStep ==
  ASSUME PoolInv, [GatewayNext]_gatewayVars
  PROVE  PoolInv'
<1>1. ASSUME NEW c \in Callers,
             Allow(c) \/ AllowFailsOpen(c) \/ CheckFailsOpen(c) \/ Own(c) \/ RecordFails(c)
      PROVE  CallsOk' /\ JobsOk'
  BY <1>1, CallersStep, SubmitKeepsJobs, TimeoutKeepsJobs DEF Own
<1>2. ASSUME NEW p \in Processes, JobEnds(p) \/ CrashProcess(p)
      PROVE  CallsOk' /\ JobsOk'
  BY <1>2, JobEndsKeepsJobs, CrashKeepsJobs
<1>3. CASE GatewayTick \/ UNCHANGED gatewayVars
  <2>1. UNCHANGED <<call, queue>>
    BY <1>3 DEF GatewayTick, gatewayVars
  <2> QED
    BY <2>1, CountersStep DEF PoolInv, CallsOk, JobsOk
<1> QED
  BY <1>1, <1>2, <1>3, CountersStep DEF PoolInv, GatewayNext

-----------------------------------------------------------------------------
(* The life of the failure counter: whatever a caller does, it leaves a    *)
(* caller between the two commands where it is, or gives the counter its   *)
(* life.                                                                   *)
LEMMA CountedStays ==
  ASSUME PoolInv, NEW c \in Callers, call[c].pc # "counted",
         \A d \in Callers \ {c} : call'[d] = call[d],
         UNCHANGED <<failures, failuresUntil>>, mishaps' >= mishaps, FailuresExpire, mishaps' \in Nat
  PROVE  FailuresExpire'
BY DEF FailuresExpire, PoolInv, CountersOk, Never

LEMMA FailuresStep ==
  ASSUME PoolInv, FailuresExpire, [GatewayNext]_gatewayVars
  PROVE  FailuresExpire'
<1>0. CountersOk /\ CountersOk'
  BY CountersStep DEF PoolInv
<1>1. CASE GatewayTick
  BY <1>1, <1>0 DEF GatewayTick, FailuresExpire, CountersOk, Never
<1>2. ASSUME NEW c \in Callers,
             \/ Allow(c) \/ AllowFailsOpen(c) \/ CheckBreaker(c) \/ CheckFailsOpen(c)
             \/ CloseBreaker(c)
      PROVE  FailuresExpire'
  <2>1. /\ call[c].pc # "counted" /\ UNCHANGED <<failures, failuresUntil>>
        /\ mishaps' \in {mishaps, mishaps + 1}
    BY <1>2 DEF Allow, AllowFailsOpen, CheckBreaker, CheckFailsOpen, CloseBreaker, Begin,
                breaker, Mishap
  <2>2. mishaps' >= mishaps /\ mishaps' \in Nat
    BY <2>1, <1>0 DEF CountersOk
  <2>3. \A d \in Callers \ {c} : call'[d] = call[d]
    BY <1>2, CallersStep
  <2> QED
    BY <2>1, <2>2, <2>3, CountedStays
<1>3. ASSUME NEW c \in Callers, Submit(c) \/ Timeout(c)
      PROVE  FailuresExpire'
  <2>1. /\ call[c].pc \in {"trying", "waiting"} /\ (Goto(c, "waiting") \/ Goto(c, "failed"))
        /\ UNCHANGED <<failures, failuresUntil, mishaps>>
    BY <1>3 DEF Submit, Timeout, breaker
  <2>2. \A d \in Callers \ {c} : call'[d] = call[d]
    BY <2>1, GotoMoves DEF PoolInv
  <2> QED
    BY <2>1, <2>2, <1>0, CountedStays DEF CountersOk
<1>4. ASSUME NEW c \in Callers, ForgetFailures(c)
      PROVE  FailuresExpire'
  BY <1>4 DEF ForgetFailures, FailuresExpire
<1>5. ASSUME NEW c \in Callers, CountFailure(c)
      PROVE  FailuresExpire'
  <2>1. call'[c].pc = "counted"
    BY <1>5 DEF CountFailure, PoolInv, CallsOk, CallRow
  <2> QED
    BY <2>1 DEF FailuresExpire
<1>6. ASSUME NEW c \in Callers, TripBreaker(c)
      PROVE  FailuresExpire'
  <2>1. failures > 0 => failuresUntil' = clock + FailureTTL
    BY <1>6 DEF TripBreaker, Expiring
  <2>2. UNCHANGED failures /\ clock + FailureTTL # Never
    BY <1>6, <1>0, GatewayAssumption DEF TripBreaker, CountersOk, Never
  <2> QED
    BY <2>1, <2>2 DEF FailuresExpire
<1>7. ASSUME NEW c \in Callers, RecordFails(c)
      PROVE  FailuresExpire'
  BY <1>7, <1>0 DEF RecordFails, Mishap, FailuresExpire, CountersOk
<1>8. ASSUME NEW p \in Processes, JobEnds(p)
      PROVE  FailuresExpire'
  <2>1. UNCHANGED <<failures, failuresUntil, mishaps>>
    BY <1>8 DEF JobEnds, breaker
  <2>2. CASE UNCHANGED call
    BY <2>1, <2>2 DEF FailuresExpire
  <2>3. CASE ~UNCHANGED call
    <3>1. PICK c \in Callers :
            call[c].pc = "waiting" /\ \A d \in Callers \ {c} : call'[d] = call[d]
      BY <1>8, <2>3, JobEndsKeepsJobs
    <3> QED
      BY <2>1, <3>1, <1>0, CountedStays DEF CountersOk
  <2> QED
    BY <2>2, <2>3
<1>9. ASSUME NEW p \in Processes, CrashProcess(p)
      PROVE  FailuresExpire'
  BY <1>9, <1>0 DEF CrashProcess, Mishap, FailuresExpire, CountersOk
<1>10. CASE UNCHANGED gatewayVars
  BY <1>10 DEF gatewayVars, breaker, FailuresExpire
<1> QED
  BY <1>1, <1>2, <1>3, <1>4, <1>5, <1>6, <1>7, <1>8, <1>9, <1>10 DEF GatewayNext, Own

-----------------------------------------------------------------------------
(* The attempts a call may still submit once it has passed the breaker.    *)
Left(q) ==
  CASE q.pc = "trying" -> 3 - q.attempt
    [] q.pc \in {"waiting", "failed", "counted"} -> 2 - q.attempt
    [] OTHER -> 0

LateOk ==
  /\ late \in [Callers -> Nat]
  /\ \A c \in Callers : late[c] + Left(call[c]) <= 2 + 2 * mishaps
  /\ ~Open => \A c \in Callers : late[c] = 0

LEMMA LeftTyped ==
  ASSUME CallsOk
  PROVE  \A c \in Callers : Left(call[c]) \in 0..2
BY DEF CallsOk, CallRow, Left

(* A caller moves on, under a breaker that stays as it is or is opened,    *)
(* and what it may still submit does not grow.                             *)
LEMMA LateStays ==
  ASSUME PoolInv, CallsOk', LateOk, NEW c \in Callers,
         \A d \in Callers \ {c} : call'[d] = call[d],
         Left(call'[c]) <= Left(call[c]),
         UNCHANGED late, Open => Open', mishaps' \in {mishaps, mishaps + 1}
  PROVE  LateOk'
<1>1. mishaps \in Nat /\ mishaps' \in Nat /\ mishaps' >= mishaps
  BY DEF PoolInv, CountersOk
<1>2. ASSUME NEW d \in Callers
      PROVE  late'[d] + Left(call'[d]) <= 2 + 2 * mishaps'
  <2>1. /\ late[d] + Left(call[d]) <= 2 + 2 * mishaps /\ late[d] \in Nat /\ late'[d] = late[d]
        /\ Left(call[d]) \in 0..2 /\ Left(call'[d]) \in 0..2
    <3>1. \A e \in Callers : Left(call'[e]) \in 0..2
      BY DEF CallsOk, CallRow, Left
    <3> QED
      BY <3>1, LeftTyped DEF LateOk, PoolInv
  <2>2. Left(call'[d]) <= Left(call[d])
    <3>1. CASE d = c
      BY <3>1
    <3>2. CASE d # c
      <4>1. call'[d] = call[d]
        BY <3>2
      <4> QED
        BY <4>1, <2>1
    <3> QED
      BY <3>1, <3>2
  <2> QED
    BY <2>1, <2>2, <1>1
<1>3. late' \in [Callers -> Nat] /\ (~Open' => \A d \in Callers : late'[d] = 0)
  BY DEF LateOk
<1> QED
  BY <1>2, <1>3 DEF LateOk

(* All late attempts are forgotten where the breaker is closed or its      *)
(* cooldown has passed.                                                    *)
LEMMA LateResets ==
  ASSUME PoolInv', late' \in [Callers -> Nat], \A c \in Callers : late'[c] = 0
  PROVE  LateOk'
<1>1. \A c \in Callers : Left(call'[c]) \in 0..2
  BY DEF PoolInv, CallsOk, CallRow, Left
<1>2. mishaps' \in Nat
  BY DEF PoolInv, CountersOk
<1> QED
  BY <1>1, <1>2 DEF LateOk

(* A failure that is counted, and one after which a call tries again, adds *)
(* nothing to what the call may still submit.                              *)
LEMMA RecordingLeaves ==
  ASSUME PoolInv, NEW c \in Callers, CountFailure(c) \/ TripBreaker(c) \/ RecordFails(c)
  PROVE  Left(call'[c]) <= Left(call[c])
<1>1. call[c] \in CallRow /\ (call[c].pc # "idle" => call[c].attempt \in {1, 2})
  BY DEF PoolInv, CallsOk
<1>2. CASE CountFailure(c)
  <2>1. PICK r \in CallRow, n \in Nat : r = call[c] /\ n = failures + 1
    BY <1>1 DEF PoolInv, CountersOk
  <2>2. call'[c] = [r EXCEPT !.pc = "counted", !.count = n]
    BY <1>2, <2>1 DEF CountFailure, PoolInv, CallsOk
  <2>3. call'[c].pc = "counted" /\ call'[c].attempt = r.attempt
    BY <2>2, CountedRow
  <2>4. call[c].pc = "failed" /\ call[c].attempt \in {1, 2}
    BY <1>1, <1>2 DEF CountFailure
  <2> QED
    BY <2>1, <2>3, <2>4 DEF Left
<1>3. CASE /\ call[c].pc \in {"failed", "counted"} /\ TryAgain(c)
  <2>1. \/ call[c].attempt = 1 /\ call'[c].pc = "trying" /\ call'[c].attempt = 2
        \/ call[c].attempt = 2 /\ call'[c] = NoCall
    BY <1>3, RetryMoves DEF PoolInv
  <2> QED
    BY <1>3, <2>1 DEF Left, NoCall
<1>4. CASE call[c].pc \in {"valid", "closing"} /\ Return(c)
  <2>1. call'[c] = NoCall
    BY <1>4, ReturnMoves DEF PoolInv
  <2> QED
    BY <1>4, <2>1 DEF Left, NoCall
<1> QED
  BY <1>2, <1>3, <1>4 DEF TripBreaker, RecordFails

LEMMA LateStep ==
  ASSUME PoolInv, LateOk, [GatewayNext]_gatewayVars
  PROVE  LateOk'
<1>0. PoolInv' /\ CallsOk' /\ CountersOk
  BY PoolStep DEF PoolInv
<1>1. CASE GatewayTick
  <2>1. CASE openUntil > clock'
    <3>1. UNCHANGED <<late, call, mishaps, openUntil>> /\ Open
      BY <1>1, <2>1, <1>0 DEF GatewayTick, Open, CountersOk
    <3> QED
      BY <2>1, <3>1 DEF LateOk, Open
  <2>2. CASE ~(openUntil > clock')
    <3>1. late' = [c \in Callers |-> 0]
      BY <1>1, <2>2 DEF GatewayTick
    <3> QED
      BY <3>1, <1>0, LateResets
  <2> QED
    BY <2>1, <2>2
<1>2. ASSUME NEW c \in Callers, Allow(c) \/ AllowFailsOpen(c)
      PROVE  LateOk'
  <2>1. /\ UNCHANGED <<late, clock, openUntil>> /\ mishaps' \in {mishaps, mishaps + 1}
        /\ UNCHANGED call \/ call' = [call EXCEPT ![c] = FirstAttempt]
    BY <1>2 DEF Allow, AllowFailsOpen, Begin, breaker, Mishap
  <2>2. UNCHANGED call \/ call'[c] = FirstAttempt
    BY <2>1 DEF PoolInv, CallsOk
  <2>3. Left(FirstAttempt) = 0 /\ Left(call[c]) \in 0..2
    BY LeftTyped DEF Left, FirstAttempt, PoolInv
  <2>4. Left(call'[c]) <= Left(call[c])
    BY <2>2, <2>3
  <2>5. \A d \in Callers \ {c} : call'[d] = call[d]
    BY <1>2, CallersStep
  <2> QED
    BY <2>1, <2>4, <2>5, <1>0, LateStays DEF Open
<1>3. ASSUME NEW c \in Callers, CheckBreaker(c)
      PROVE  LateOk'
  <2>1. UNCHANGED <<late, clock, openUntil, mishaps>>
    BY <1>3 DEF CheckBreaker, breaker
  <2>2. CASE Open
    <3>1. /\ call'[c] = NoCall /\ \A d \in Callers \ {c} : call'[d] = call[d]
      BY <1>3, <2>2, ReturnMoves DEF CheckBreaker, PoolInv
    <3>2. Left(call'[c]) <= Left(call[c])
      BY <3>1, LeftTyped DEF Left, NoCall, PoolInv
    <3> QED
      BY <2>1, <3>1, <3>2, <1>0, LateStays DEF Open
  <2>3. CASE ~Open
    <3>1. late' \in [Callers -> Nat] /\ \A d \in Callers : late'[d] = 0
      BY <2>1, <2>3 DEF LateOk
    <3> QED
      BY <3>1, <1>0, LateResets
  <2> QED
    BY <2>2, <2>3
<1>4. ASSUME NEW c \in Callers, CheckFailsOpen(c)
      PROVE  LateOk'
  <2>1. /\ Open /\ call[c].pc = "admitted" /\ Goto(c, "trying") /\ mishaps' = mishaps + 1
        /\ UNCHANGED <<late, clock, openUntil>>
    BY <1>4 DEF CheckFailsOpen, breaker, Mishap
  <2>2. \A d \in Callers \ {c} : call'[d] = call[d]
    BY <1>4, CallersStep
  <2>3. ASSUME NEW d \in Callers
        PROVE  late'[d] + Left(call'[d]) <= 2 + 2 * mishaps'
    <3>1. /\ late[d] + Left(call[d]) <= 2 + 2 * mishaps /\ late[d] \in Nat /\ late'[d] = late[d]
          /\ Left(call[d]) \in 0..2 /\ Left(call'[d]) \in 0..2 /\ mishaps \in Nat
      <4>1. Left(call'[d]) \in 0..2
        BY <1>0 DEF CallsOk, CallRow, Left
      <4> QED
        BY <2>1, <4>1, <1>0, LeftTyped DEF LateOk, PoolInv, CountersOk
    <3> QED
      BY <2>1, <3>1
  <2> QED
    BY <2>1, <2>3 DEF LateOk, Open
<1>5. ASSUME NEW c \in Callers, Submit(c)
      PROVE  LateOk'
  <2>1. /\ call[c].pc = "trying" /\ Goto(c, "waiting")
        /\ late' = IF Open THEN [late EXCEPT ![c] = @ + 1] ELSE late
        /\ UNCHANGED <<clock, openUntil, mishaps>>
    BY <1>5 DEF Submit, breaker
  <2>2. /\ \A d \in Callers \ {c} : call'[d] = call[d]
        /\ call'[c].pc = "waiting" /\ call'[c].attempt = call[c].attempt
    BY <2>1, GotoMoves DEF PoolInv
  <2>3. Left(call'[c]) = Left(call[c]) - 1
    <3>1. call[c].attempt \in {1, 2}
      BY <2>1 DEF PoolInv, CallsOk
    <3> QED
      BY <3>1, <2>1, <2>2 DEF Left
  <2>4. CASE ~Open
    <3>1. late' \in [Callers -> Nat] /\ \A d \in Callers : late'[d] = 0
      BY <2>1, <2>4 DEF LateOk
    <3> QED
      BY <3>1, <1>0, LateResets
  <2>5. CASE Open
    <3>1. /\ late' \in [Callers -> Nat] /\ late'[c] = late[c] + 1
          /\ \A d \in Callers \ {c} : late'[d] = late[d]
      BY <2>1, <2>5 DEF LateOk
    <3>2. late[c] + Left(call[c]) <= 2 + 2 * mishaps /\ late[c] \in Nat /\ Left(call[c]) \in 0..2
      BY LeftTyped DEF LateOk, PoolInv
    <3>3. \A d \in Callers : late'[d] + Left(call'[d]) <= 2 + 2 * mishaps'
      <4> TAKE d \in Callers
      <4>1. CASE d = c
        BY <4>1, <2>1, <2>3, <3>1, <3>2, <1>0 DEF CountersOk
      <4>2. CASE d # c
        <5>1. call'[d] = call[d] /\ late'[d] = late[d]
          BY <4>2, <2>2, <3>1
        <5> QED
          BY <5>1, <2>1 DEF LateOk
      <4> QED
        BY <4>1, <4>2
    <3> QED
      BY <2>1, <2>5, <3>1, <3>3 DEF LateOk, Open
  <2> QED
    BY <2>4, <2>5
<1>6. ASSUME NEW c \in Callers, Timeout(c)
      PROVE  LateOk'
  <2>1. /\ call[c].pc = "waiting" /\ Goto(c, "failed")
        /\ UNCHANGED <<clock, openUntil, mishaps, late>>
    BY <1>6 DEF Timeout, breaker
  <2>2. /\ \A d \in Callers \ {c} : call'[d] = call[d]
        /\ call'[c].pc = "failed" /\ call'[c].attempt = call[c].attempt
    BY <2>1, GotoMoves DEF PoolInv
  <2>3. Left(call'[c]) <= Left(call[c])
    BY <2>1, <2>2 DEF Left, PoolInv, CallsOk
  <2> QED
    BY <2>1, <2>2, <2>3, <1>0, LateStays DEF Open
<1>7. ASSUME NEW c \in Callers, ForgetFailures(c)
      PROVE  LateOk'
  <2>1. /\ call[c].pc = "valid" /\ Goto(c, "closing")
        /\ UNCHANGED <<clock, openUntil, mishaps, late>>
    BY <1>7 DEF ForgetFailures
  <2>2. /\ \A d \in Callers \ {c} : call'[d] = call[d]
        /\ call'[c].pc = "closing"
    BY <2>1, GotoMoves DEF PoolInv
  <2>3. Left(call'[c]) <= Left(call[c])
    BY <2>1, <2>2 DEF Left
  <2> QED
    BY <2>1, <2>2, <2>3, <1>0, LateStays DEF Open
<1>8. ASSUME NEW c \in Callers, CloseBreaker(c)
      PROVE  LateOk'
  <2>1. late' = [d \in Callers |-> 0]
    BY <1>8 DEF CloseBreaker
  <2> QED
    BY <2>1, <1>0, LateResets
<1>9. ASSUME NEW c \in Callers, CountFailure(c) \/ TripBreaker(c) \/ RecordFails(c)
      PROVE  LateOk'
  <2>1. /\ UNCHANGED <<clock, late>> /\ mishaps' \in {mishaps, mishaps + 1}
        /\ openUntil' \in {openUntil, clock + Cooldown}
    BY <1>9 DEF CountFailure, TripBreaker, RecordFails, Mishap
  <2>2. Open => Open'
    BY <2>1, <1>0, GatewayAssumption DEF Open, CountersOk
  <2>3. \A d \in Callers \ {c} : call'[d] = call[d]
    BY <1>9, CallersStep
  <2> QED
    BY <1>9, <2>1, <2>2, <2>3, <1>0, RecordingLeaves, LateStays
<1>10. ASSUME NEW p \in Processes, JobEnds(p)
      PROVE  LateOk'
  <2>1. UNCHANGED <<clock, openUntil, mishaps, late>>
    BY <1>10 DEF JobEnds, breaker
  <2>2. CASE UNCHANGED call
    BY <2>1, <2>2 DEF LateOk, Open
  <2>3. CASE ~UNCHANGED call
    <3>1. PICK c \in Callers : /\ call[c].pc = "waiting" /\ call'[c].pc \in {"valid", "failed"}
                               /\ call'[c].attempt = call[c].attempt
                               /\ \A d \in Callers \ {c} : call'[d] = call[d]
      BY <1>10, <2>3, JobEndsKeepsJobs
    <3>2. call[c].attempt \in {1, 2}
      BY <3>1 DEF PoolInv, CallsOk
    <3>3. Left(call'[c]) <= Left(call[c])
      BY <3>1, <3>2 DEF Left
    <3> QED
      BY <2>1, <3>1, <3>3, <1>0, LateStays DEF Open
  <2> QED
    BY <2>2, <2>3
<1>11. ASSUME NEW p \in Processes, CrashProcess(p)
       PROVE  LateOk'
  <2>1. UNCHANGED <<clock, openUntil, late>> /\ mishaps' = mishaps + 1
    BY <1>11 DEF CrashProcess, breaker, Mishap
  <2>2. ASSUME NEW c \in Callers
        PROVE  late'[c] + Left(call'[c]) <= 2 + 2 * mishaps'
    <3>1. call'[c] = call[c] \/ call'[c] = NoCall
      BY <1>11, CrashKeepsJobs
    <3>2. /\ late[c] + Left(call[c]) <= 2 + 2 * mishaps /\ late[c] \in Nat
          /\ Left(call[c]) \in 0..2 /\ Left(NoCall) = 0 /\ mishaps \in Nat
      BY <1>0, LeftTyped DEF LateOk, PoolInv, CountersOk, Left, NoCall
    <3> QED
      BY <2>1, <3>1, <3>2
  <2> QED
    BY <2>1, <2>2 DEF LateOk, Open
<1>12. CASE UNCHANGED gatewayVars
  BY <1>12 DEF gatewayVars, breaker, LateOk, Open
<1> QED
  BY <1>1, <1>2, <1>3, <1>4, <1>5, <1>6, <1>7, <1>8, <1>9, <1>10, <1>11, <1>12 DEF GatewayNext, Own

-----------------------------------------------------------------------------
(* What a call may still submit, before the breaker too; the attempts all  *)
(* calls may still submit; and the jobs behind the threads of their pool.  *)
Owed(q) == IF q.pc = "admitted" THEN 2 ELSE Left(q)
Owing == {a \in Callers \X {1, 2} : a[2] <= Owed(call[a[1]])}
Behind == UNION {{p} \X ((Threads + 1)..Len(queue[p])) : p \in Processes}
Load == reached + Cardinality(Owing) + Cardinality(Behind)

(* The calls that the windows have let through.                            *)
Fewer(a, b) == IF a <= b THEN a ELSE b
InMinutes == Fewer(minute, PerMinute) + PerMinute * (clock \div Minute)
InDay == Fewer(day, PerDay)

SpendInv ==
  /\ IsFiniteSet(Owing) /\ IsFiniteSet(Behind)
  /\ Load <= 2 * (InMinutes + unmetered) /\ Load <= 2 * (InDay + unmetered)

-----------------------------------------------------------------------------
(* The minutes of the clock.                                               *)
LEMMA DivTyped ==
  ASSUME NEW m \in Nat \ {0}, NEW n \in Nat
  PROVE  n \div m \in Nat
OBVIOUS

LEMMA DivStep ==
  ASSUME NEW m \in Nat \ {0}, NEW n \in Nat
  PROVE  /\ (n + 1) \div m >= n \div m
         /\ (n + 1) % m = 0 => (n + 1) \div m >= n \div m + 1
<1> DEFINE a == n \div m
           b == (n + 1) \div m
           r == n % m
           t == (n + 1) % m
<1>1. /\ a \in Int /\ b \in Int /\ r \in Nat /\ t \in Nat /\ r < m /\ t < m
      /\ n = m * a + r /\ n + 1 = m * b + t
  OBVIOUS
<1> HIDE DEF a, b, r, t
<1>2. m * (b - a) = 1 + r - t
  BY <1>1
<1>3. b - a >= 0
  BY <1>1, <1>2
<1>4. t = 0 => b - a >= 1
  BY <1>1, <1>2
<1> QED
  BY <1>1, <1>3, <1>4 DEF a, b, t

LEMMA ProductTyped ==
  ASSUME NEW a \in Nat, NEW b \in Nat
  PROVE  a * b \in Nat
OBVIOUS

LEMMA ProductGrows ==
  ASSUME NEW a \in Nat, NEW b \in Nat, NEW c \in Nat
  PROVE  /\ c >= b => a * c >= a * b
         /\ c >= b + 1 => a * c >= a * b + a
<1>1. ASSUME c >= b PROVE a * c >= a * b
  <2>1. PICK d \in Nat : c = b + d
    <3>1. c - b \in Nat /\ c = b + (c - b)
      BY <1>1
    <3> QED
      BY <3>1
  <2>2. a * c = a * b + a * d /\ a * d \in Nat /\ a * b \in Nat
    BY <2>1
  <2> QED
    BY <2>2
<1>2. ASSUME c >= b + 1 PROVE a * c >= a * b + a
  <2>1. PICK d \in Nat : c = b + 1 + d
    <3>1. c - (b + 1) \in Nat /\ c = b + 1 + (c - (b + 1))
      BY <1>2
    <3> QED
      BY <3>1
  <2>2. a * c = a * b + a + a * d /\ a * d \in Nat /\ a * b \in Nat
    BY <2>1
  <2> QED
    BY <2>2
<1> QED
  BY <1>1, <1>2

-----------------------------------------------------------------------------
(* How much is under way.                                                  *)
LEMMA OwedTyped ==
  ASSUME CallsOk
  PROVE  \A c \in Callers : Owed(call[c]) \in 0..2
BY LeftTyped DEF Owed

LEMMA OwingShrinks ==
  ASSUME CallsOk, CallsOk', \A c \in Callers : Owed(call'[c]) <= Owed(call[c])
  PROVE  Owing' \subseteq Owing
<1> SUFFICES ASSUME NEW a \in Callers \X {1, 2}, a[2] <= Owed(call'[a[1]])
             PROVE  a[2] <= Owed(call[a[1]])
  BY DEF Owing
<1>1. a[1] \in Callers /\ a[2] \in {1, 2}
  OBVIOUS
<1>2. \A c \in Callers : Owed(call'[c]) \in 0..2
  BY DEF CallsOk, CallRow, Owed, Left
<1>3. Owed(call[a[1]]) \in 0..2 /\ Owed(call'[a[1]]) \in 0..2
  BY <1>1, <1>2, OwedTyped
<1> QED
  BY <1>1, <1>3

LEMMA BehindShrinks ==
  ASSUME JobsOk, \A p \in Processes : Len(queue'[p]) \in Nat /\ Len(queue'[p]) <= Len(queue[p])
  PROVE  Behind' \subseteq Behind
<1>1. \A p \in Processes : Len(queue[p]) \in Nat /\ Threads \in Nat
  BY JobsTyped, GatewayAssumption
<1>2. \A p \in Processes : (Threads + 1)..Len(queue'[p]) \subseteq (Threads + 1)..Len(queue[p])
  BY <1>1
<1> QED
  BY <1>2 DEF Behind

LEMMA LoadFalls ==
  ASSUME reached \in Nat, UNCHANGED reached, IsFiniteSet(Owing), IsFiniteSet(Behind),
         Owing' \subseteq Owing, Behind' \subseteq Behind
  PROVE  IsFiniteSet(Owing') /\ IsFiniteSet(Behind') /\ Load' <= Load
<1>1. /\ IsFiniteSet(Owing') /\ Cardinality(Owing') <= Cardinality(Owing)
      /\ IsFiniteSet(Behind') /\ Cardinality(Behind') <= Cardinality(Behind)
  BY FS_Subset
<1>2. /\ Cardinality(Owing) \in Nat /\ Cardinality(Behind) \in Nat
      /\ Cardinality(Owing') \in Nat /\ Cardinality(Behind') \in Nat
  BY <1>1, FS_CardinalityType
<1> QED
  BY <1>1, <1>2 DEF Load

(* An attempt that is submitted was owed; it is run at once or waits.      *)
LEMMA SubmitLoad ==
  ASSUME PoolInv, IsFiniteSet(Owing), IsFiniteSet(Behind), NEW c \in Callers, Submit(c)
  PROVE  IsFiniteSet(Owing') /\ IsFiniteSet(Behind') /\ Load' <= Load
<1> DEFINE p == Home[c]
           k == Owed(call[c])
           n == Len(queue[p])
<1>1. /\ call[c].pc = "trying" /\ Goto(c, "waiting")
      /\ reached' = IF n < Threads THEN reached + 1 ELSE reached
  BY DEF Submit
<1>2. p \in Processes /\ n \in Nat /\ Threads \in Nat \ {0} /\ reached \in Nat
  BY GatewayAssumption, JobsTyped DEF PoolInv, CountersOk
<1>3. /\ call'[c].pc = "waiting" /\ call'[c].attempt = call[c].attempt
      /\ \A d \in Callers \ {c} : call'[d] = call[d]
  BY <1>1, GotoMoves DEF PoolInv
<1>4. k \in {1, 2} /\ Owed(call'[c]) = k - 1
  <2>1. call[c].attempt \in {1, 2}
    BY <1>1 DEF PoolInv, CallsOk
  <2> QED
    BY <2>1, <1>1, <1>3 DEF Owed, Left
<1>5. /\ Len(queue'[p]) = n + 1 /\ \A r \in Processes \ {p} : queue'[r] = queue[r]
  BY SubmitKeepsJobs, <1>2 DEF PoolInv, JobsOk
<1> HIDE DEF k, n
<1>6. Owing' = Owing \ {<<c, k>>} /\ <<c, k>> \in Owing
  <2>1. <<c, k>> \in Owing
    BY <1>4 DEF Owing, k
  <2>2. ASSUME NEW a \in Callers \X {1, 2}
        PROVE  a[2] <= Owed(call'[a[1]]) <=> (a[2] <= Owed(call[a[1]]) /\ a # <<c, k>>)
    <3>1. a[1] \in Callers /\ a[2] \in {1, 2} /\ a = <<a[1], a[2]>>
      OBVIOUS
    <3>2. CASE a[1] = c
      <4>1. a[2] <= Owed(call'[a[1]]) <=> a[2] <= k - 1
        BY <3>2, <1>4
      <4>2. a[2] <= Owed(call[a[1]]) <=> a[2] <= k
        BY <3>2 DEF k
      <4>3. a # <<c, k>> <=> a[2] # k
        BY <3>1, <3>2
      <4> QED
        BY <4>1, <4>2, <4>3, <3>1, <1>4
    <3>3. CASE a[1] # c
      <4>1. call'[a[1]] = call[a[1]] /\ a # <<c, k>>
        BY <3>1, <3>3, <1>3
      <4> QED
        BY <4>1
    <3> QED
      BY <3>2, <3>3
  <2> QED
    BY <2>1, <2>2 DEF Owing
<1>7. IsFiniteSet(Owing') /\ Cardinality(Owing') = Cardinality(Owing) - 1
  <2>1. PICK a : a = <<c, k>>
    OBVIOUS
  <2>2. Owing' = Owing \ {a} /\ a \in Owing
    BY <2>1, <1>6
  <2> HIDE DEF Owing
  <2> QED
    BY <2>2, FS_RemoveElement
<1>8. Cardinality(Owing) \in Nat /\ Cardinality(Behind) \in Nat
  BY FS_CardinalityType
<1>9. CASE n < Threads
  <2>1. Behind' \subseteq Behind
    <3>1. ASSUME NEW r \in Processes
          PROVE  (Threads + 1)..Len(queue'[r]) \subseteq (Threads + 1)..Len(queue[r])
      <4>1. CASE r = p
        BY <4>1, <1>2, <1>5, <1>9
      <4>2. CASE r # p
        BY <4>2, <1>5
      <4> QED
        BY <4>1, <4>2
    <3> QED
      BY <3>1 DEF Behind
  <2>2. IsFiniteSet(Behind') /\ Cardinality(Behind') <= Cardinality(Behind)
    BY <2>1, FS_Subset
  <2>3. Cardinality(Behind') \in Nat
    BY <2>2, FS_CardinalityType
  <2> QED
    BY <1>1, <1>2, <1>7, <1>8, <1>9, <2>2, <2>3 DEF Load
<1>10. CASE ~(n < Threads)
  <2>1. Behind' = Behind \union {<<p, n + 1>>}
    <3>1. ASSUME NEW r \in Processes \ {p}
          PROVE  (Threads + 1)..Len(queue'[r]) = (Threads + 1)..Len(queue[r])
      BY <1>5
    <3>2. (Threads + 1)..Len(queue'[p]) = (Threads + 1)..Len(queue[p]) \union {n + 1}
      BY <1>2, <1>5, <1>10 DEF n
    <3> QED
      BY <3>1, <3>2, <1>2 DEF Behind
  <2>2. IsFiniteSet(Behind') /\ Cardinality(Behind') <= Cardinality(Behind) + 1
    <3>1. PICK j : j = <<p, n + 1>>
      OBVIOUS
    <3>2. Behind' = Behind \union {j}
      BY <2>1, <3>1
    <3> HIDE DEF Behind
    <3>3. /\ IsFiniteSet(Behind \union {j})
          /\ Cardinality(Behind \union {j})
               = IF j \in Behind THEN Cardinality(Behind) ELSE Cardinality(Behind) + 1
      BY FS_AddElement
    <3> QED
      BY <3>2, <3>3, <1>8
  <2>3. Cardinality(Behind') \in Nat
    BY <2>2, FS_CardinalityType
  <2> QED
    BY <1>1, <1>2, <1>7, <1>8, <1>10, <2>2, <2>3 DEF Load
<1> QED
  BY <1>9, <1>10

LEMMA PairsWithout ==
  ASSUME NEW p, NEW S, NEW n
  PROVE  /\ {p} \X (S \ {n}) = ({p} \X S) \ {<<p, n>>}
         /\ \A r : r # p => {r} \X S = ({r} \X S) \ {<<p, n>>}
OBVIOUS

(* The job behind the one that ends is run.                                *)
LEMMA JobEndsLoad ==
  ASSUME PoolInv, IsFiniteSet(Owing), IsFiniteSet(Behind), NEW p \in Processes, JobEnds(p)
  PROVE  IsFiniteSet(Owing') /\ IsFiniteSet(Behind') /\ Load' <= Load
<1> DEFINE n == Len(queue[p])
<1>0. CallsOk' /\ CallsOk
  BY JobEndsKeepsJobs DEF PoolInv
<1>1. /\ n \in Nat /\ n > 0 /\ Len(queue'[p]) = n - 1 /\ reached \in Nat
      /\ reached' = (IF n > Threads THEN reached + 1 ELSE reached)
      /\ \A r \in Processes \ {p} : queue'[r] = queue[r]
      /\ Threads \in Nat \ {0}
  BY JobEndsKeepsJobs, JobsTyped, GatewayAssumption DEF PoolInv, CountersOk
<1>2. Owing' \subseteq Owing
  <2>1. ASSUME NEW c \in Callers PROVE Owed(call'[c]) <= Owed(call[c])
    <3>1. CASE call'[c] = call[c]
      BY <3>1, <1>0, OwedTyped
    <3>2. CASE call'[c] # call[c]
      <4>1. PICK d \in Callers : /\ call[d].pc = "waiting" /\ call'[d].pc \in {"valid", "failed"}
                                 /\ call'[d].attempt = call[d].attempt
                                 /\ \A e \in Callers \ {d} : call'[e] = call[e]
        BY <3>2, JobEndsKeepsJobs
      <4>2. d = c
        BY <3>2, <4>1
      <4>3. call[c].attempt \in {1, 2}
        BY <4>1, <4>2, <1>0 DEF CallsOk
      <4> QED
        BY <4>1, <4>2, <4>3 DEF Owed, Left
    <3> QED
      BY <3>1, <3>2
  <2> QED
    BY <2>1, <1>0, OwingShrinks
<1> HIDE DEF n
<1>3. CASE ~(n > Threads)
  <2>1. Behind' \subseteq Behind
    <3>1. ASSUME NEW r \in Processes
          PROVE  Len(queue'[r]) \in Nat /\ Len(queue'[r]) <= Len(queue[r])
      BY <1>1, JobsTyped DEF PoolInv, n
    <3> QED
      BY <3>1, BehindShrinks DEF PoolInv
  <2> QED
    BY <1>1, <1>2, <1>3, <2>1, LoadFalls
<1>4. CASE n > Threads
  <2>1. Behind' = Behind \ {<<p, n>>} /\ <<p, n>> \in Behind
    <3>1. \A r \in Processes \ {p} :
            (Threads + 1)..Len(queue'[r]) = (Threads + 1)..Len(queue[r])
      BY <1>1
    <3>2. /\ (Threads + 1)..Len(queue'[p]) = ((Threads + 1)..Len(queue[p])) \ {n}
          /\ n \in (Threads + 1)..Len(queue[p])
      BY <1>1, <1>4 DEF n
    <3>3. ASSUME NEW r \in Processes
          PROVE  {r} \X ((Threads + 1)..Len(queue'[r]))
                   = ({r} \X ((Threads + 1)..Len(queue[r]))) \ {<<p, n>>}
      <4> DEFINE S == (Threads + 1)..Len(queue[r])
                 T == (Threads + 1)..Len(queue'[r])
      <4>1. IF r = p THEN T = S \ {n} ELSE T = S
        BY <3>1, <3>2
      <4> HIDE DEF S, T
      <4>2. {r} \X T = ({r} \X S) \ {<<p, n>>}
        <5>1. CASE r = p
          BY <4>1, <5>1, PairsWithout
        <5>2. CASE r # p
          BY <4>1, <5>2, PairsWithout
        <5> QED
          BY <5>1, <5>2
      <4> QED
        BY <4>2 DEF S, T
    <3>4. <<p, n>> \in Behind
      BY <3>2 DEF Behind
    <3> QED
      BY <3>3, <3>4 DEF Behind
  <2>2. IsFiniteSet(Behind') /\ Cardinality(Behind') = Cardinality(Behind) - 1
    <3>1. PICK j : j = <<p, n>>
      OBVIOUS
    <3>2. Behind' = Behind \ {j} /\ j \in Behind
      BY <2>1, <3>1
    <3> HIDE DEF Behind
    <3> QED
      BY <3>2, FS_RemoveElement
  <2>3. IsFiniteSet(Owing') /\ Cardinality(Owing') <= Cardinality(Owing)
    BY <1>2, FS_Subset
  <2>4. /\ Cardinality(Owing) \in Nat /\ Cardinality(Behind) \in Nat
        /\ Cardinality(Owing') \in Nat
    BY <2>3, FS_CardinalityType
  <2> QED
    BY <1>1, <1>4, <2>2, <2>3, <2>4 DEF Load
<1> QED
  BY <1>3, <1>4

(* A call that begins may submit two attempts, if it is let through.       *)
LEMMA BeginLoad ==
  ASSUME PoolInv, IsFiniteSet(Owing), IsFiniteSet(Behind), NEW c \in Callers, Begin(c),
         call' = [call EXCEPT ![c] = FirstAttempt]
  PROVE  IsFiniteSet(Owing') /\ IsFiniteSet(Behind') /\ Load' <= Load + 2
<1>1. /\ UNCHANGED queue /\ UNCHANGED reached /\ call'[c] = FirstAttempt
      /\ \A d \in Callers \ {c} : call'[d] = call[d]
  BY DEF Begin, PoolInv, CallsOk
<1>2. Behind' = Behind
  BY <1>1 DEF Behind
<1>3. Owing' \subseteq (Owing \union {<<c, 1>>}) \union {<<c, 2>>}
  <2>1. ASSUME NEW a \in Callers \X {1, 2}, a[2] <= Owed(call'[a[1]])
        PROVE  a[2] <= Owed(call[a[1]]) \/ a = <<c, 1>> \/ a = <<c, 2>>
    <3>1. a[1] \in Callers /\ a[2] \in {1, 2} /\ a = <<a[1], a[2]>>
      OBVIOUS
    <3>2. CASE a[1] = c
      BY <3>1, <3>2
    <3>3. CASE a[1] # c
      <4>1. call'[a[1]] = call[a[1]]
        BY <3>1, <3>3, <1>1
      <4> QED
        BY <4>1, <2>1
    <3> QED
      BY <3>2, <3>3
  <2> QED
    BY <2>1 DEF Owing
<1>4. IsFiniteSet(Owing') /\ Cardinality(Owing') <= Cardinality(Owing) + 2
  <2>0. PICK a, b : a = <<c, 1>> /\ b = <<c, 2>>
    OBVIOUS
  <2>1. PICK T, U : T = Owing \union {a} /\ U = T \union {b}
    OBVIOUS
  <2>2. IsFiniteSet(T) /\ Cardinality(T) <= Cardinality(Owing) + 1 /\ Cardinality(Owing) \in Nat
    <3>1. /\ IsFiniteSet(Owing \union {a})
          /\ Cardinality(Owing \union {a})
               = IF a \in Owing THEN Cardinality(Owing) ELSE Cardinality(Owing) + 1
      BY FS_AddElement
    <3>2. Cardinality(Owing) \in Nat
      BY FS_CardinalityType
    <3> QED
      BY <2>1, <3>1, <3>2
  <2>3. IsFiniteSet(U) /\ Cardinality(U) <= Cardinality(T) + 1 /\ Cardinality(T) \in Nat
    <3>1. /\ IsFiniteSet(T \union {b})
          /\ Cardinality(T \union {b}) = IF b \in T THEN Cardinality(T) ELSE Cardinality(T) + 1
      BY <2>2, FS_AddElement
    <3>2. Cardinality(T) \in Nat
      BY <2>2, FS_CardinalityType
    <3> QED
      BY <2>1, <3>1, <3>2
  <2>4. Owing' \in SUBSET U
    BY <1>3, <2>0, <2>1
  <2>5. IsFiniteSet(Owing') /\ Cardinality(Owing') <= Cardinality(U)
    BY <2>3, <2>4, FS_Subset
  <2>6. Cardinality(Owing') \in Nat /\ Cardinality(U) \in Nat
    BY <2>3, <2>5, FS_CardinalityType
  <2> QED
    BY <2>2, <2>3, <2>5, <2>6
<1>5. /\ Cardinality(Owing) \in Nat /\ Cardinality(Owing') \in Nat /\ Cardinality(Behind) \in Nat
      /\ reached \in Nat
  BY <1>4, FS_CardinalityType DEF PoolInv, CountersOk
<1> QED
  BY <1>1, <1>2, <1>4, <1>5 DEF Load

(* Nothing else adds to what is under way.                                 *)
LEMMA OthersLoad ==
  ASSUME PoolInv, IsFiniteSet(Owing), IsFiniteSet(Behind),
         \/ UNCHANGED <<call, queue, reached>>
         \/ \E c \in Callers :
              \/ CheckBreaker(c) \/ CheckFailsOpen(c) \/ Timeout(c)
              \/ ForgetFailures(c) \/ CloseBreaker(c)
              \/ CountFailure(c) \/ TripBreaker(c) \/ RecordFails(c)
         \/ \E p \in Processes : CrashProcess(p)
  PROVE  IsFiniteSet(Owing') /\ IsFiniteSet(Behind') /\ Load' <= Load
<1>0. CallsOk /\ JobsOk /\ reached \in Nat
  BY DEF PoolInv, CountersOk
<1>1. UNCHANGED reached
  BY DEF CheckBreaker, CheckFailsOpen, Timeout, ForgetFailures, CloseBreaker, CountFailure,
         TripBreaker, RecordFails, CrashProcess
<1>2. Behind' \subseteq Behind
  <2>1. ASSUME NEW r \in Processes
        PROVE  Len(queue'[r]) \in Nat /\ Len(queue'[r]) <= Len(queue[r])
    <3>0. Len(queue[r]) \in Nat
      BY <1>0, JobsTyped
    <3>1. CASE UNCHANGED queue
      BY <3>0, <3>1
    <3>2. CASE \E c \in Callers : Timeout(c)
      BY <3>0, <3>2, TimeoutKeepsJobs
    <3>3. CASE \E p \in Processes : CrashProcess(p)
      <4>1. queue'[r] = queue[r] \/ queue'[r] = <<>>
        BY <3>3, CrashKeepsJobs
      <4> QED
        BY <4>1, <3>0
    <3>4. UNCHANGED queue \/ (\E c \in Callers : Timeout(c)) \/ \E p \in Processes : CrashProcess(p)
      BY DEF CheckBreaker, CheckFailsOpen, ForgetFailures, CloseBreaker, CountFailure,
             TripBreaker, RecordFails
    <3> QED
      BY <3>1, <3>2, <3>3, <3>4
  <2> QED
    BY <2>1, <1>0, BehindShrinks
<1>3. Owing' \subseteq Owing
  <2>1. CASE UNCHANGED call
    BY <2>1 DEF Owing
  <2>2. CASE \E p \in Processes : CrashProcess(p)
    <3>1. CallsOk' /\ \A c \in Callers : call'[c] = call[c] \/ call'[c] = NoCall
      BY <2>2, CrashKeepsJobs
    <3>2. Owed(NoCall) = 0
      BY DEF Owed, Left, NoCall
    <3>3. \A c \in Callers : Owed(call'[c]) <= Owed(call[c])
      BY <3>1, <3>2, <1>0, OwedTyped
    <3> QED
      BY <3>1, <3>3, <1>0, OwingShrinks
  <2>3. ASSUME NEW c \in Callers,
               \/ CheckBreaker(c) \/ CheckFailsOpen(c) \/ Timeout(c)
               \/ ForgetFailures(c) \/ CloseBreaker(c)
               \/ CountFailure(c) \/ TripBreaker(c) \/ RecordFails(c)
        PROVE  Owing' \subseteq Owing
    <3>1. CallsOk' /\ \A d \in Callers \ {c} : call'[d] = call[d]
      <4>1. CASE Timeout(c)
        <5>1. call[c].pc = "waiting" /\ Goto(c, "failed")
          BY <4>1 DEF Timeout
        <5> QED
          BY <5>1, <1>0, GotoMoves
      <4> QED
        BY <2>3, <4>1, CallersStep
    <3>2. Owed(call'[c]) <= Owed(call[c])
      <4>0. call[c].pc # "idle" => call[c].attempt \in {1, 2}
        BY <1>0 DEF CallsOk
      <4>1. CASE CheckBreaker(c) \/ CheckFailsOpen(c)
        <5>1. call[c].pc = "admitted" /\ (Goto(c, "trying") \/ Return(c))
          BY <4>1 DEF CheckBreaker, CheckFailsOpen
        <5>2. \/ call'[c].pc = "trying" /\ call'[c].attempt = call[c].attempt
              \/ call'[c] = NoCall
          BY <5>1, <1>0, GotoMoves, ReturnMoves
        <5> QED
          BY <5>1, <5>2, <4>0 DEF Owed, Left, NoCall
      <4>2. CASE Timeout(c)
        <5>1. call[c].pc = "waiting" /\ Goto(c, "failed")
          BY <4>2 DEF Timeout
        <5>2. call'[c].pc = "failed" /\ call'[c].attempt = call[c].attempt
          BY <5>1, <1>0, GotoMoves
        <5> QED
          BY <5>1, <5>2, <4>0 DEF Owed, Left
      <4>3. CASE ForgetFailures(c) \/ CloseBreaker(c)
        <5>1. call[c].pc \in {"valid", "closing"} /\ (Goto(c, "closing") \/ Return(c))
          BY <4>3 DEF ForgetFailures, CloseBreaker
        <5>2. call'[c].pc = "closing" \/ call'[c] = NoCall
          BY <5>1, <1>0, GotoMoves, ReturnMoves
        <5> QED
          BY <5>1, <5>2 DEF Owed, Left, NoCall
      <4>4. CASE CountFailure(c) \/ TripBreaker(c) \/ RecordFails(c)
        <5>1. Left(call'[c]) <= Left(call[c])
          BY <4>4, RecordingLeaves
        <5>2. call[c].pc # "admitted"
          BY <4>4 DEF CountFailure, TripBreaker, RecordFails
        <5>3. call'[c].pc # "admitted"
          <6>1. CASE CountFailure(c)
            BY <6>1, <1>0 DEF CountFailure, CallsOk, CallRow
          <6>2. CASE TripBreaker(c) \/ RecordFails(c)
            <7>1. TryAgain(c) \/ Return(c)
              BY <6>2 DEF TripBreaker, RecordFails
            <7>2. call'[c].pc = "trying" \/ call'[c] = NoCall
              BY <7>1, <4>4, <1>0, RetryMoves, ReturnMoves DEF TripBreaker, RecordFails, CountFailure
            <7> QED
              BY <7>2 DEF NoCall
          <6> QED
            BY <4>4, <6>1, <6>2
        <5> QED
          BY <5>1, <5>2, <5>3 DEF Owed
      <4> QED
        BY <2>3, <4>1, <4>2, <4>3, <4>4
    <3>3. ASSUME NEW d \in Callers PROVE Owed(call'[d]) <= Owed(call[d])
      <4>1. CASE d = c
        BY <3>2, <4>1
      <4>2. CASE d # c
        <5>1. call'[d] = call[d] /\ Owed(call[d]) \in 0..2
          BY <3>1, <4>2, <1>0, OwedTyped
        <5> QED
          BY <5>1
      <4> QED
        BY <4>1, <4>2
    <3> QED
      BY <3>1, <3>3, <1>0, OwingShrinks
  <2> QED
    BY <2>1, <2>2, <2>3
<1> QED
  BY <1>0, <1>1, <1>2, <1>3, LoadFalls

-----------------------------------------------------------------------------
(* What the windows have let through never falls, and grows with every     *)
(* call they let through.                                                  *)
LEMMA BudgetTyped ==
  ASSUME CountersOk
  PROVE  InMinutes \in Nat /\ InDay \in Nat /\ unmetered \in Nat
<1>1. PerMinute \in Nat /\ PerDay \in Nat /\ clock \div Minute \in Nat
  BY GatewayAssumption, DivTyped DEF CountersOk
<1>2. PerMinute * (clock \div Minute) \in Nat
  BY <1>1, ProductTyped
<1> QED
  BY <1>1, <1>2 DEF CountersOk, InMinutes, InDay, Fewer

LEMMA FewerGrows ==
  ASSUME NEW a \in Nat, NEW b \in Nat, NEW n \in Nat, a <= b
  PROVE  Fewer(a, n) <= Fewer(b, n) /\ Fewer(a, n) \in Nat /\ Fewer(b, n) \in Nat
BY DEF Fewer

LEMMA BudgetStays ==
  ASSUME CountersOk, CountersOk', UNCHANGED clock, minute' >= minute, day' >= day
  PROVE  InMinutes' >= InMinutes /\ InDay' >= InDay
<1>1. PerMinute \in Nat /\ PerDay \in Nat /\ clock \div Minute \in Nat
  BY GatewayAssumption, DivTyped DEF CountersOk
<1> DEFINE x == PerMinute * (clock \div Minute)
<1>2. x \in Nat
  BY <1>1, ProductTyped
<1>3. InMinutes' = Fewer(minute', PerMinute) + x /\ InMinutes = Fewer(minute, PerMinute) + x
  BY DEF InMinutes
<1> HIDE DEF x
<1>4. /\ minute \in Nat /\ minute' \in Nat /\ minute <= minute'
      /\ day \in Nat /\ day' \in Nat /\ day <= day'
  BY DEF CountersOk
<1>5. /\ Fewer(minute, PerMinute) <= Fewer(minute', PerMinute)
      /\ Fewer(minute, PerMinute) \in Nat /\ Fewer(minute', PerMinute) \in Nat
  BY <1>1, <1>4, FewerGrows
<1>6. Fewer(day, PerDay) <= Fewer(day', PerDay) /\ Fewer(day, PerDay) \in Nat /\ Fewer(day', PerDay) \in Nat
  BY <1>1, <1>4, FewerGrows
<1> QED
  BY <1>2, <1>3, <1>5, <1>6 DEF InDay

LEMMA BudgetTicks ==
  ASSUME CountersOk, GatewayTick
  PROVE  InMinutes' >= InMinutes /\ InDay' = InDay /\ unmetered' = unmetered
<1>1. PerMinute \in Nat /\ Minute \in Nat \ {0} /\ clock \in Nat /\ minute \in Nat
  BY GatewayAssumption DEF CountersOk
<1>2. PICK k, l \in Nat : k = clock \div Minute /\ l = (clock + 1) \div Minute
  BY <1>1, DivTyped
<1>3. l >= k /\ ((clock + 1) % Minute = 0 => l >= k + 1)
  BY <1>1, <1>2, DivStep
<1>4. /\ clock' = clock + 1 /\ minute' = (IF (clock + 1) % Minute = 0 THEN 0 ELSE minute)
      /\ UNCHANGED <<day, unmetered>>
  BY DEF GatewayTick
<1>5. InMinutes = Fewer(minute, PerMinute) + PerMinute * k
  BY <1>2 DEF InMinutes
<1>6. InMinutes' = Fewer(minute', PerMinute) + PerMinute * l
  BY <1>2, <1>4 DEF InMinutes
<1>7. /\ PerMinute * l >= PerMinute * k
      /\ l >= k + 1 => PerMinute * l >= PerMinute * k + PerMinute
  BY <1>1, <1>3, ProductGrows
<1>8. PerMinute * k \in Nat /\ PerMinute * l \in Nat
  BY <1>1, ProductTyped
<1>9. InMinutes' >= InMinutes
  <2>1. CASE (clock + 1) % Minute = 0
    <3>1. PerMinute * l >= PerMinute * k + PerMinute /\ minute' = 0
      BY <2>1, <1>3, <1>4, <1>7
    <3>2. Fewer(minute', PerMinute) = 0 /\ Fewer(minute, PerMinute) <= PerMinute
          /\ Fewer(minute, PerMinute) \in Nat
      BY <3>1, <1>1 DEF Fewer
    <3> QED
      BY <3>1, <3>2, <1>1, <1>5, <1>6, <1>8
  <2>2. CASE ~((clock + 1) % Minute = 0)
    <3>1. minute' = minute /\ Fewer(minute, PerMinute) \in Nat
      BY <2>2, <1>1, <1>4 DEF Fewer
    <3> QED
      BY <3>1, <1>5, <1>6, <1>7, <1>8
  <2> QED
    BY <2>1, <2>2
<1> QED
  BY <1>4, <1>9 DEF InDay

(* A call that is within both windows is one more that they let through.   *)
LEMMA AllowBudget ==
  ASSUME CountersOk, NEW c \in Callers, Allow(c), Within
  PROVE  /\ InMinutes' = InMinutes + 1 /\ InDay' = InDay + 1 /\ unmetered' = unmetered
<1>1. /\ UNCHANGED <<clock, unmetered>> /\ minute' = minute + 1 /\ day' = day + 1
      /\ minute' <= PerMinute /\ day' <= PerDay
  BY DEF Allow, Begin, Count, Within
<1>2. /\ PerMinute \in Nat /\ PerDay \in Nat /\ clock \div Minute \in Nat
      /\ minute \in Nat /\ day \in Nat
  BY GatewayAssumption, DivTyped DEF CountersOk
<1> DEFINE x == PerMinute * (clock \div Minute)
<1>3. x \in Nat
  BY <1>2, ProductTyped
<1>4. InMinutes' = Fewer(minute', PerMinute) + x /\ InMinutes = Fewer(minute, PerMinute) + x
  BY <1>1 DEF InMinutes
<1> HIDE DEF x
<1> QED
  BY <1>1, <1>2, <1>3, <1>4 DEF InDay, Fewer

LEMMA SpendStep ==
  ASSUME PoolInv, SpendInv, [GatewayNext]_gatewayVars
  PROVE  SpendInv'
<1>0. /\ CountersOk /\ CountersOk' /\ CallsOk /\ IsFiniteSet(Owing) /\ IsFiniteSet(Behind)
  BY CountersStep DEF PoolInv, SpendInv
<1>1. Load \in Nat
  <2>1. Cardinality(Owing) \in Nat /\ Cardinality(Behind) \in Nat /\ reached \in Nat
    BY <1>0, FS_CardinalityType DEF CountersOk
  <2> QED
    BY <2>1 DEF Load
<1>2. /\ InMinutes \in Nat /\ InDay \in Nat /\ unmetered \in Nat
  BY <1>0, BudgetTyped
<1>3. Load <= 2 * (InMinutes + unmetered) /\ Load <= 2 * (InDay + unmetered)
  BY DEF SpendInv
<1>4. ASSUME IsFiniteSet(Owing'), IsFiniteSet(Behind')
      PROVE  Load' \in Nat /\ InMinutes' \in Nat /\ InDay' \in Nat /\ unmetered' \in Nat
  <2>1. Cardinality(Owing') \in Nat /\ Cardinality(Behind') \in Nat /\ reached' \in Nat
    BY <1>0, <1>4, FS_CardinalityType DEF CountersOk
  <2>2. /\ clock' \in Nat /\ minute' \in Nat /\ day' \in Nat /\ unmetered' \in Nat
        /\ Minute \in Nat \ {0} /\ PerMinute \in Nat /\ PerDay \in Nat
    BY <1>0, GatewayAssumption DEF CountersOk
  <2>3. PICK k \in Nat : k = clock' \div Minute
    BY <2>2, DivTyped
  <2>4. PerMinute * k \in Nat
    BY <2>2, ProductTyped
  <2>5. InMinutes' = Fewer(minute', PerMinute) + PerMinute * k
    BY <2>3 DEF InMinutes
  <2>6. Load' \in Nat
    BY <2>1 DEF Load
  <2>7. Fewer(minute', PerMinute) \in Nat /\ Fewer(day', PerDay) \in Nat
    BY <2>2 DEF Fewer
  <2>8. InDay' = Fewer(day', PerDay)
    BY DEF InDay
  <2> QED
    BY <2>2, <2>4, <2>5, <2>6, <2>7, <2>8
<1>5. ASSUME NEW c \in Callers, Allow(c), Within
      PROVE  SpendInv'
  <2>1. Begin(c) /\ call' = [call EXCEPT ![c] = FirstAttempt]
    BY <1>5 DEF Allow
  <2>2. IsFiniteSet(Owing') /\ IsFiniteSet(Behind') /\ Load' <= Load + 2
    BY <1>0, <2>1, BeginLoad
  <2>3. InMinutes' = InMinutes + 1 /\ InDay' = InDay + 1 /\ unmetered' = unmetered
    BY <1>0, <1>5, AllowBudget
  <2> QED
    BY <1>1, <1>2, <1>3, <1>4, <2>2, <2>3 DEF SpendInv
<1>6. ASSUME NEW c \in Callers, AllowFailsOpen(c)
      PROVE  SpendInv'
  <2>1. /\ Begin(c) /\ call' = [call EXCEPT ![c] = FirstAttempt] /\ unmetered' = unmetered + 1
        /\ UNCHANGED clock /\ minute' >= minute /\ day' >= day
    BY <1>0, <1>6 DEF AllowFailsOpen, Begin, Count, limiter, CountersOk
  <2>2. IsFiniteSet(Owing') /\ IsFiniteSet(Behind') /\ Load' <= Load + 2
    BY <1>0, <2>1, BeginLoad
  <2>3. InMinutes' >= InMinutes /\ InDay' >= InDay
    BY <1>0, <2>1, BudgetStays
  <2> QED
    BY <1>1, <1>2, <1>3, <1>4, <2>1, <2>2, <2>3 DEF SpendInv
<1>7. ASSUME InMinutes' >= InMinutes, InDay' >= InDay, unmetered' = unmetered,
             IsFiniteSet(Owing'), IsFiniteSet(Behind'), Load' <= Load
      PROVE  SpendInv'
  BY <1>1, <1>2, <1>3, <1>4, <1>7 DEF SpendInv
<1>8. CASE GatewayTick
  <2>1. UNCHANGED <<call, queue, reached>>
    BY <1>8 DEF GatewayTick
  <2> QED
    BY <1>0, <1>7, <1>8, <2>1, OthersLoad, BudgetTicks, <1>2
<1>9. ASSUME UNCHANGED <<clock, unmetered>>, minute' >= minute, day' >= day,
             IsFiniteSet(Owing'), IsFiniteSet(Behind'), Load' <= Load
      PROVE  SpendInv'
  BY <1>0, <1>7, <1>9, BudgetStays
<1>10. ASSUME NEW c \in Callers, Allow(c), ~Within
       PROVE  SpendInv'
  <2>1. /\ UNCHANGED <<call, queue, reached, clock, unmetered>> /\ minute' >= minute /\ day' >= day
    BY <1>0, <1>10 DEF Allow, Begin, Count, CountersOk
  <2> QED
    BY <1>0, <1>9, <2>1, OthersLoad
<1>11. ASSUME UNCHANGED <<clock, unmetered, minute, day>>,
              IsFiniteSet(Owing'), IsFiniteSet(Behind'), Load' <= Load
       PROVE  SpendInv'
  BY <1>0, <1>9, <1>11 DEF CountersOk
<1>12. ASSUME NEW c \in Callers,
              \/ CheckBreaker(c) \/ CheckFailsOpen(c) \/ Timeout(c)
              \/ ForgetFailures(c) \/ CloseBreaker(c)
              \/ CountFailure(c) \/ TripBreaker(c) \/ RecordFails(c)
       PROVE  SpendInv'
  <2>1. UNCHANGED <<clock, unmetered, minute, day>>
    BY <1>12 DEF CheckBreaker, CheckFailsOpen, Timeout, ForgetFailures, CloseBreaker,
                 CountFailure, TripBreaker, RecordFails, limiter
  <2> QED
    BY <1>0, <1>11, <1>12, <2>1, OthersLoad
<1>13. ASSUME NEW c \in Callers, Submit(c)
       PROVE  SpendInv'
  <2>1. UNCHANGED <<clock, unmetered, minute, day>>
    BY <1>13 DEF Submit, limiter
  <2> QED
    BY <1>0, <1>11, <1>13, <2>1, SubmitLoad
<1>14. ASSUME NEW p \in Processes, JobEnds(p)
       PROVE  SpendInv'
  <2>1. UNCHANGED <<clock, unmetered, minute, day>>
    BY <1>14 DEF JobEnds, limiter
  <2> QED
    BY <1>0, <1>11, <1>14, <2>1, JobEndsLoad
<1>15. ASSUME NEW p \in Processes, CrashProcess(p)
       PROVE  SpendInv'
  <2>1. UNCHANGED <<clock, unmetered, minute, day>>
    BY <1>15 DEF CrashProcess, limiter
  <2> QED
    BY <1>0, <1>11, <1>15, <2>1, OthersLoad
<1>16. CASE UNCHANGED gatewayVars
  <2>1. UNCHANGED <<call, queue, reached, clock, unmetered, minute, day>>
    BY <1>16 DEF gatewayVars, limiter
  <2> QED
    BY <1>0, <1>11, <2>1, OthersLoad
<1> QED
  BY <1>5, <1>6, <1>8, <1>10, <1>12, <1>13, <1>14, <1>15, <1>16 DEF GatewayNext, Own

-----------------------------------------------------------------------------
GatewayInv == PoolInv /\ FailuresExpire /\ LateOk /\ SpendInv

(* The invariant holds in every state of every behaviour.                  *)
THEOREM GatewayInvariant == GatewaySpec => []GatewayInv
<1>1. GatewayInit => GatewayInv
  <2> SUFFICES ASSUME GatewayInit PROVE GatewayInv
    OBVIOUS
  <2>1. CallsOk /\ \A c \in Callers : call[c] = NoCall
    BY DEF GatewayInit, CallsOk, CallRow, NoCall
  <2>2. JobsOk /\ \A p \in Processes : Len(queue[p]) = 0
    BY DEF GatewayInit, JobsOk
  <2>3. CountersOk
    BY DEF GatewayInit, CountersOk, Never
  <2>4. FailuresExpire
    BY DEF GatewayInit, FailuresExpire
  <2>5. Left(NoCall) = 0 /\ Owed(NoCall) = 0
    BY DEF Left, Owed, NoCall
  <2>6. LateOk
    BY <2>1, <2>5 DEF GatewayInit, LateOk
  <2>7. Owing = {} /\ Behind = {}
    <3>1. Owing = {}
      BY <2>1, <2>5 DEF Owing
    <3>2. \A p \in Processes : (Threads + 1)..Len(queue[p]) = {}
      BY <2>2, GatewayAssumption
    <3> QED
      BY <3>1, <3>2 DEF Behind
  <2>8. Load = 0 /\ IsFiniteSet(Owing) /\ IsFiniteSet(Behind)
    BY <2>7, FS_EmptySet DEF Load, GatewayInit
  <2>9. SpendInv
    BY <2>3, <2>8, BudgetTyped DEF SpendInv
  <2> QED
    BY <2>1, <2>2, <2>3, <2>4, <2>6, <2>9 DEF GatewayInv, PoolInv
<1>2. GatewayInv /\ [GatewayNext]_gatewayVars => GatewayInv'
  BY PoolStep, FailuresStep, LateStep, SpendStep DEF GatewayInv
<1> QED
  BY <1>1, <1>2, PTL DEF GatewaySpec

(* Failures are forgotten: the counter of the breaker has a life unless a  *)
(* caller is about to give it one or Redis failed (circuit_breaker.py).    *)
THEOREM FailuresExpireCorrect == GatewaySpec => []FailuresExpire
<1>1. GatewayInv => FailuresExpire
  BY DEF GatewayInv
<1> QED
  BY <1>1, GatewayInvariant, PTL

(* An open breaker stops a caller after the call it is in                  *)
(* (circuit_breaker.py, model_gateway.py).                                 *)
THEOREM LateAttemptsBoundedCorrect == GatewaySpec => []LateAttemptsBounded
<1>1. GatewayInv => LateAttemptsBounded
  <2> SUFFICES ASSUME GatewayInv, NEW c \in Callers
               PROVE  late[c] <= 2 + 2 * mishaps
    BY DEF LateAttemptsBounded
  <2>1. /\ late[c] + Left(call[c]) <= 2 + 2 * mishaps /\ late[c] \in Nat
        /\ Left(call[c]) \in 0..2 /\ mishaps \in Nat
    BY LeftTyped DEF GatewayInv, LateOk, PoolInv, CountersOk
  <2> QED
    BY <2>1
<1> QED
  BY <1>1, GatewayInvariant, PTL

(* What reaches the provider stays within two attempts for every call that *)
(* the windows let through (rate_limit.py, model_gateway.py).              *)
THEOREM SpendBoundedCorrect == GatewaySpec => []SpendBounded
<1>1. GatewayInv => SpendBounded
  <2> SUFFICES ASSUME GatewayInv PROVE SpendBounded
    OBVIOUS
  <2>1. /\ Load <= 2 * (InMinutes + unmetered) /\ Load <= 2 * (InDay + unmetered)
        /\ CountersOk /\ IsFiniteSet(Owing) /\ IsFiniteSet(Behind)
    BY DEF GatewayInv, SpendInv, PoolInv
  <2>2. reached <= Load /\ reached \in Nat /\ Load \in Nat
    <3>1. Cardinality(Owing) \in Nat /\ Cardinality(Behind) \in Nat /\ reached \in Nat
      BY <2>1, FS_CardinalityType DEF CountersOk
    <3> QED
      BY <3>1 DEF Load
  <2>3. PICK k \in Nat : k = clock \div Minute
    BY <2>1, GatewayAssumption, DivTyped DEF CountersOk
  <2>4. /\ PerMinute \in Nat /\ PerDay \in Nat /\ minute \in Nat /\ day \in Nat /\ unmetered \in Nat
    BY <2>1, GatewayAssumption DEF CountersOk
  <2>5. PerMinute * k \in Nat /\ PerMinute * (1 + k) = PerMinute + PerMinute * k
    BY <2>3, <2>4, ProductTyped
  <2>6. InMinutes <= PerMinute + PerMinute * k /\ InDay <= PerDay /\ InMinutes \in Nat /\ InDay \in Nat
    BY <2>3, <2>4, <2>5 DEF InMinutes, InDay, Fewer
  <2>7. reached <= 2 * (PerMinute * (1 + k) + unmetered)
    BY <2>1, <2>2, <2>4, <2>5, <2>6
  <2>8. reached <= 2 * (PerDay + unmetered)
    BY <2>1, <2>2, <2>4, <2>6
  <2> QED
    BY <2>3, <2>7, <2>8 DEF SpendBounded
<1> QED
  BY <1>1, GatewayInvariant, PTL
===============================================================================
