------------------------------ MODULE ModelGateway ------------------------------
(***************************************************************************)
(* ModelGateway.complete_structured (reo_common/model_gateway.py) with its *)
(* two guardrails in Redis: the rate limiter (guardrails/rate_limit.py)    *)
(* and the circuit breaker of a tenant (guardrails/circuit_breaker.py).    *)
(*                                                                         *)
(* Callers of several processes run at once against the same counters.     *)
(* A command to Redis is atomic, a call is a sequence of them.  A call     *)
(* makes up to two attempts; an attempt is a job for a thread pool of its  *)
(* process, and a job whose caller stopped waiting is not cancelled: it    *)
(* keeps its place and reaches the provider all the same.                  *)
(*                                                                         *)
(* Abstractions: one tenant; time is counted in ticks; a run lies within   *)
(* one day; what is asked and answered is left out, an answer is valid,    *)
(* fails (the schema, the provider).  The breaker is enabled, which is the *)
(* default; evaluations have counters of their own and no breaker, and     *)
(* neither see nor touch the state modelled here.                          *)
(***************************************************************************)
EXTENDS Integers, Sequences, SequencesExt, FiniteSets

CONSTANTS Callers,      \* threads that call the gateway
          Processes,
          Home,         \* the process a caller runs in
          Threads,      \* threads of the pool of a process
          PerMinute,    \* calls a minute
          PerDay,       \* calls a day
          Minute,       \* ticks in a minute
          Threshold,    \* gateway_failure_threshold
          Cooldown,     \* gateway_cooldown_seconds, in ticks
          FailureTTL,   \* life of the failure counter, in ticks
          MaxClock, MaxCalls, MaxMishaps  \* bounds of the runs

ASSUME GatewayAssumption ==
  /\ Home \in [Callers -> Processes]
  /\ {Threads, Minute, Threshold, Cooldown} \subseteq Nat \ {0}
  /\ {PerMinute, PerDay, MaxClock, MaxCalls, MaxMishaps} \subseteq Nat
  /\ FailureTTL \in Nat /\ FailureTTL > Cooldown
  /\ "abandoned" \notin Callers

VARIABLES clock,
          minute, day,      \* the limiter's counters
          failures,         \* the breaker's counter
          failuresUntil,    \* when it expires
          openUntil,        \* when an open breaker lets calls through again
          call,             \* what each caller is doing
          queue,            \* jobs of each pool; the first Threads are running
          calls, mishaps,
          reached,          \* history: attempts that reached the provider
          unmetered,        \* history: calls let through as Redis failed
          late              \* history: attempts of a caller under an open breaker

limiter == <<minute, day>>
breaker == <<failures, failuresUntil, openUntil>>
gatewayVars == <<clock, limiter, breaker, call, queue, calls, mishaps, reached, unmetered, late>>

Never == -1
NoCall == [pc |-> "idle", attempt |-> 0, count |-> 0]
FirstAttempt == [pc |-> "admitted", attempt |-> 1, count |-> 0]
Goto(c, pc) == call' = [call EXCEPT ![c].pc = pc]
Return(c) == call' = [call EXCEPT ![c] = NoCall]

Open == openUntil > clock
Mishap == mishaps < MaxMishaps /\ mishaps' = mishaps + 1

GatewayInit ==
  /\ clock = 0
  /\ minute = 0 /\ day = 0
  /\ failures = 0 /\ failuresUntil = Never /\ openUntil = 0
  /\ call = [c \in Callers |-> NoCall]
  /\ queue = [p \in Processes |-> <<>>]
  /\ calls = 0 /\ mishaps = 0
  /\ reached = 0 /\ unmetered = 0
  /\ late = [c \in Callers |-> 0]

-----------------------------------------------------------------------------
(* Time: keys of a past minute are never read again; the failure counter   *)
(* and the open breaker expire.                                            *)
GatewayTick ==
  /\ clock < MaxClock
  /\ clock' = clock + 1
  /\ minute' = IF clock' % Minute = 0 THEN 0 ELSE minute
  /\ failures' = IF failuresUntil = clock' THEN 0 ELSE failures
  /\ failuresUntil' = IF failuresUntil = clock' THEN Never ELSE failuresUntil
  /\ openUntil' = IF openUntil > clock' THEN openUntil ELSE 0
  /\ late' = IF openUntil > clock' THEN late ELSE [c \in Callers |-> 0]
  /\ UNCHANGED <<day, call, queue, calls, mishaps, reached, unmetered>>

-----------------------------------------------------------------------------
(* Mutant: the budget is off by one.                                       *)
WithinLoose == minute' <= PerMinute + 1 /\ day' <= PerDay + 1

(* ModelCallRateLimiter.allow: both windows count, blocked calls too.      *)
Within == minute' <= PerMinute /\ day' <= PerDay

Count == minute' = minute + 1 /\ day' = day + 1

Begin(c) ==
  /\ call[c].pc = "idle" /\ calls < MaxCalls
  /\ calls' = calls + 1
  /\ UNCHANGED <<clock, breaker, queue, reached, late>>

Allow(c) ==
  /\ Begin(c)
  /\ Count
  /\ IF Within THEN call' = [call EXCEPT ![c] = FirstAttempt] ELSE UNCHANGED call
  /\ UNCHANGED <<mishaps, unmetered>>

(* Redis fails, before or after it has counted: the call goes ahead.       *)
AllowFailsOpen(c) ==
  /\ Begin(c)
  /\ Mishap
  /\ Count \/ UNCHANGED limiter
  /\ call' = [call EXCEPT ![c] = FirstAttempt]
  /\ unmetered' = unmetered + 1

(* Mutant: a breaker that is open is not looked at.                        *)
NoCheck(c) ==
  /\ call[c].pc = "admitted"
  /\ Goto(c, "trying")
  /\ UNCHANGED <<clock, limiter, breaker, queue, calls, mishaps, reached, unmetered, late>>

(* ModelCallCircuitBreaker.allow.                                          *)
CheckBreaker(c) ==
  /\ call[c].pc = "admitted"
  /\ IF Open THEN Return(c) ELSE Goto(c, "trying")
  /\ UNCHANGED <<clock, limiter, breaker, queue, calls, mishaps, reached, unmetered, late>>

CheckFailsOpen(c) ==
  /\ call[c].pc = "admitted" /\ Open
  /\ Mishap
  /\ Goto(c, "trying")
  /\ UNCHANGED <<clock, limiter, breaker, queue, calls, reached, unmetered, late>>

-----------------------------------------------------------------------------
(* An attempt is submitted to the pool, and is run at once if a thread is  *)
(* free.                                                                   *)
Submit(c) ==
  LET p == Home[c] IN
  /\ call[c].pc = "trying"
  /\ Goto(c, "waiting")
  /\ queue' = [queue EXCEPT ![p] = Append(@, c)]
  /\ reached' = IF Len(queue[p]) < Threads THEN reached + 1 ELSE reached
  /\ late' = IF Open THEN [late EXCEPT ![c] = @ + 1] ELSE late
  /\ UNCHANGED <<clock, limiter, breaker, calls, mishaps, unmetered>>

(* The provider answers a running job, and the job behind it is started.   *)
JobEnds(p) ==
  \E i \in 1..Len(queue[p]) :
    /\ i <= Threads
    /\ queue' = [queue EXCEPT ![p] = RemoveAt(@, i)]
    /\ reached' = IF Len(queue[p]) > Threads THEN reached + 1 ELSE reached
    /\ IF queue[p][i] = "abandoned" THEN UNCHANGED call
       ELSE Goto(queue[p][i], "valid") \/ Goto(queue[p][i], "failed")
    /\ UNCHANGED <<clock, limiter, breaker, calls, mishaps, unmetered, late>>

(* Mutant: the wait for the pool has no deadline.                          *)
NoTimeout(c) == call[c].pc = "timed out" /\ UNCHANGED gatewayVars

(* call_with_timeout gives up; the job stays in the pool.                  *)
Timeout(c) ==
  LET p == Home[c] IN
  /\ call[c].pc = "waiting"
  /\ Goto(c, "failed")
  /\ queue' = [queue EXCEPT ![p] = [i \in DOMAIN @ |-> IF @[i] = c THEN "abandoned" ELSE @[i]]]
  /\ UNCHANGED <<clock, limiter, breaker, calls, mishaps, reached, unmetered, late>>

-----------------------------------------------------------------------------
(* record_success: two keys are deleted, one after the other.              *)
ForgetFailures(c) ==
  /\ call[c].pc = "valid"
  /\ failures' = 0 /\ failuresUntil' = Never
  /\ Goto(c, "closing")
  /\ UNCHANGED <<clock, limiter, openUntil, queue, calls, mishaps, reached, unmetered, late>>

CloseBreaker(c) ==
  /\ call[c].pc = "closing"
  /\ openUntil' = 0
  /\ late' = [d \in Callers |-> 0]
  /\ Return(c)
  /\ UNCHANGED <<clock, limiter, failures, failuresUntil, queue, calls, mishaps,
                 reached, unmetered>>

(* record_failure: the counter is incremented, then given its life, and at *)
(* the threshold the breaker is opened.                                    *)
CountFailure(c) ==
  /\ call[c].pc = "failed"
  /\ failures' = failures + 1
  /\ call' = [call EXCEPT ![c].pc = "counted", ![c].count = failures + 1]
  /\ UNCHANGED <<clock, limiter, failuresUntil, openUntil, queue, calls, mishaps,
                 reached, unmetered, late>>

TryAgain(c) ==
  IF call[c].attempt = 1
  THEN call' = [call EXCEPT ![c] = [pc |-> "trying", attempt |-> 2, count |-> 0]]
  ELSE Return(c)

(* Mutant: only the first failure gives the counter its life.              *)
ExpiringFirst ==
  failuresUntil' = IF failures = 1 THEN clock + FailureTTL ELSE failuresUntil

(* EXPIRE does nothing when the key is gone.                               *)
Expiring ==
  failuresUntil' = IF failures > 0 THEN clock + FailureTTL ELSE failuresUntil

TripBreaker(c) ==
  /\ call[c].pc = "counted"
  /\ Expiring
  /\ openUntil' = IF call[c].count >= Threshold THEN clock + Cooldown ELSE openUntil
  /\ TryAgain(c)
  /\ UNCHANGED <<clock, limiter, failures, queue, calls, mishaps, reached, unmetered, late>>

(* Redis fails in record_success or record_failure: what was still to be   *)
(* written is not, and the call goes on.                                   *)
RecordFails(c) ==
  /\ call[c].pc \in {"valid", "closing", "failed", "counted"}
  /\ Mishap
  /\ IF call[c].pc \in {"valid", "closing"} THEN Return(c) ELSE TryAgain(c)
  /\ UNCHANGED failuresUntil \/ (call[c].pc = "counted" /\ Expiring)
  /\ UNCHANGED <<clock, limiter, failures, openUntil, queue, calls, reached, unmetered, late>>

(* A process dies with its calls and its pool.                             *)
CrashProcess(p) ==
  /\ \E c \in Callers : Home[c] = p /\ call[c] # NoCall
  /\ Mishap
  /\ call' = [c \in Callers |-> IF Home[c] = p THEN NoCall ELSE call[c]]
  /\ queue' = [queue EXCEPT ![p] = <<>>]
  /\ UNCHANGED <<clock, limiter, breaker, calls, reached, unmetered, late>>

Own(c) ==
  \/ CheckBreaker(c) \/ Submit(c) \/ Timeout(c)
  \/ ForgetFailures(c) \/ CloseBreaker(c) \/ CountFailure(c) \/ TripBreaker(c)

GatewayNext ==
  \/ GatewayTick
  \/ \E c \in Callers :
       Allow(c) \/ AllowFailsOpen(c) \/ CheckFailsOpen(c) \/ Own(c) \/ RecordFails(c)
  \/ \E p \in Processes : JobEnds(p) \/ CrashProcess(p)

GatewaySpec == GatewayInit /\ [][GatewayNext]_gatewayVars
(* A thread goes on; its wait for the pool has a deadline.  The provider   *)
(* need not answer.                                                        *)
GatewayFairSpec == GatewaySpec /\ \A c \in Callers : WF_gatewayVars(Own(c))

-----------------------------------------------------------------------------
(* rate_limit.py: the limiter is checked before any provider call, so that *)
(* what reaches the provider, jobs nobody waits for included, is at most   *)
(* two attempts for every call the windows allow; only calls let through   *)
(* on an error of Redis come on top.                                       *)
SpendBounded ==
  /\ reached <= 2 * (PerMinute * (1 + clock \div Minute) + unmetered)
  /\ reached <= 2 * (PerDay + unmetered)

(* An open breaker stops a caller after the call it is in: no caller       *)
(* submits more than that call's two attempts until the breaker is closed  *)
(* or its cooldown has passed, whoever opened it meanwhile; an error of    *)
(* Redis can let one more call through.                                    *)
LateAttemptsBounded == \A c \in Callers : late[c] <= 2 + 2 * mishaps

(* Failures are forgotten: without an error between the two commands, the  *)
(* counter always has a life, so that failures of long ago never add up to *)
(* the threshold, whatever interleaving of successes and failures.         *)
FailuresExpire ==
  failures > 0 /\ failuresUntil = Never =>
    mishaps > 0 \/ \E c \in Callers : call[c].pc = "counted"

(* A call ends, whatever the provider does: circuit_breaker.py, "a hung    *)
(* provider no longer stalls a decision cycle indefinitely", even when all *)
(* threads of the pool are taken by jobs that were given up.               *)
CallsEnd == \A c \in Callers : call[c].pc # "idle" ~> call[c].pc = "idle"
=============================================================================
