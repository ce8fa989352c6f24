---------------------------- MODULE LoginThrottle ----------------------------
(***************************************************************************)
(* The login throttle (security_http.py) as login (routers/auth.py) uses   *)
(* it: failed logins are counted in Redis, INCR first and, for the first   *)
(* one, EXPIRE after it; at the limit no password is looked at any more.   *)
(*                                                                         *)
(* Abstractions: one counter per account (the one per client address works *)
(* alike, with a higher limit, and no success clears it); a password is    *)
(* right or wrong.                                                         *)
(***************************************************************************)
EXTENDS Integers, FiniteSets

CONSTANTS Keys,         \* accounts that somebody logs in to
          Logins,       \* login requests the threadpool may serve at once
          LoginLimit,   \* login_max_failures
          LoginWindow,  \* login_window_seconds, in ticks
          forever,      \* no time to live
          MaxLapses     \* bound: errors of Redis

ASSUME ThrottleAssumption ==
  /\ LoginLimit \in Nat \ {0} /\ LoginWindow \in Nat \ {0} /\ forever \notin Nat
  /\ IsFiniteSet(Logins) /\ MaxLapses \in Nat

VARIABLES failures,     \* the counter of a key, 0 if there is no key
          life,         \* its time to live
          login,        \* what each login request does
          timeless,     \* history: keys whose EXPIRE was lost
          lapses

throttleVars == <<failures, life, login, timeless, lapses>>

ThrottleInit ==
  /\ failures = [k \in Keys |-> 0] /\ life = [k \in Keys |-> forever]
  /\ login \in [Logins -> [pc : {"idle"}, key : Keys]]
  /\ timeless = {} /\ lapses = 0

Locked(k) == failures[k] >= LoginLimit

(* retry_after; it lets everybody through when Redis fails.                *)
TryLogin(l, k) ==
  /\ login[l].pc = "idle"
  /\ \/ ~Locked(k) /\ UNCHANGED lapses
     \/ Locked(k) /\ lapses < MaxLapses /\ lapses' = lapses + 1
  /\ login' = [login EXCEPT ![l] = [pc |-> "tried", key |-> k]]
  /\ UNCHANGED <<failures, life, timeless>>

(* The password is right: record_success, whose errors are swallowed.      *)
LoginSucceeds(l) ==
  LET k == login[l].key IN
    /\ login[l].pc = "tried"
    /\ login' = [login EXCEPT ![l].pc = "idle"]
    /\ \/ /\ failures' = [failures EXCEPT ![k] = 0] /\ life' = [life EXCEPT ![k] = forever]
          /\ timeless' = timeless \ {k} /\ UNCHANGED lapses
       \/ /\ lapses < MaxLapses /\ lapses' = lapses + 1
          /\ UNCHANGED <<failures, life, timeless>>

(* The password is wrong, or the account is deactivated: record_failure,   *)
(* INCR.                                                                   *)
CountFailure(l) ==
  LET k == login[l].key IN
    /\ login[l].pc = "tried"
    /\ failures' = [failures EXCEPT ![k] = @ + 1]
    /\ login' = [login EXCEPT ![l].pc = IF failures[k] = 0 THEN "first" ELSE "idle"]
    /\ UNCHANGED <<life, timeless, lapses>>

(* Redis fails at INCR: the failure is not recorded.                       *)
CountFails(l) ==
  /\ login[l].pc = "tried" /\ lapses < MaxLapses
  /\ login' = [login EXCEPT ![l].pc = "idle"] /\ lapses' = lapses + 1
  /\ UNCHANGED <<failures, life, timeless>>

(* Mutant: EXPIRE when the limit is reached, which the first failure never *)
(* does.                                                                   *)
ExpireAtLimit(l) ==
  LET k == login[l].key IN
    /\ login[l].pc = "first"
    /\ life' = IF Locked(k) THEN [life EXCEPT ![k] = LoginWindow] ELSE life
    /\ login' = [login EXCEPT ![l].pc = "idle"]
    /\ UNCHANGED <<failures, timeless, lapses>>

(* record_failure, EXPIRE: nothing if a success has deleted the key.       *)
Expire(l) ==
  LET k == login[l].key IN
    /\ login[l].pc = "first"
    /\ life' = IF failures[k] > 0 THEN [life EXCEPT ![k] = LoginWindow] ELSE life
    /\ timeless' = timeless \ {k}
    /\ login' = [login EXCEPT ![l].pc = "idle"]
    /\ UNCHANGED <<failures, lapses>>

(* Redis fails before EXPIRE, or the api dies: the key stays for good.     *)
ExpireLost(l) ==
  /\ login[l].pc = "first" /\ lapses < MaxLapses
  /\ timeless' = timeless \union {login[l].key} /\ lapses' = lapses + 1
  /\ login' = [login EXCEPT ![l].pc = "idle"]
  /\ UNCHANGED <<failures, life>>

TickThrottle ==
  /\ \E k \in Keys : life[k] # forever
  /\ life' = [k \in Keys |-> IF life[k] \in {forever, 1} THEN forever ELSE life[k] - 1]
  /\ failures' = [k \in Keys |-> IF life[k] = 1 THEN 0 ELSE failures[k]]
  /\ UNCHANGED <<login, timeless, lapses>>

LogIn(l) ==
  \/ \E k \in Keys : TryLogin(l, k)
  \/ LoginSucceeds(l) \/ CountFailure(l) \/ CountFails(l) \/ Expire(l) \/ ExpireLost(l)

ThrottleNext == TickThrottle \/ \E l \in Logins : LogIn(l)

(* Time passes, and a request that has counted its failure goes on.        *)
ExpireNext == \E l \in Logins : Expire(l)
ThrottleFair == WF_throttleVars(TickThrottle) /\ WF_throttleVars(ExpireNext)
ThrottleSpec == ThrottleInit /\ [][ThrottleNext]_throttleVars /\ ThrottleFair

-----------------------------------------------------------------------------
(* However many requests overlap, no more wrong passwords are counted than *)
(* the limit and one for each of the requests that were let through        *)
(* together, or by a failing Redis.                                        *)
GuessesBounded ==
  \A k \in Keys : failures[k] < LoginLimit + Cardinality(Logins) + MaxLapses

(* security_http.py: "further attempts get 429 until the window passes".   *)
(* A key at its limit can be tried again in the end, unless the EXPIRE of  *)
(* its first failure was lost; and meanwhile guesses are bounded.          *)
LockoutEnds ==
  /\ []GuessesBounded
  /\ \A k \in Keys : [](Locked(k) => <>(~Locked(k) \/ k \in timeless))
=============================================================================
