---------------------------- MODULE LoginThrottle ----------------------------
(***************************************************************************)
(* The throttles of POST /api/auth/login: the attempts of one address per  *)
(* clock hour, and for one student a sliding log of refused passwords with *)
(* a fixed lock.  Every Redis command is an action of its own, the school  *)
(* is asked between the check and the record, and a handler may die at any *)
(* step.                                                                   *)
(*                                                                         *)
(* Time is in ticks of the lock's window.  A log entry is told apart by    *)
(* the ticks it has left; it stays in the set, with none left, until a     *)
(* later failure prunes it.                                                *)
(***************************************************************************)
EXTENDS Naturals, FiniteSets

CONSTANTS
  Attempts,     \* handlers of logins of the student, from one address
  FailLimit,    \* LOGIN_FAIL_LIMIT
  Window,       \* LOGIN_LOCK_MINUTES, in ticks
  HourlyLimit,  \* LOGIN_IP_HOURLY_LIMIT
  MaxDeaths     \* bound: handlers that die

ASSUME ThrottleAssumption ==
  /\ IsFiniteSet(Attempts)
  /\ FailLimit \in Nat \ {0} /\ Window \in Nat \ {0} /\ HourlyLimit \in Nat /\ MaxDeaths \in Nat

VARIABLES
  log,       \* loginfail: entries by the ticks they have left
  keyTtl,    \* ticks until the key of the log expires; NoExpiry without EXPIRE
  lock,      \* loginlock: ticks until it expires, 0 when absent
  hits,      \* loginip of this hour, saturated beyond the limit
  h,         \* the handlers
  admitted,  \* ghost: attempts this hour that the address limit let through
  refused,   \* ghost: refused passwords, by the ticks until they are forgiven
  deaths     \* ghost: handlers that died while recording a refusal

throttleVars == <<log, keyTtl, lock, hits, h, admitted, refused, deaths>>

NoExpiry == Window + 1

Capped(a, b) == IF a < b THEN a ELSE b
Less(n) == IF n = 0 THEN 0 ELSE n - 1

NoEntries == [k \in 0..Window |-> 0]

\* How many entries have at least k ticks left.
AtLeast(l, k) ==
  LET sum[j \in 0..NoExpiry] == IF j = NoExpiry THEN 0 ELSE l[j] + sum[j + 1] IN sum[k]

Entries(l) == AtLeast(l, 0)
Unexpired(l) == AtLeast(l, 1)

\* One tick later.
Older(l) ==
  [k \in 0..Window |-> (IF k = Window THEN 0 ELSE l[k + 1]) + (IF k = 0 THEN l[0] ELSE 0)]

ThrottleInit ==
  /\ log = NoEntries /\ keyTtl = 0 /\ lock = 0 /\ hits = 0
  /\ h = [a \in Attempts |-> "idle"]
  /\ admitted = 0 /\ refused = NoEntries /\ deaths = 0

Move(a, pc) == h' = [h EXCEPT ![a] = pc]

EndLogin(a) == Move(a, "idle")

-----------------------------------------------------------------------------
(* Before the school is asked.                                              *)

\* INCR of the hour's counter decides; every attempt counts.
Hit(a) ==
  /\ h[a] = "idle"
  /\ hits' = Capped(hits + 1, HourlyLimit + 1)
  /\ IF hits' <= HourlyLimit
       THEN Move(a, "check") /\ admitted' = admitted + 1
       ELSE EndLogin(a) /\ UNCHANGED admitted
  /\ UNCHANGED <<log, keyTtl, lock, refused, deaths>>

\* Wrong variant of IsLocked: the lock is not asked for.
IsLockedNever(a) ==
  /\ h[a] = "check"
  /\ EndLogin(a) \/ Move(a, "school")
  /\ UNCHANGED <<log, keyTtl, lock, hits, admitted, refused, deaths>>

\* Breaker open: 503.  Locked: 429, and nothing is recorded.
IsLocked(a) ==
  /\ h[a] = "check"
  /\ \/ EndLogin(a)
     \/ lock = 0 /\ Move(a, "school")
  /\ UNCHANGED <<log, keyTtl, lock, hits, admitted, refused, deaths>>

\* Success and an unknown answer touch neither log nor lock.
LoginSso2(a) ==
  /\ h[a] = "school"
  /\ \/ EndLogin(a) /\ UNCHANGED refused
     \/ /\ Move(a, "prune")
        /\ refused' = [refused EXCEPT ![Window] = @ + 1]
  /\ UNCHANGED <<log, keyTtl, lock, hits, admitted, deaths>>

-----------------------------------------------------------------------------
(* record_credential_fail.                                                  *)

\* The time is read, from which the new entry lives a window, and what has
\* expired by then is removed; a set without members is no key.
Prune(a) ==
  /\ h[a] = "prune"
  /\ log' = [log EXCEPT ![0] = 0]
  /\ keyTtl' = IF Entries(log') = 0 THEN 0 ELSE keyTtl
  /\ Move(a, "add")
  /\ UNCHANGED <<lock, hits, admitted, refused, deaths>>

AddFailure(a) ==
  /\ h[a] = "add"
  /\ log' = [log EXCEPT ![Window] = @ + 1]
  /\ keyTtl' = IF Entries(log) = 0 THEN NoExpiry ELSE keyTtl
  /\ Move(a, "expire")
  /\ UNCHANGED <<lock, hits, admitted, refused, deaths>>

ExpireKey(a) ==
  /\ h[a] = "expire"
  /\ keyTtl' = IF Entries(log) = 0 THEN 0 ELSE Window
  /\ Move(a, "count")
  /\ UNCHANGED <<log, lock, hits, admitted, refused, deaths>>

\* ZCARD counts what is in the set, expired or not.
CountFailures(a) ==
  /\ h[a] = "count"
  /\ IF Entries(log) >= FailLimit THEN Move(a, "lock") ELSE EndLogin(a)
  /\ UNCHANGED <<log, keyTtl, lock, hits, admitted, refused, deaths>>

\* SET NX EX: the first one wins and nothing extends it.
SetLock(a) ==
  /\ h[a] = "lock"
  /\ lock' = IF lock = 0 THEN Window ELSE lock
  /\ EndLogin(a)
  /\ UNCHANGED <<log, keyTtl, hits, admitted, refused, deaths>>

Recording == {"prune", "add", "expire", "count", "lock"}

\* The process ends, or Redis fails the handler.
Dies(a) ==
  /\ h[a] # "idle"
  /\ EndLogin(a)
  /\ h[a] \in Recording => deaths < MaxDeaths
  /\ deaths' = IF h[a] \in Recording THEN deaths + 1 ELSE deaths
  /\ UNCHANGED <<log, keyTtl, lock, hits, admitted, refused>>

-----------------------------------------------------------------------------
\* Bound: the commands of one recording are sent within one tick, which is
\* minutes long; the school may take any number of them.
ThrottleTick ==
  /\ \A a \in Attempts : h[a] \notin Recording
  /\ log' = IF keyTtl = 1 THEN NoEntries ELSE Older(log)
  /\ keyTtl' = IF keyTtl = NoExpiry THEN keyTtl ELSE Less(keyTtl)
  /\ lock' = IF lock = NoExpiry THEN lock ELSE Less(lock)
  /\ refused' = [Older(refused) EXCEPT ![0] = 0]
  /\ UNCHANGED <<h, hits, admitted, deaths>>

\* The bucket of the next hour is another key.
NextHour == hits' = 0 /\ admitted' = 0 /\ UNCHANGED <<log, keyTtl, lock, h, refused, deaths>>

RecordCredentialFail(a) ==
  Prune(a) \/ AddFailure(a) \/ ExpireKey(a) \/ CountFailures(a) \/ SetLock(a)

PostLogin(a) == Hit(a) \/ IsLocked(a) \/ LoginSso2(a) \/ RecordCredentialFail(a)

ThrottleNext ==
  \/ \E a \in Attempts : PostLogin(a) \/ Dies(a)
  \/ ThrottleTick \/ NextHour

ThrottleSpec == ThrottleInit /\ [][ThrottleNext]_throttleVars

-----------------------------------------------------------------------------
(* Properties.                                                              *)

LoginPcs == {"idle", "check", "school"} \cup Recording

\* Values of their kinds; the log has a lifetime just while it has members.
ThrottleTypeOK ==
  /\ log \in [0..Window -> Nat]
  /\ keyTtl \in 0..NoExpiry
  /\ keyTtl = 0 <=> Entries(log) = 0
  /\ lock \in 0..NoExpiry
  /\ hits \in 0..(HourlyLimit + 1)
  /\ h \in [Attempts -> LoginPcs]
  /\ admitted \in Nat /\ refused \in [0..Window -> Nat] /\ deaths \in 0..MaxDeaths

\* However attempts overlap, the address limit lets through no more than its
\* number in a clock hour.
HourlyBudget == admitted <= HourlyLimit

\* The lock is fixed: further failures, recorded by handlers that passed the
\* check before it was set, neither extend nor shorten it.
LockIsFixed == [][lock > 0 => lock' \in {lock, lock - 1}]_throttleVars

\* When nobody is recording and nobody died doing so, a log of FailLimit
\* unexpired failures means a lock: a lock that runs out never leaves a full log
\* behind, although handlers that were past the check went on filling it.
FullLogLocks ==
  /\ deaths = 0
  /\ \A a \in Attempts : h[a] \notin Recording
  /\ Unexpired(log) >= FailLimit
  => lock > 0

\* Passwords of one student that the school refuses within a window: the limit is
\* overshot by no more than the handlers that can be past the check when the lock
\* is set, and by one for every handler that died before it had recorded.
BudgetHolds ==
  Unexpired(refused) <= FailLimit - 1 + Cardinality(Attempts) + deaths

\* All three: both budgets are kept however logins overlap, and what handlers that
\* were past the check leave in the log is never full without a lock.  Only so few
\* logins as the limit has failures can be under way at once for that: more of them
\* that passed the check before the lock refill the log while it is locked, and
\* when it runs out as many may pass again.
LockoutHolds ==
  HourlyBudget /\ (Cardinality(Attempts) <= FailLimit => FullLogLocks /\ BudgetHolds)

=============================================================================
