--------------------------- MODULE Components_proofs ---------------------------
(***************************************************************************)
(* Theorems about the components around the write path, each for every     *)
(* value of its constants, and about their composition in Components;      *)
(* module MCComponents checks it on small instances.                       *)
(***************************************************************************)
EXTENDS Components, JobViews_proofs

-----------------------------------------------------------------------------
(* The circuit breaker.                                                     *)

\* The two properties need each other: TypeOK gives the ranges of the
\* counters, and nothing else strengthens StreakIsConsecutive.
BreakerInv == TypeOK /\ StreakIsConsecutive

\* The conjuncts of TypeOK, the handlers apart and the flags apart.
Numbers ==
  /\ streak \in 0..FailureThreshold
  /\ streakTtl \in 0..Forever
  /\ streak = 0 <=> streakTtl = 0
  /\ age \in 0..RecoveryAfter
  /\ probe \in 0..ProbeGate \cup {Forever}
  /\ unknowns \in 0..FailureThreshold
  /\ streak <= unknowns

Flags == open \in BOOLEAN /\ calm \in BOOLEAN

Handlers == [Callers -> [pc : Pcs, n : 0..FailureThreshold]]

LEMMA InvParts == BreakerInv <=> Numbers /\ Flags /\ caller \in Handlers
  BY DEF BreakerInv, TypeOK, StreakIsConsecutive, Numbers, Flags, Handlers

\* Time keeps its bounds.
LEMMA Bounds ==
  /\ FailureThreshold \in Nat /\ FailureThreshold > 0
  /\ RecoveryAfter \in Nat /\ RecoveryAfter > 0
  /\ ProbeGate \in Nat /\ ProbeGate > 0
  /\ Forever \in Nat /\ 2 * RecoveryAfter \in 1..Forever /\ Forever > 0
  BY BreakerAssumption DEF Forever

LEMMA IdleTyped == Idle \in [pc : Pcs, n : 0..FailureThreshold]
  BY Bounds DEF Idle, Pcs

\* Wherever a handler goes next, it stays a handler.
LEMMA MovesTyped ==
  ASSUME BreakerInv, NEW c \in Callers
  PROVE  /\ \A pc \in Pcs : Goto(c, pc) => caller' \in Handlers
         /\ Leave(c) => caller' \in Handlers
  BY IdleTyped DEF BreakerInv, TypeOK, Goto, Leave, Handlers

LEMMA BreakerInit == Init => BreakerInv
  <1> SUFFICES ASSUME Init PROVE BreakerInv
    OBVIOUS
  <1>1. caller \in Handlers
    BY IdleTyped DEF Init, Handlers
  <1>2. Numbers
    BY Bounds DEF Init, Numbers
  <1>3. Flags
    BY DEF Init, Flags
  <1> QED
    BY <1>1, <1>2, <1>3, InvParts

\* What a handler does before it records anything.
LEMMA AskingKeepsInv ==
  ASSUME BreakerInv, NEW c \in Callers,
         Admit(c) \/ TryProbe(c) \/ FanOut(c) \/ SchoolAnswers(c) \/ CallerDies(c)
  PROVE  BreakerInv'
  <1>1. caller' \in Handlers
    <2>1. CASE Admit(c)
      BY <2>1 DEF Admit, BreakerInv, TypeOK, Handlers, Pcs
    <2>2. CASE TryProbe(c)
      <3>1. CASE probe = 0
        BY <2>2, <3>1 DEF TryProbe, BreakerInv, TypeOK, Handlers, Pcs
      <3>2. CASE probe # 0
        BY <2>2, <3>2, MovesTyped DEF TryProbe
      <3> QED
        BY <3>1, <3>2
    <2>3. CASE FanOut(c)
      BY <2>3, MovesTyped DEF FanOut, Pcs
    <2>4. CASE SchoolAnswers(c)
      BY <2>4, MovesTyped DEF SchoolAnswers, Pcs
    <2>5. CASE CallerDies(c)
      BY <2>5, MovesTyped DEF CallerDies
    <2> QED
      BY <2>1, <2>2, <2>3, <2>4, <2>5
  <1>2. /\ UNCHANGED <<streak, streakTtl, open, age, calm, unknowns>>
        /\ probe' \in {probe, ProbeGate}
    BY DEF Admit, TryProbe, FanOut, SchoolAnswers, CallerDies, keys
  <1>3. Numbers'
    BY <1>2, InvParts, Bounds DEF Numbers
  <1>4. Flags'
    BY <1>2, InvParts DEF Flags
  <1> QED
    BY <1>1, <1>3, <1>4
    DEF BreakerInv, TypeOK, StreakIsConsecutive, Numbers, Flags, Handlers

\* What it does with the outcome.
LEMMA RecordingKeepsInv ==
  ASSUME BreakerInv, NEW c \in Callers, RecordClassified(c) \/ RecordUnknown(c)
  PROVE  BreakerInv'
  <1>1. caller' \in Handlers
    <2>1. CASE RecordClassified(c)
      BY <2>1, MovesTyped DEF RecordClassified
    <2>2. CASE IncrStreak(c)
      <3>1. streak' \in 0..FailureThreshold
        BY <2>2, InvParts, Bounds DEF IncrStreak, Sooner, Numbers
      <3> QED
        BY <2>2, <3>1, InvParts DEF IncrStreak, Handlers, Pcs
    <2>3. CASE ExpireStreak(c)
      BY <2>3, MovesTyped DEF ExpireStreak, Pcs
    <2>4. CASE StampOpen(c)
      BY <2>4, MovesTyped DEF StampOpen, Pcs
    <2>5. CASE DeleteProbe(c)
      BY <2>5, MovesTyped DEF DeleteProbe
    <2> QED
      BY <2>1, <2>2, <2>3, <2>4, <2>5 DEF RecordUnknown
  <1>2. Flags'
    BY InvParts
    DEF Flags, RecordClassified, RecordUnknown, IncrStreak, ExpireStreak, StampOpen, DeleteProbe
  <1>3. Numbers'
    <2> USE InvParts, Bounds DEF Numbers
    <2>1. CASE RecordClassified(c)
      BY <2>1 DEF RecordClassified
    <2>2. CASE IncrStreak(c)
      \* Both counters grow by one, up to the same bound.
      BY <2>2 DEF IncrStreak, Sooner
    <2>3. CASE ExpireStreak(c)
      BY <2>3 DEF ExpireStreak
    <2>4. CASE StampOpen(c)
      BY <2>4 DEF StampOpen
    <2>5. CASE DeleteProbe(c)
      BY <2>5 DEF DeleteProbe
    <2> QED
      BY <2>1, <2>2, <2>3, <2>4, <2>5 DEF RecordUnknown
  <1> QED
    BY <1>1, <1>2, <1>3
    DEF BreakerInv, TypeOK, StreakIsConsecutive, Numbers, Flags, Handlers

LEMMA BreakerStep == BreakerInv /\ [Next]_vars => BreakerInv'
  <1> SUFFICES ASSUME BreakerInv, [Next]_vars PROVE BreakerInv'
    OBVIOUS
  <1>1. CASE \E c \in Callers : Handle(c) \/ FanOut(c) \/ CallerDies(c)
    BY <1>1, AskingKeepsInv, RecordingKeepsInv DEF Handle
  <1>2. CASE Tick
    \* An expiry only lowers the streak.
    <2>1. Numbers'
      BY <1>2, InvParts, Bounds DEF Tick, Numbers, Sooner
    <2>2. Flags' /\ caller' \in Handlers
      BY <1>2, InvParts DEF Tick, Flags, Handlers
    <2> QED
      BY <2>1, <2>2
      DEF BreakerInv, TypeOK, StreakIsConsecutive, Numbers, Flags, Handlers
  <1>3. CASE SchoolCalms
    BY <1>3 DEF SchoolCalms, keys, BreakerInv, TypeOK, StreakIsConsecutive
  <1>4. CASE UNCHANGED vars
    BY <1>4 DEF vars, keys, BreakerInv, TypeOK, StreakIsConsecutive
  <1> QED
    BY <1>1, <1>2, <1>3, <1>4 DEF Next

\* A streak key has a lifetime exactly while it exists, and every key its kind.
THEOREM BreakerTyped == Spec => []TypeOK
  <1>1. BreakerInv => TypeOK
    BY DEF BreakerInv
  <1> QED
    BY <1>1, BreakerInit, BreakerStep, PTL DEF Spec

\* However handlers interleave INCR, EXPIRE and the reset's DEL, a coherent
\* answer forgets every unknown before it.
THEOREM StreakForgets == Spec => []StreakIsConsecutive
  <1>1. BreakerInv => StreakIsConsecutive
    BY DEF BreakerInv
  <1> QED
    BY <1>1, BreakerInit, BreakerStep, PTL DEF Spec

-----------------------------------------------------------------------------
(* The login throttle.                                                      *)

\* What is admitted was counted first, whatever the handlers do in between.
Counted ==
  /\ hits \in Nat /\ admitted \in Nat
  /\ admitted <= hits /\ admitted <= HourlyLimit

\* The lifetime of the lock is a number of ticks.
LockOK == lock \in Nat

\* Every step keeps the count of the hour ahead of what it admitted.
LEMMA CountedKept ==
  ASSUME Counted, [ThrottleNext]_throttleVars
  PROVE  Counted'
<1> USE ThrottleAssumption DEF Counted, Capped
<1>1. CASE \E a \in Attempts : Hit(a)
  BY <1>1 DEF Hit
<1>2. CASE NextHour
  BY <1>2 DEF NextHour
<1>3. CASE ThrottleTick
  BY <1>3 DEF ThrottleTick
<1>4. CASE \E a \in Attempts : IsLocked(a) \/ LoginSso2(a) \/ Dies(a)
  BY <1>4 DEF IsLocked, LoginSso2, Dies
<1>5. CASE \E a \in Attempts : RecordCredentialFail(a)
  BY <1>5 DEF RecordCredentialFail, Prune, AddFailure, ExpireKey, CountFailures, SetLock
<1>6. CASE UNCHANGED throttleVars
  BY <1>6 DEF throttleVars
<1> QED
  BY <1>1, <1>2, <1>3, <1>4, <1>5, <1>6 DEF ThrottleNext, PostLogin

\* However attempts overlap, the address limit of post_login lets through no more
\* than its number in a clock hour: INCR both counts and decides.
THEOREM HourlyBudgetHolds == ThrottleSpec => []HourlyBudget
<1>1. ThrottleInit => Counted
  BY ThrottleAssumption DEF ThrottleInit, Counted
<1>2. Counted /\ [ThrottleNext]_throttleVars => Counted'
  BY CountedKept
<1>3. Counted => HourlyBudget
  BY DEF Counted, HourlyBudget
<1> QED
  BY <1>1, <1>2, <1>3, PTL DEF ThrottleSpec

\* Every step leaves a standing lock as it is or, when time passes, one tick
\* shorter; only a handler that finds none writes one.
LEMMA LockStep ==
  ASSUME LockOK, [ThrottleNext]_throttleVars
  PROVE  LockOK' /\ (lock > 0 => lock' \in {lock, lock - 1})
<1> USE ThrottleAssumption DEF LockOK
<1>1. CASE \E a \in Attempts : SetLock(a)
  BY <1>1 DEF SetLock
<1>2. CASE ThrottleTick
  BY <1>2 DEF ThrottleTick, Less
<1>3. CASE \E a \in Attempts : Hit(a) \/ IsLocked(a) \/ LoginSso2(a) \/ Dies(a)
  BY <1>3 DEF Hit, IsLocked, LoginSso2, Dies
<1>4. CASE \E a \in Attempts : Prune(a) \/ AddFailure(a) \/ ExpireKey(a) \/ CountFailures(a)
  BY <1>4 DEF Prune, AddFailure, ExpireKey, CountFailures
<1>5. CASE NextHour \/ UNCHANGED throttleVars
  BY <1>5 DEF NextHour, throttleVars
<1> QED
  BY <1>1, <1>2, <1>3, <1>4, <1>5 DEF ThrottleNext, PostLogin, RecordCredentialFail

\* The lock that record_credential_fail sets is fixed: nobody extends it, shortens
\* it or takes it away, whichever handlers are still under way.
THEOREM LockFixed == ThrottleSpec => LockIsFixed
<1>1. ThrottleInit => LockOK
  BY DEF ThrottleInit, LockOK
<1>2. LockOK /\ [ThrottleNext]_throttleVars => LockOK' /\ [lock > 0 => lock' \in {lock, lock - 1}]_throttleVars
  BY LockStep
<1> QED
  BY <1>1, <1>2, PTL DEF ThrottleSpec, LockIsFixed

Logs == [0..Window -> Nat]

\* The number of entries with at least k ticks left, from that with k + 1.
LEMMA Tails ==
  ASSUME NEW l \in Logs
  PROVE  /\ AtLeast(l, Window + 1) = 0
         /\ \A k \in 0..Window : AtLeast(l, k) = l[k] + AtLeast(l, k + 1)
         /\ \A k \in 0..(Window + 1) : AtLeast(l, k) \in Nat
  <1> DEFINE W == Window
             Upto(m, g) == /\ g \in [0..(W + 1) -> Nat] /\ g[W + 1] = 0
                           /\ \A j \in 0..W : j > W - m => g[j] = l[j] + g[j + 1]
             Missing == {m \in 0..(W + 1) : ~\E g : Upto(m, g)}
             Table(g) == [j \in 0..NoExpiry |-> IF j = NoExpiry THEN 0 ELSE l[j] + g[j + 1]]
  <1>1. W \in Nat /\ NoExpiry = W + 1
    BY ThrottleAssumption DEF NoExpiry
  <1>2. \A j \in 0..W : l[j] \in Nat /\ j + 1 \in 0..(W + 1)
    BY <1>1 DEF Logs
  <1> HIDE DEF W
  <1>3. Missing = {}
    <2> SUFFICES ASSUME Missing # {} PROVE FALSE
      OBVIOUS
    <2>1. Missing \in SUBSET Nat
      BY <1>1
    <2> HIDE DEF Upto
    <2>2. PICK n \in Missing : \A m \in Missing : n <= m
      BY <2>1, LeastNumber
    <2>3. CASE n = 0
      <3> DEFINE g == [j \in 0..(W + 1) |-> 0]
      <3>1. Upto(0, g)
        BY <1>1 DEF Upto
      <3> QED
        BY <2>2, <2>3, <3>1
    <2>4. CASE n # 0
      <3>1. n \in 1..(W + 1) /\ n - 1 \in 0..(W + 1) /\ n - 1 \notin Missing
        BY <1>1, <2>2, <2>4
      <3>2. PICK g : Upto(n - 1, g)
        BY <3>1
      <3> DEFINE i == (W + 1) - n
                 h1 == [g EXCEPT ![i] = l[i] + g[i + 1]]
      <3>3. /\ i \in 0..W /\ i \in 0..(W + 1) /\ i + 1 \in 0..(W + 1) /\ i # W + 1
            /\ W + 1 \in 0..(W + 1) /\ \A j \in 0..W : j > W - n => j = i \/ j > W - (n - 1)
            /\ \A j \in 0..W : j > W - n => j + 1 # i
            /\ \A j \in 0..W : j \in 0..(W + 1) /\ j + 1 \in 0..(W + 1)
        BY <1>1, <3>1
      <3> HIDE DEF i
      <3>4. /\ g \in [0..(W + 1) -> Nat] /\ g[W + 1] = 0
            /\ \A j \in 0..W : j > W - (n - 1) => g[j] = l[j] + g[j + 1]
        BY <3>2 DEF Upto
      <3>5. l[i] + g[i + 1] \in Nat
        BY <1>2, <3>3, <3>4
      <3>6. h1 \in [0..(W + 1) -> Nat] /\ h1[W + 1] = 0
        BY <3>3, <3>4, <3>5
      <3>7. ASSUME NEW j \in 0..W, j > W - n
            PROVE  h1[j] = l[j] + h1[j + 1]
        <4>1. /\ j + 1 # i /\ j + 1 \in 0..(W + 1) /\ j \in 0..(W + 1)
              /\ j = i \/ j > W - (n - 1)
          BY <3>3, <3>7
        <4>2. h1[j + 1] = g[j + 1]
          BY <3>4, <4>1
        <4>3. CASE j = i
          BY <3>3, <3>4, <4>2, <4>3
        <4>4. CASE j # i
          <5>1. h1[j] = g[j]
            BY <3>4, <4>1, <4>4
          <5> QED
            BY <3>4, <4>1, <4>2, <4>4, <5>1
        <4> QED
          BY <4>3, <4>4
      <3> HIDE DEF h1
      <3>8. Upto(n, h1)
        BY <3>6, <3>7 DEF Upto
      <3> QED
        BY <2>2, <3>8
    <2> QED
      BY <2>3, <2>4
  <1>4. W + 1 \in 0..(W + 1)
    BY <1>1
  <1>5. PICK g : Upto(W + 1, g)
    BY <1>3, <1>4
  <1>6. \A j \in 0..W : g[j] = l[j] + g[j + 1]
    BY <1>1, <1>5
  <1>7. g = Table(g)
    BY <1>1, <1>5, <1>6
  <1> DEFINE s == CHOOSE x : x = Table(x)
  <1>8. s = Table(s)
    BY <1>7
  <1>9. \A k : AtLeast(l, k) = s[k]
    BY DEF AtLeast
  <1> HIDE DEF s
  <1>10. s[W + 1] = 0 /\ \A k \in 0..W : s[k] = l[k] + s[k + 1]
    BY <1>1, <1>8
  <1>11. \A k \in 0..(W + 1) : s[k] \in Nat
    <2> SUFFICES ASSUME NEW k \in 0..(W + 1), s[k] \notin Nat PROVE FALSE
      OBVIOUS
    <2> DEFINE Bad == {m \in 0..(W + 1) : s[(W + 1) - m] \notin Nat}
    <2>1. (W + 1) - k \in Bad
      BY <1>1
    <2>2. Bad \in SUBSET Nat
      BY <1>1
    <2>3. PICK m \in Bad : \A o \in Bad : m <= o
      BY <2>1, <2>2, LeastNumber
    <2>4. m # 0
      BY <1>1, <1>10, <2>3
    <2>5. m - 1 \in 0..(W + 1) /\ m - 1 \notin Bad
      BY <1>1, <2>3, <2>4
    <2>6. (W + 1) - (m - 1) = ((W + 1) - m) + 1 /\ (W + 1) - m \in 0..W
      BY <1>1, <2>3, <2>4
    <2>7. s[((W + 1) - m) + 1] \in Nat
      BY <2>5, <2>6
    <2> QED
      BY <1>2, <1>10, <2>3, <2>6, <2>7
  <1> QED
    BY <1>1, <1>9, <1>10, <1>11 DEF W

\* Numbers that add up like the entries are their numbers.
LEMMA TailsAre ==
  ASSUME NEW l \in Logs, NEW t, NEW lo \in 0..(Window + 1),
         t[Window + 1] = 0, \A k \in lo..Window : t[k] = l[k] + t[k + 1]
  PROVE  \A k \in lo..(Window + 1) : AtLeast(l, k) = t[k]
  <1> DEFINE W == Window
             Bad == {m \in 0..((W + 1) - lo) : AtLeast(l, (W + 1) - m) # t[(W + 1) - m]}
  <1>1. W \in Nat
    BY ThrottleAssumption
  <1>2. /\ AtLeast(l, W + 1) = 0 /\ t[W + 1] = 0
        /\ \A k \in lo..W : AtLeast(l, k) = l[k] + AtLeast(l, k + 1) /\ t[k] = l[k] + t[k + 1]
    BY <1>1, Tails
  <1> HIDE DEF W
  <1>3. Bad = {}
    <2> SUFFICES ASSUME Bad # {} PROVE FALSE
      OBVIOUS
    <2>1. Bad \in SUBSET Nat
      BY <1>1
    <2>2. PICK m \in Bad : \A o \in Bad : m <= o
      BY <2>1, LeastNumber
    <2>3. m # 0
      BY <1>1, <1>2, <2>2
    <2>4. m - 1 \in 0..((W + 1) - lo) /\ m - 1 \notin Bad
      BY <1>1, <2>2, <2>3
    <2>5. (W + 1) - (m - 1) = ((W + 1) - m) + 1 /\ (W + 1) - m \in lo..W
      BY <1>1, <2>2, <2>3
    <2>6. AtLeast(l, ((W + 1) - m) + 1) = t[((W + 1) - m) + 1]
      BY <2>4, <2>5
    <2> QED
      BY <1>2, <2>2, <2>5, <2>6
  <1>4. ASSUME NEW k \in lo..(W + 1)
        PROVE  AtLeast(l, k) = t[k]
    <2>1. (W + 1) - k \in 0..((W + 1) - lo) /\ (W + 1) - ((W + 1) - k) = k
      BY <1>1
    <2> QED
      BY <1>3, <2>1
  <1> QED
    BY <1>4 DEF W

\* The numbers after a new entry, after the expired ones are removed, and a tick
\* later.
LEMMA EntryAdded ==
  ASSUME NEW l \in Logs, NEW m, m = [l EXCEPT ![Window] = @ + 1]
  PROVE  m \in Logs /\ \A k \in 0..Window : AtLeast(m, k) = AtLeast(l, k) + 1
  <1> DEFINE t == [k \in 0..(Window + 1) |-> IF k = Window + 1 THEN 0 ELSE AtLeast(l, k) + 1]
  <1>1. Window \in Nat \ {0}
    BY ThrottleAssumption
  <1>2. /\ AtLeast(l, Window + 1) = 0
        /\ \A k \in 0..Window : AtLeast(l, k) = l[k] + AtLeast(l, k + 1)
        /\ \A k \in 0..(Window + 1) : AtLeast(l, k) \in Nat
    BY Tails
  <1>3. m \in Logs
    BY <1>1 DEF Logs
  <1>4. \A k \in 0..Window : m[k] \in Nat /\ l[k] \in Nat /\ m[k] = IF k = Window THEN l[k] + 1 ELSE l[k]
    BY <1>1, <1>3 DEF Logs
  <1>5. \A k \in 0..Window : t[k] = m[k] + t[k + 1]
    <2> SUFFICES ASSUME NEW k \in 0..Window PROVE t[k] = m[k] + t[k + 1]
      OBVIOUS
    <2>1. k \in 0..(Window + 1) /\ k + 1 \in 0..(Window + 1) /\ k # Window + 1
      BY <1>1
    <2>2. CASE k = Window
      BY <1>1, <1>2, <1>4, <2>1, <2>2
    <2>3. CASE k # Window
      <3>1. k + 1 # Window + 1
        BY <1>1, <2>3
      <3> QED
        BY <1>1, <1>2, <1>4, <2>1, <2>3, <3>1
    <2> QED
      BY <2>2, <2>3
  <1>6. t[Window + 1] = 0 /\ 0 \in 0..(Window + 1)
    BY <1>1
  <1> HIDE DEF t
  <1>7. \A k \in 0..(Window + 1) : AtLeast(m, k) = t[k]
    BY <1>3, <1>5, <1>6, TailsAre
  <1>8. \A k \in 0..Window : k \in 0..(Window + 1) /\ t[k] = AtLeast(l, k) + 1
    BY <1>1 DEF t
  <1> QED
    BY <1>3, <1>7, <1>8

LEMMA ExpiredPruned ==
  ASSUME NEW l \in Logs, NEW m, m = [l EXCEPT ![0] = 0]
  PROVE  m \in Logs /\ \A k \in 1..(Window + 1) : AtLeast(m, k) = AtLeast(l, k)
  <1> DEFINE t == [k \in 0..(Window + 1) |-> AtLeast(l, k)]
  <1>1. Window \in Nat \ {0}
    BY ThrottleAssumption
  <1>2. /\ AtLeast(l, Window + 1) = 0
        /\ \A k \in 0..Window : AtLeast(l, k) = l[k] + AtLeast(l, k + 1)
    BY Tails
  <1>3. m \in Logs /\ \A k \in 1..Window : m[k] = l[k]
    BY <1>1 DEF Logs
  <1>4. \A k \in 1..Window : t[k] = m[k] + t[k + 1]
    BY <1>1, <1>2, <1>3
  <1>5. t[Window + 1] = 0 /\ 1 \in 0..(Window + 1)
    BY <1>1, <1>2
  <1>6. \A k \in 1..(Window + 1) : t[k] = AtLeast(l, k)
    BY <1>1
  <1> HIDE DEF t
  <1>7. \A k \in 1..(Window + 1) : AtLeast(m, k) = t[k]
    <2>1. m \in Logs
      BY <1>3
    <2>2. \A u, lo : /\ lo \in 0..(Window + 1) /\ u[Window + 1] = 0
                     /\ \A k \in lo..Window : u[k] = m[k] + u[k + 1]
                     => \A k \in lo..(Window + 1) : AtLeast(m, k) = u[k]
      BY <2>1, TailsAre
    <2> QED
      BY <1>4, <1>5, <2>2
  <1> QED
    BY <1>3, <1>6, <1>7

LEMMA EntriesAge ==
  ASSUME NEW l \in Logs, NEW m, m = Older(l) \/ m = [Older(l) EXCEPT ![0] = 0]
  PROVE  m \in Logs /\ \A k \in 1..Window : AtLeast(m, k) = AtLeast(l, k + 1)
  <1> DEFINE t == [k \in 0..(Window + 1) |-> IF k = Window + 1 THEN 0 ELSE AtLeast(l, k + 1)]
  <1>1. Window \in Nat \ {0}
    BY ThrottleAssumption
  <1>2. /\ AtLeast(l, Window + 1) = 0
        /\ \A k \in 0..Window : AtLeast(l, k) = l[k] + AtLeast(l, k + 1)
    BY Tails
  <1>3. \A k \in 0..Window : l[k] \in Nat
    BY DEF Logs
  <1>4. Older(l) \in Logs /\ \A k \in 1..Window : Older(l)[k] = IF k = Window THEN 0 ELSE l[k + 1]
    <2>1. ASSUME NEW k \in 0..Window
          PROVE  (IF k = Window THEN 0 ELSE l[k + 1]) + (IF k = 0 THEN l[0] ELSE 0) \in Nat
      <3>1. k # Window => k + 1 \in 0..Window
        BY <1>1
      <3> QED
        BY <1>1, <1>3, <3>1
    <2>2. Older(l) \in Logs
      BY <2>1 DEF Older, Logs
    <2>3. ASSUME NEW k \in 1..Window
          PROVE  Older(l)[k] = IF k = Window THEN 0 ELSE l[k + 1]
      <3>1. k \in 0..Window /\ k # 0 /\ (k # Window => k + 1 \in 0..Window)
        BY <1>1
      <3>2. Older(l)[k] = (IF k = Window THEN 0 ELSE l[k + 1]) + 0
        BY <3>1 DEF Older
      <3> QED
        BY <1>3, <3>1, <3>2
    <2> QED
      BY <2>2, <2>3
  <1> HIDE DEF Logs
  <1>5. m \in Logs /\ \A k \in 1..Window : m[k] = IF k = Window THEN 0 ELSE l[k + 1]
    <2>1. CASE m = Older(l)
      BY <1>4, <2>1
    <2>2. CASE m = [Older(l) EXCEPT ![0] = 0]
      BY <1>1, <1>4, <2>2 DEF Logs
    <2> QED
      BY <2>1, <2>2
  <1>6. \A k \in 1..Window : t[k] = m[k] + t[k + 1]
    <2> SUFFICES ASSUME NEW k \in 1..Window PROVE t[k] = m[k] + t[k + 1]
      OBVIOUS
    <2>1. k \in 0..(Window + 1) /\ k + 1 \in 0..(Window + 1) /\ k # Window + 1
      BY <1>1
    <2>2. CASE k = Window
      BY <1>1, <1>2, <1>5, <2>1, <2>2
    <2>3. CASE k # Window
      <3>1. k + 1 # Window + 1 /\ k + 1 \in 0..Window
        BY <1>1, <2>3
      <3> QED
        BY <1>1, <1>2, <1>5, <2>1, <2>3, <3>1
    <2> QED
      BY <2>2, <2>3
  <1>7. t[Window + 1] = 0 /\ 1 \in 0..(Window + 1)
    BY <1>1
  <1> HIDE DEF t
  <1>8. \A k \in 1..(Window + 1) : AtLeast(m, k) = t[k]
    BY <1>5, <1>6, <1>7, TailsAre
  <1>9. \A k \in 1..Window : k \in 1..(Window + 1) /\ t[k] = AtLeast(l, k + 1)
    BY <1>1 DEF t
  <1> QED
    BY <1>5, <1>8, <1>9

LEMMA NothingLogged ==
  NoEntries \in Logs /\ \A k \in 0..(Window + 1) : AtLeast(NoEntries, k) = 0
  <1> DEFINE t == [k \in 0..(Window + 1) |-> 0]
  <1>1. Window \in Nat \ {0}
    BY ThrottleAssumption
  <1>2. NoEntries \in Logs /\ \A k \in 0..Window : NoEntries[k] = 0
    BY DEF NoEntries, Logs
  <1>3. /\ t[Window + 1] = 0 /\ \A k \in 0..Window : t[k] = NoEntries[k] + t[k + 1]
        /\ 0 \in 0..(Window + 1)
    BY <1>1, <1>2
  <1> HIDE DEF t
  <1>4. \A k \in 0..(Window + 1) : AtLeast(NoEntries, k) = t[k]
    BY <1>2, <1>3, TailsAre
  <1> QED
    BY <1>2, <1>4 DEF t

\* Fewer entries have longer to live.
LEMMA TailsShrink ==
  ASSUME NEW l \in Logs, NEW j \in 0..(Window + 1)
  PROVE  \A k \in j..(Window + 1) : AtLeast(l, k) <= AtLeast(l, j)
  <1> DEFINE W == Window
             Bad == {k \in j..(W + 1) : ~(AtLeast(l, k) <= AtLeast(l, j))}
  <1>1. W \in Nat
    BY ThrottleAssumption
  <1>2. /\ \A k \in 0..W : AtLeast(l, k) = l[k] + AtLeast(l, k + 1)
        /\ \A k \in 0..(W + 1) : AtLeast(l, k) \in Nat
    BY Tails
  <1>3. \A k \in 0..W : l[k] \in Nat
    BY DEF Logs
  <1> HIDE DEF W
  <1>4. Bad = {}
    <2> SUFFICES ASSUME Bad # {} PROVE FALSE
      OBVIOUS
    <2>1. Bad \in SUBSET Nat
      BY <1>1
    <2>2. PICK k \in Bad : \A o \in Bad : k <= o
      BY <2>1, LeastNumber
    <2>3. AtLeast(l, j) \in Nat /\ k # j
      <3>1. AtLeast(l, j) \in Nat
        BY <1>2 DEF W
      <3>2. AtLeast(l, j) <= AtLeast(l, j)
        BY <3>1
      <3> QED
        BY <2>2, <3>1, <3>2
    <2>4. k - 1 \in j..(W + 1) /\ k - 1 \in 0..W /\ (k - 1) + 1 = k /\ k \in 0..(W + 1)
      BY <1>1, <2>2, <2>3
    <2>5. AtLeast(l, k - 1) <= AtLeast(l, j)
      BY <2>2, <2>4
    <2>6. AtLeast(l, k - 1) = l[k - 1] + AtLeast(l, k)
      BY <1>2, <2>4
    <2>7. l[k - 1] \in Nat /\ AtLeast(l, k) \in Nat /\ AtLeast(l, k - 1) \in Nat
      BY <1>2, <1>3, <2>4
    <2> QED
      BY <2>2, <2>3, <2>5, <2>6, <2>7
  <1> QED
    BY <1>4 DEF W

\* How many handlers are at one of the steps of Q.
Under(f, Q) == Cardinality({a \in Attempts : f[a] \in Q})

\* Handlers at different steps are different handlers.
LEMMA Room ==
  ASSUME NEW f \in [Attempts -> LoginPcs]
  PROVE  /\ Cardinality(Attempts) \in Nat
         /\ Under(f, {"check"}) + Under(f, {"school"}) + Under(f, {"prune", "add"})
              + Under(f, {"expire", "count", "lock"}) <= Cardinality(Attempts)
         /\ \A Q : Under(f, Q) \in Nat
  <1> DEFINE Those(Q) == {b \in Attempts : f[b] \in Q}
  <1>1. IsFiniteSet(Attempts) /\ \A Q : Those(Q) \in SUBSET Attempts
    BY ThrottleAssumption
  <1>2. /\ \A Q, R : Those(Q \cup R) = Those(Q) \cup Those(R)
        /\ \A Q, R : Q \cap R = {} => Those(Q) \cap Those(R) = {}
    OBVIOUS
  <1>3. \A Q : Under(f, Q) = Cardinality(Those(Q))
    BY DEF Under
  <1> HIDE DEF Those
  <1>4. \A Q : IsFiniteSet(Those(Q)) /\ Cardinality(Those(Q)) <= Cardinality(Attempts)
    BY <1>1, FS_Subset
  <1>5. \A Q : Cardinality(Those(Q)) \in Nat
    BY <1>4, FS_CardinalityType
  <1>6. Cardinality(Attempts) \in Nat
    BY <1>1, FS_CardinalityType
  <1>7. ASSUME NEW Q, NEW R, Q \cap R = {}
        PROVE  Cardinality(Those(Q \cup R)) = Cardinality(Those(Q)) + Cardinality(Those(R))
    <2>1. /\ Those(Q \cup R) = Those(Q) \cup Those(R) /\ Those(Q) \cap Those(R) = {}
          /\ IsFiniteSet(Those(Q)) /\ IsFiniteSet(Those(R))
      BY <1>2, <1>4, <1>7
    <2>2. Cardinality(Those(Q) \cup Those(R))
            = Cardinality(Those(Q)) + Cardinality(Those(R)) - Cardinality(Those(Q) \cap Those(R))
      BY <2>1, FS_Union
    <2>3. Cardinality(Those(Q) \cap Those(R)) = 0
      BY <2>1, FS_EmptySet
    <2>4. Cardinality(Those(Q \cup R)) = Cardinality(Those(Q) \cup Those(R))
      BY <2>1, Zenon
    <2>5. Cardinality(Those(Q)) \in Nat /\ Cardinality(Those(R)) \in Nat
      BY <1>5
    <2> QED
      BY <2>2, <2>3, <2>4, <2>5
  <1> DEFINE C == {"check"}  S == {"school"}  U == {"prune", "add"}  L == {"expire", "count", "lock"}
  <1>8. C \cap S = {} /\ (C \cup S) \cap U = {} /\ ((C \cup S) \cup U) \cap L = {}
    OBVIOUS
  <1> HIDE DEF C, S, U, L
  <1>9. Cardinality(Those(C)) + Cardinality(Those(S)) + Cardinality(Those(U)) + Cardinality(Those(L))
          = Cardinality(Those(((C \cup S) \cup U) \cup L))
    <2>1. /\ Cardinality(Those(C \cup S)) = Cardinality(Those(C)) + Cardinality(Those(S))
          /\ Cardinality(Those((C \cup S) \cup U)) = Cardinality(Those(C \cup S)) + Cardinality(Those(U))
          /\ Cardinality(Those(((C \cup S) \cup U) \cup L))
               = Cardinality(Those((C \cup S) \cup U)) + Cardinality(Those(L))
      BY <1>7, <1>8, Zenon
    <2> QED
      BY <2>1
  <1>10. Under(f, C) + Under(f, S) + Under(f, U) + Under(f, L) <= Cardinality(Attempts)
    BY <1>3, <1>4, <1>9
  <1> QED
    BY <1>3, <1>5, <1>6, <1>10 DEF C, S, U, L

Asked(f) == Under(f, {"school"})
Unlogged(f) == Under(f, {"prune", "add"})
Expiring(f) == Under(f, {"expire"})
Logged(f) == Under(f, {"expire", "count", "lock"})

\* The entries that the key of the log would take with it when it expires.
Outliving == IF keyTtl >= Window THEN 0 ELSE AtLeast(log, keyTtl + 1)

LogTypes ==
  /\ log \in Logs /\ refused \in Logs
  /\ keyTtl \in 0..NoExpiry /\ lock \in 0..Window
  /\ h \in [Attempts -> LoginPcs] /\ deaths \in Nat

\* What is missing in the log, or would go with its key, is a refusal that a
\* handler has yet to record or died over.
NothingLost ==
  /\ Outliving <= Expiring(h) + deaths
  /\ \A k \in 1..Window :
       /\ AtLeast(refused, k) <= AtLeast(log, k) + Unlogged(h) + deaths
       /\ AtLeast(refused, k) + Outliving
            <= AtLeast(log, k) + Unlogged(h) + Expiring(h) + deaths

\* Without a lock the log is short of the limit, but for handlers that have yet to
\* count it; refusals exceed the limit by no more than the handlers there are.
UnlockedIsShort ==
  lock = 0 => /\ AtLeast(log, 1) + 1 <= FailLimit + Logged(h) + deaths
              /\ AtLeast(refused, 1) + 1 <= FailLimit + Unlogged(h) + Logged(h) + deaths
RefusedIsShort ==
  AtLeast(refused, 1) + Asked(h) + 1 <= FailLimit + Cardinality(Attempts) + deaths

\* Only handlers that were past the check when the lock was set leave entries that
\* outlive it, and the one that set it has none.
LockOutlives ==
  lock > 0 => AtLeast(log, lock + 1) + Asked(h) + Unlogged(h) + 1 <= Cardinality(Attempts)

LogInv == LogTypes /\ NothingLost /\ UnlockedIsShort /\ RefusedIsShort /\ LockOutlives

\* The numbers LogInv compares are numbers.
LEMMA LogNumbers ==
  ASSUME LogTypes
  PROVE  /\ Window \in Nat \ {0} /\ FailLimit \in Nat \ {0} /\ Cardinality(Attempts) \in Nat
         /\ \A k \in 0..(Window + 1) : AtLeast(log, k) \in Nat /\ AtLeast(refused, k) \in Nat
         /\ AtLeast(log, Window + 1) = 0 /\ AtLeast(refused, Window + 1) = 0
         /\ Outliving \in Nat
         /\ Asked(h) \in Nat /\ Unlogged(h) \in Nat /\ Expiring(h) \in Nat /\ Logged(h) \in Nat
         /\ Under(h, {"check"}) + Asked(h) + Unlogged(h) + Logged(h) <= Cardinality(Attempts)
         /\ keyTtl \in Nat /\ lock \in Nat /\ deaths \in Nat
  <1>1. Window \in Nat \ {0} /\ FailLimit \in Nat \ {0} /\ NoExpiry = Window + 1
    BY ThrottleAssumption DEF NoExpiry
  <1>2. /\ \A k \in 0..(Window + 1) : AtLeast(log, k) \in Nat /\ AtLeast(refused, k) \in Nat
        /\ AtLeast(log, Window + 1) = 0 /\ AtLeast(refused, Window + 1) = 0
    <2>1. log \in Logs /\ refused \in Logs
      BY DEF LogTypes
    <2>2. \A l \in Logs : /\ AtLeast(l, Window + 1) = 0
                          /\ \A k \in 0..(Window + 1) : AtLeast(l, k) \in Nat
      BY Tails
    <2> QED
      BY <2>1, <2>2
  <1>3. keyTtl \in Nat /\ lock \in Nat /\ deaths \in Nat
    BY <1>1 DEF LogTypes
  <1>4. Outliving \in Nat
    <2>1. CASE keyTtl >= Window
      BY <2>1 DEF Outliving
    <2>2. CASE ~(keyTtl >= Window)
      <3>1. keyTtl + 1 \in 0..(Window + 1)
        BY <1>1, <1>3, <2>2
      <3> QED
        BY <1>2, <2>2, <3>1 DEF Outliving
    <2> QED
      BY <2>1, <2>2
  <1>5. /\ Cardinality(Attempts) \in Nat /\ \A Q : Under(h, Q) \in Nat
        /\ Under(h, {"check"}) + Asked(h) + Unlogged(h) + Logged(h) <= Cardinality(Attempts)
    BY Room DEF LogTypes, Asked, Unlogged, Logged
  <1> QED
    BY <1>1, <1>2, <1>3, <1>4, <1>5 DEF Asked, Unlogged, Expiring, Logged

\* A handler that moves leaves the count of its step and joins that of the next.
LEMMA CountsMove ==
  ASSUME LogTypes, NEW a \in Attempts, NEW pc \in LoginPcs, Move(a, pc)
  PROVE  /\ h' \in [Attempts -> LoginPcs]
         /\ \A Q : /\ Under(h, Q) \in Nat /\ Under(h', Q) \in Nat
                   /\ h[a] \in Q => Under(h, Q) >= 1
                   /\ h[a] \in Q /\ pc \notin Q => Under(h', Q) = Under(h, Q) - 1
                   /\ h[a] \notin Q /\ pc \in Q => Under(h', Q) = Under(h, Q) + 1
                   /\ (h[a] \in Q <=> pc \in Q) => Under(h', Q) = Under(h, Q)
  <1>. SUFFICES ASSUME NEW Q
       PROVE  /\ Under(h, Q) \in Nat /\ Under(h', Q) \in Nat
              /\ h[a] \in Q => Under(h, Q) >= 1
              /\ h[a] \in Q /\ pc \notin Q => Under(h', Q) = Under(h, Q) - 1
              /\ h[a] \notin Q /\ pc \in Q => Under(h', Q) = Under(h, Q) + 1
              /\ (h[a] \in Q <=> pc \in Q) => Under(h', Q) = Under(h, Q)
    BY DEF LogTypes, Move
  <1> DEFINE A == {b \in Attempts : h[b] \in Q}
             B == {b \in Attempts : h'[b] \in Q}
             O == A \ {a}
  <1>1. IsFiniteSet(Attempts) /\ A \in SUBSET Attempts /\ B \in SUBSET Attempts
    BY ThrottleAssumption
  <1>2. IsFiniteSet(A) /\ IsFiniteSet(B) /\ IsFiniteSet(O)
    <2>1. O \in SUBSET Attempts
      BY <1>1
    <2> HIDE DEF A, B, O
    <2> QED
      BY <1>1, <2>1, FS_Subset
  <1>3. \A b \in Attempts : h'[b] = IF b = a THEN pc ELSE h[b]
    BY DEF LogTypes, Move
  <1>4. /\ B = IF pc \in Q THEN O \cup {a} ELSE O
        /\ A = IF h[a] \in Q THEN O \cup {a} ELSE O
        /\ a \notin O
    BY <1>3
  <1> HIDE DEF A, B, O
  <1>5. Cardinality(O \cup {a}) = Cardinality(O) + 1 /\ Cardinality(O) \in Nat
    BY <1>2, <1>4, FS_AddElement, FS_CardinalityType
  <1>6. Under(h, Q) = Cardinality(A) /\ Under(h', Q) = Cardinality(B)
    BY DEF Under, A, B
  <1> QED
    BY <1>4, <1>5, <1>6

\* Moves between steps that no count tells apart, and logins that end unrefused.
LEMMA QuietMove ==
  ASSUME LogInv, NEW a \in Attempts, NEW pc \in {"idle", "check"}, Move(a, pc),
         h[a] \in {"idle", "check", "school"},
         UNCHANGED <<log, keyTtl, lock, refused, deaths>>
  PROVE  LogInv'
  <1>1. LogTypes /\ pc \in LoginPcs
    BY DEF LogInv, LoginPcs, Recording
  <1>2. /\ h' \in [Attempts -> LoginPcs]
        /\ Asked(h') \in Nat /\ Asked(h') <= Asked(h)
        /\ Unlogged(h') = Unlogged(h) /\ Expiring(h') = Expiring(h) /\ Logged(h') = Logged(h)
    <2>1. /\ h' \in [Attempts -> LoginPcs]
          /\ \A Q : /\ Under(h, Q) \in Nat /\ Under(h', Q) \in Nat
                    /\ h[a] \in Q /\ pc \notin Q => Under(h', Q) = Under(h, Q) - 1
                    /\ (h[a] \in Q <=> pc \in Q) => Under(h', Q) = Under(h, Q)
      BY <1>1, CountsMove
    <2> QED
      BY <2>1 DEF Asked, Unlogged, Expiring, Logged
  <1>3. LogTypes' /\ NothingLost' /\ UnlockedIsShort'
    BY <1>2 DEF LogInv, LogTypes, NothingLost, UnlockedIsShort, Outliving
  <1>4. RefusedIsShort' /\ LockOutlives'
    <2>1. /\ AtLeast(refused, 1) \in Nat /\ lock \in Nat
          /\ lock > 0 => AtLeast(log, lock + 1) \in Nat
      BY <1>1, LogNumbers DEF LogTypes
    <2> QED
      BY <1>1, <1>2, <2>1, LogNumbers DEF LogInv, RefusedIsShort, LockOutlives
  <1> QED
    BY <1>3, <1>4 DEF LogInv

\* The check lets a handler pass when there is no lock: one more can be refused,
\* and those that are recording make room for it.
LEMMA PassedCheck ==
  ASSUME LogInv, NEW a \in Attempts, h[a] = "check", lock = 0, Move(a, "school"),
         UNCHANGED <<log, keyTtl, lock, refused, deaths>>
  PROVE  LogInv'
  <1>1. LogTypes /\ "school" \in LoginPcs
    BY DEF LogInv, LoginPcs
  <1>2. /\ h' \in [Attempts -> LoginPcs] /\ Under(h, {"check"}) >= 1
        /\ Under(h, {"check"}) \in Nat
        /\ Asked(h') = Asked(h) + 1
        /\ Unlogged(h') = Unlogged(h) /\ Expiring(h') = Expiring(h) /\ Logged(h') = Logged(h)
    BY <1>1, CountsMove DEF Asked, Unlogged, Expiring, Logged
  <1>3. LogTypes' /\ NothingLost' /\ UnlockedIsShort' /\ LockOutlives'
    BY <1>2 DEF LogInv, LogTypes, NothingLost, UnlockedIsShort, Outliving, LockOutlives
  <1>4. RefusedIsShort'
    <2>1. AtLeast(refused, 1) \in Nat
      BY <1>1, LogNumbers
    <2>2. AtLeast(refused, 1) + 1 <= FailLimit + Unlogged(h) + Logged(h) + deaths
      BY DEF LogInv, UnlockedIsShort
    <2> QED
      BY <1>1, <1>2, <2>1, <2>2, LogNumbers DEF RefusedIsShort
  <1> QED
    BY <1>3, <1>4 DEF LogInv

\* A refused password counts from the moment the school refuses it.
LEMMA RefusedByTheSchool ==
  ASSUME LogInv, NEW a \in Attempts, h[a] = "school", Move(a, "prune"),
         refused' = [refused EXCEPT ![Window] = @ + 1],
         UNCHANGED <<log, keyTtl, lock, deaths>>
  PROVE  LogInv'
  <1>1. LogTypes /\ "prune" \in LoginPcs
    BY DEF LogInv, LoginPcs, Recording
  <1>2. /\ h' \in [Attempts -> LoginPcs] /\ Asked(h) >= 1
        /\ Asked(h') = Asked(h) - 1
        /\ Unlogged(h') = Unlogged(h) + 1 /\ Expiring(h') = Expiring(h) /\ Logged(h') = Logged(h)
    BY <1>1, CountsMove DEF Asked, Unlogged, Expiring, Logged
  <1>3. /\ refused' \in Logs
        /\ \A k \in 0..Window : AtLeast(refused', k) = AtLeast(refused, k) + 1
    BY EntryAdded DEF LogInv, LogTypes
  <1>4. /\ 1 \in 0..Window /\ \A k \in 1..Window : k \in 0..Window /\ k \in 0..(Window + 1)
        /\ lock > 0 => lock + 1 \in 0..(Window + 1)
    BY <1>1, LogNumbers DEF LogTypes
  <1>5. LogTypes'
    BY <1>1, <1>2, <1>3 DEF LogTypes
  <1>6. NothingLost'
    <2>1. Outliving' = Outliving
      BY DEF Outliving
    <2>2. ASSUME NEW k \in 1..Window
          PROVE  /\ AtLeast(refused', k) <= AtLeast(log, k) + Unlogged(h') + deaths
                 /\ AtLeast(refused', k) + Outliving
                      <= AtLeast(log, k) + Unlogged(h') + Expiring(h) + deaths
      <3>1. /\ AtLeast(refused, k) <= AtLeast(log, k) + Unlogged(h) + deaths
            /\ AtLeast(refused, k) + Outliving
                 <= AtLeast(log, k) + Unlogged(h) + Expiring(h) + deaths
        BY DEF LogInv, NothingLost
      <3>2. AtLeast(refused, k) \in Nat /\ AtLeast(log, k) \in Nat
        BY <1>1, <1>4, LogNumbers
      <3>3. AtLeast(refused', k) = AtLeast(refused, k) + 1
        BY <1>3, <1>4
      <3> QED
        BY <1>1, <1>2, <3>1, <3>2, <3>3, LogNumbers
    <2> QED
      BY <1>2, <2>1, <2>2 DEF LogInv, NothingLost
  <1>7. AtLeast(refused, 1) \in Nat /\ AtLeast(refused', 1) = AtLeast(refused, 1) + 1
    <2>1. AtLeast(refused', 1) = AtLeast(refused, 1) + 1
      BY <1>3, <1>4
    <2> QED
      BY <1>1, <2>1, LogNumbers
  <1>8. UnlockedIsShort'
    BY <1>1, <1>2, <1>7, LogNumbers DEF LogInv, UnlockedIsShort
  <1>9. RefusedIsShort'
    BY <1>1, <1>2, <1>7, LogNumbers DEF LogInv, RefusedIsShort
  <1>10. LockOutlives'
    <2>1. lock > 0 => AtLeast(log, lock + 1) \in Nat
      BY <1>1, <1>4, LogNumbers
    <2> QED
      BY <1>1, <1>2, <2>1, LogNumbers DEF LogInv, LockOutlives
  <1> QED
    BY <1>5, <1>6, <1>8, <1>9, <1>10 DEF LogInv

\* What has expired is in no number of LogInv.
LEMMA PruneKeepsLog ==
  ASSUME LogInv, NEW a \in Attempts, Prune(a)
  PROVE  LogInv'
  <1>1. LogTypes /\ "add" \in LoginPcs /\ h[a] = "prune" /\ Move(a, "add")
    BY DEF LogInv, LoginPcs, Recording, Prune
  <1>2. /\ h' \in [Attempts -> LoginPcs]
        /\ Asked(h') = Asked(h) /\ Unlogged(h') = Unlogged(h)
        /\ Expiring(h') = Expiring(h) /\ Logged(h') = Logged(h)
    BY <1>1, CountsMove DEF Asked, Unlogged, Expiring, Logged
  <1>3. log' \in Logs /\ \A k \in 1..(Window + 1) : AtLeast(log', k) = AtLeast(log, k)
    BY <1>1, ExpiredPruned DEF LogTypes, Prune
  <1>4. /\ \A k \in 1..Window : k \in 1..(Window + 1) /\ k \in 0..(Window + 1)
        /\ 1 \in 1..(Window + 1) /\ (lock > 0 => lock + 1 \in 1..(Window + 1))
        /\ (keyTtl < Window => keyTtl + 1 \in 1..(Window + 1))
    BY <1>1, LogNumbers DEF LogTypes
  <1>5. keyTtl' = keyTtl \/ (keyTtl' = 0 /\ AtLeast(log', 0) = 0)
    BY DEF Prune, Entries
  <1>6. LogTypes'
    BY <1>1, <1>2, <1>3, <1>5, ThrottleAssumption DEF LogTypes, Prune, NoExpiry
  <1>7. Outliving' <= Outliving /\ Outliving' \in Nat
    <2>1. CASE keyTtl' = keyTtl
      <3>1. Outliving' = Outliving
        BY <1>1, <1>3, <1>4, <2>1, LogNumbers DEF Outliving
      <3> QED
        BY <1>1, <3>1, LogNumbers
    <2>2. CASE keyTtl' = 0 /\ AtLeast(log', 0) = 0
      <3>1. AtLeast(log', 1) <= 0
        <4>1. \A k \in 0..(Window + 1) : AtLeast(log', k) <= AtLeast(log', 0)
          BY <1>1, <1>3, LogNumbers, TailsShrink
        <4> QED
          BY <1>1, <2>2, <4>1, LogNumbers
      <3>2. AtLeast(log', 1) \in Nat
        BY <1>1, <1>3, <1>4, LogNumbers
      <3>3. Outliving' = 0
        BY <1>1, <2>2, <3>1, <3>2, LogNumbers DEF Outliving
      <3> QED
        BY <1>1, <3>3, LogNumbers
    <2> QED
      BY <1>5, <2>1, <2>2
  <1>8. refused' = refused /\ lock' = lock /\ deaths' = deaths
    BY DEF Prune
  <1>9. NothingLost'
    <2>1. ASSUME NEW k \in 1..Window
          PROVE  /\ AtLeast(refused, k) <= AtLeast(log', k) + Unlogged(h) + deaths
                 /\ AtLeast(refused, k) + Outliving'
                      <= AtLeast(log', k) + Unlogged(h) + Expiring(h) + deaths
      <3>1. /\ AtLeast(refused, k) <= AtLeast(log, k) + Unlogged(h) + deaths
            /\ AtLeast(refused, k) + Outliving
                 <= AtLeast(log, k) + Unlogged(h) + Expiring(h) + deaths
        BY DEF LogInv, NothingLost
      <3>2. /\ AtLeast(refused, k) \in Nat /\ AtLeast(log, k) \in Nat
            /\ AtLeast(log', k) = AtLeast(log, k)
        BY <1>1, <1>3, <1>4, LogNumbers
      <3> QED
        BY <1>1, <1>7, <3>1, <3>2, LogNumbers
    <2>2. Outliving' <= Expiring(h) + deaths
      BY <1>1, <1>7, LogNumbers DEF LogInv, NothingLost
    <2> QED
      BY <1>2, <1>8, <2>1, <2>2 DEF NothingLost
  <1>10. UnlockedIsShort' /\ RefusedIsShort' /\ LockOutlives'
    BY <1>2, <1>3, <1>4, <1>8
    DEF LogInv, UnlockedIsShort, RefusedIsShort, LockOutlives
  <1> QED
    BY <1>6, <1>9, <1>10 DEF LogInv

\* The new entry is counted before its key has a lifetime.
LEMMA AddKeepsLog ==
  ASSUME LogInv, NEW a \in Attempts, AddFailure(a)
  PROVE  LogInv'
  <1>1. LogTypes /\ "expire" \in LoginPcs /\ h[a] = "add" /\ Move(a, "expire")
    BY DEF LogInv, LoginPcs, Recording, AddFailure
  <1>2. /\ h' \in [Attempts -> LoginPcs] /\ Unlogged(h) >= 1
        /\ Asked(h') = Asked(h) /\ Unlogged(h') = Unlogged(h) - 1
        /\ Expiring(h') = Expiring(h) + 1 /\ Logged(h') = Logged(h) + 1
    BY <1>1, CountsMove DEF Asked, Unlogged, Expiring, Logged
  <1>3. /\ log' \in Logs
        /\ \A k \in 0..Window : AtLeast(log', k) = AtLeast(log, k) + 1
    BY <1>1, EntryAdded DEF LogTypes, AddFailure
  <1>4. /\ \A k \in 1..Window : k \in 0..Window /\ k \in 0..(Window + 1)
        /\ 1 \in 0..Window /\ 1 \in 0..(Window + 1)
        /\ (keyTtl < Window => keyTtl + 1 \in 0..Window)
        /\ (lock > 0 => lock = Window \/ lock + 1 \in 0..Window)
        /\ (lock > 0 => lock + 1 \in 0..(Window + 1))
    BY <1>1, LogNumbers DEF LogTypes
  <1>5. keyTtl' = keyTtl \/ keyTtl' = Window + 1
    BY DEF AddFailure, NoExpiry
  <1>6. refused' = refused /\ lock' = lock /\ deaths' = deaths
    BY DEF AddFailure
  <1>7. LogTypes'
    BY <1>1, <1>2, <1>3, <1>5, <1>6, ThrottleAssumption DEF LogTypes, NoExpiry
  <1>8. Outliving' <= Outliving + 1 /\ Outliving' \in Nat
    <2>1. CASE keyTtl' >= Window
      <3>1. Outliving' = 0
        BY <2>1 DEF Outliving
      <3> QED
        BY <1>1, <3>1, LogNumbers
    <2>2. CASE ~(keyTtl' >= Window)
      <3>1. keyTtl' = keyTtl /\ keyTtl < Window
        BY <1>1, <1>5, <2>2, LogNumbers
      <3>2. Outliving' = AtLeast(log, keyTtl + 1) + 1
        BY <1>3, <1>4, <2>2, <3>1 DEF Outliving
      <3>3. Outliving = AtLeast(log, keyTtl + 1)
        BY <2>2, <3>1 DEF Outliving
      <3> QED
        BY <1>1, <3>2, <3>3, LogNumbers
    <2> QED
      BY <2>1, <2>2
  <1>9. NothingLost'
    <2>1. ASSUME NEW k \in 1..Window
          PROVE  /\ AtLeast(refused, k) <= AtLeast(log', k) + Unlogged(h') + deaths
                 /\ AtLeast(refused, k) + Outliving'
                      <= AtLeast(log', k) + Unlogged(h') + Expiring(h') + deaths
      <3>1. /\ AtLeast(refused, k) <= AtLeast(log, k) + Unlogged(h) + deaths
            /\ AtLeast(refused, k) + Outliving
                 <= AtLeast(log, k) + Unlogged(h) + Expiring(h) + deaths
        BY DEF LogInv, NothingLost
      <3>2. /\ AtLeast(refused, k) \in Nat /\ AtLeast(log, k) \in Nat
            /\ AtLeast(log', k) = AtLeast(log, k) + 1
        BY <1>1, <1>3, <1>4, LogNumbers
      <3> QED
        BY <1>1, <1>2, <1>8, <3>1, <3>2, LogNumbers
    <2>2. Outliving' <= Expiring(h') + deaths
      BY <1>1, <1>2, <1>8, LogNumbers DEF LogInv, NothingLost
    <2> QED
      BY <1>6, <2>1, <2>2 DEF NothingLost
  <1>10. UnlockedIsShort' /\ RefusedIsShort'
    <2>1. AtLeast(log', 1) = AtLeast(log, 1) + 1 /\ AtLeast(log, 1) \in Nat
      BY <1>1, <1>3, <1>4, LogNumbers
    <2>2. AtLeast(refused, 1) \in Nat
      BY <1>1, <1>4, LogNumbers
    <2> QED
      BY <1>1, <1>2, <1>6, <2>1, <2>2, LogNumbers DEF LogInv, UnlockedIsShort, RefusedIsShort
  <1>11. LockOutlives'
    <2>1. ASSUME lock > 0
          PROVE  AtLeast(log', lock + 1) \in Nat /\ AtLeast(log', lock + 1) <= AtLeast(log, lock + 1) + 1
      <3>1. AtLeast(log, lock + 1) \in Nat
        BY <1>1, <1>4, <2>1, LogNumbers
      <3>2. CASE lock = Window
        <4>1. AtLeast(log', Window + 1) = 0
          BY <1>3, Tails
        <4> QED
          BY <3>1, <3>2, <4>1
      <3>3. CASE lock + 1 \in 0..Window
        BY <1>3, <3>1, <3>3
      <3> QED
        BY <1>4, <2>1, <3>2, <3>3
    <2>2. lock > 0 => AtLeast(log, lock + 1) \in Nat
      BY <1>1, <1>4, LogNumbers
    <2> QED
      BY <1>1, <1>2, <1>6, <2>1, <2>2, LogNumbers DEF LogInv, LockOutlives
  <1> QED
    BY <1>7, <1>9, <1>10, <1>11 DEF LogInv

\* The lifetime of the key is that of its newest entry.
LEMMA ExpireKeepsLog ==
  ASSUME LogInv, NEW a \in Attempts, ExpireKey(a)
  PROVE  LogInv'
  <1>1. LogTypes /\ "count" \in LoginPcs /\ h[a] = "expire" /\ Move(a, "count")
    BY DEF LogInv, LoginPcs, Recording, ExpireKey
  <1>2. /\ h' \in [Attempts -> LoginPcs] /\ Expiring(h) >= 1
        /\ Asked(h') = Asked(h) /\ Unlogged(h') = Unlogged(h)
        /\ Expiring(h') = Expiring(h) - 1 /\ Logged(h') = Logged(h)
    BY <1>1, CountsMove DEF Asked, Unlogged, Expiring, Logged
  <1>3. keyTtl' = Window \/ (keyTtl' = 0 /\ AtLeast(log, 0) = 0)
    BY DEF ExpireKey, Entries
  <1>4. UNCHANGED <<log, lock, refused, deaths>>
    BY DEF ExpireKey
  <1>5. LogTypes'
    BY <1>1, <1>2, <1>3, <1>4, ThrottleAssumption DEF LogTypes, NoExpiry
  <1>6. Outliving' = 0
    <2>1. CASE keyTtl' = Window
      BY <1>1, <2>1, LogNumbers DEF Outliving
    <2>2. CASE keyTtl' = 0 /\ AtLeast(log, 0) = 0
      <3>1. AtLeast(log, 1) <= 0 /\ AtLeast(log, 1) \in Nat
        <4>1. \A k \in 0..(Window + 1) : AtLeast(log, k) <= AtLeast(log, 0)
          BY <1>1, LogNumbers, TailsShrink DEF LogTypes
        <4> QED
          BY <1>1, <2>2, <4>1, LogNumbers
      <3> QED
        BY <1>1, <1>4, <2>2, <3>1, LogNumbers DEF Outliving
    <2> QED
      BY <1>3, <2>1, <2>2
  <1>7. NothingLost'
    <2>1. ASSUME NEW k \in 1..Window
          PROVE  /\ AtLeast(refused, k) <= AtLeast(log, k) + Unlogged(h) + deaths
                 /\ AtLeast(refused, k) + 0
                      <= AtLeast(log, k) + Unlogged(h) + Expiring(h') + deaths
      <3>1. AtLeast(refused, k) <= AtLeast(log, k) + Unlogged(h) + deaths
        BY DEF LogInv, NothingLost
      <3>2. AtLeast(refused, k) \in Nat /\ AtLeast(log, k) \in Nat
        BY <1>1, LogNumbers
      <3> QED
        BY <1>1, <1>2, <3>1, <3>2, LogNumbers
    <2>2. 0 <= Expiring(h') + deaths
      BY <1>1, <1>2, LogNumbers
    <2> QED
      BY <1>2, <1>4, <1>6, <2>1, <2>2 DEF NothingLost
  <1>8. UnlockedIsShort' /\ RefusedIsShort' /\ LockOutlives'
    BY <1>2, <1>4 DEF LogInv, UnlockedIsShort, RefusedIsShort, LockOutlives
  <1> QED
    BY <1>5, <1>7, <1>8 DEF LogInv

\* A handler that goes home has seen fewer entries than the limit.
LEMMA CountKeepsLog ==
  ASSUME LogInv, NEW a \in Attempts, CountFailures(a)
  PROVE  LogInv'
  <1>1. /\ LogTypes /\ "lock" \in LoginPcs /\ "idle" \in LoginPcs /\ h[a] = "count"
        /\ UNCHANGED <<log, keyTtl, lock, refused, deaths>>
    BY DEF LogInv, LoginPcs, Recording, CountFailures
  <1>2. CASE Move(a, "lock")
    <2>1. /\ h' \in [Attempts -> LoginPcs]
          /\ Asked(h') = Asked(h) /\ Unlogged(h') = Unlogged(h)
          /\ Expiring(h') = Expiring(h) /\ Logged(h') = Logged(h)
      BY <1>1, <1>2, CountsMove DEF Asked, Unlogged, Expiring, Logged
    <2> QED
      BY <1>1, <2>1 DEF LogInv, LogTypes, NothingLost, Outliving, UnlockedIsShort,
                        RefusedIsShort, LockOutlives
  <1>3. CASE ~(AtLeast(log, 0) >= FailLimit) /\ Move(a, "idle")
    <2>1. /\ h' \in [Attempts -> LoginPcs] /\ Logged(h) >= 1
          /\ Asked(h') = Asked(h) /\ Unlogged(h') = Unlogged(h)
          /\ Expiring(h') = Expiring(h) /\ Logged(h') = Logged(h) - 1
      BY <1>1, <1>3, CountsMove DEF Asked, Unlogged, Expiring, Logged
    <2>2. LogTypes' /\ NothingLost' /\ RefusedIsShort' /\ LockOutlives'
      BY <1>1, <2>1 DEF LogInv, LogTypes, NothingLost, Outliving, RefusedIsShort, LockOutlives
    <2>3. UnlockedIsShort'
      <3>1. AtLeast(log, 1) <= AtLeast(log, 0)
        <4>1. \A k \in 0..(Window + 1) : AtLeast(log, k) <= AtLeast(log, 0)
          BY <1>1, LogNumbers, TailsShrink DEF LogTypes
        <4> QED
          BY <1>1, <4>1, LogNumbers
      <3>2. /\ AtLeast(log, 0) \in Nat /\ AtLeast(log, 1) \in Nat /\ AtLeast(refused, 1) \in Nat
            /\ 1 \in 1..Window
        BY <1>1, LogNumbers
      <3>3. AtLeast(refused, 1) <= AtLeast(log, 1) + Unlogged(h) + deaths
        BY <3>2 DEF LogInv, NothingLost
      <3> QED
        BY <1>1, <1>3, <2>1, <3>1, <3>2, <3>3, LogNumbers DEF UnlockedIsShort
    <2> QED
      BY <2>2, <2>3 DEF LogInv
  <1> QED
    BY <1>2, <1>3 DEF CountFailures, Entries, EndLogin

\* When the lock is set nothing in the log outlives it.
LEMMA SetLockKeepsLog ==
  ASSUME LogInv, NEW a \in Attempts, SetLock(a)
  PROVE  LogInv'
  <1>1. /\ LogTypes /\ "idle" \in LoginPcs /\ h[a] = "lock" /\ Move(a, "idle")
        /\ UNCHANGED <<log, keyTtl, refused, deaths>>
        /\ lock' = IF lock = 0 THEN Window ELSE lock
    BY DEF LogInv, LoginPcs, Recording, SetLock, EndLogin
  <1>2. /\ h' \in [Attempts -> LoginPcs] /\ Logged(h) >= 1
        /\ Asked(h') = Asked(h) /\ Unlogged(h') = Unlogged(h)
        /\ Expiring(h') = Expiring(h) /\ Logged(h') = Logged(h) - 1
    BY <1>1, CountsMove DEF Asked, Unlogged, Expiring, Logged
  <1>3. lock' # 0 /\ lock' \in 0..Window
    BY <1>1, LogNumbers DEF LogTypes
  <1>4. LogTypes' /\ NothingLost' /\ RefusedIsShort' /\ UnlockedIsShort'
    BY <1>1, <1>2, <1>3
    DEF LogInv, LogTypes, NothingLost, Outliving, RefusedIsShort, UnlockedIsShort
  <1>5. LockOutlives'
    <2>1. CASE lock = 0
      <3>1. lock' = Window /\ AtLeast(log', lock' + 1) = 0
        BY <1>1, <2>1, LogNumbers
      <3>2. Under(h, {"check"}) \in Nat
        BY <1>1, Room DEF LogTypes
      <3> QED
        BY <1>1, <1>2, <3>1, <3>2, LogNumbers DEF LockOutlives
    <2>2. CASE lock # 0
      BY <1>1, <1>2, <2>2 DEF LogInv, LockOutlives
    <2> QED
      BY <2>1, <2>2
  <1> QED
    BY <1>4, <1>5 DEF LogInv

\* A handler that dies over a refusal is counted among the dead.
LEMMA DiesKeepsLog ==
  ASSUME LogInv, NEW a \in Attempts, Dies(a)
  PROVE  LogInv'
  <1>1. /\ LogTypes /\ "idle" \in LoginPcs /\ Move(a, "idle") /\ h[a] \in LoginPcs
        /\ UNCHANGED <<log, keyTtl, lock, refused>>
        /\ deaths' = IF h[a] \in Recording THEN deaths + 1 ELSE deaths
    BY DEF LogInv, LoginPcs, LogTypes, Dies, EndLogin
  <1>2. CASE h[a] \notin Recording
    <2>1. h[a] \in {"idle", "check", "school"}
      BY <1>1, <1>2 DEF LoginPcs
    <2> QED
      BY <1>1, <1>2, <2>1, QuietMove
  <1>3. CASE h[a] \in Recording
    <2>1. deaths' = deaths + 1 /\ deaths' \in Nat
      BY <1>1, <1>3, LogNumbers
    <2>2. /\ h' \in [Attempts -> LoginPcs] /\ Asked(h') = Asked(h)
          /\ \/ /\ Unlogged(h') = Unlogged(h) - 1 /\ Unlogged(h) >= 1
                /\ Expiring(h') = Expiring(h) /\ Logged(h') = Logged(h)
             \/ /\ Unlogged(h') = Unlogged(h) /\ Logged(h') = Logged(h) - 1 /\ Logged(h) >= 1
                /\ \/ Expiring(h') = Expiring(h) - 1 /\ Expiring(h) >= 1
                   \/ Expiring(h') = Expiring(h)
      BY <1>1, <1>3, CountsMove DEF Asked, Unlogged, Expiring, Logged, Recording
    <2>3. LogTypes'
      BY <1>1, <2>1, <2>2 DEF LogTypes
    <2>4. NothingLost'
      <3>1. ASSUME NEW k \in 1..Window
            PROVE  /\ AtLeast(refused, k) <= AtLeast(log, k) + Unlogged(h') + deaths'
                   /\ AtLeast(refused, k) + Outliving
                        <= AtLeast(log, k) + Unlogged(h') + Expiring(h') + deaths'
        <4>1. /\ AtLeast(refused, k) <= AtLeast(log, k) + Unlogged(h) + deaths
              /\ AtLeast(refused, k) + Outliving
                   <= AtLeast(log, k) + Unlogged(h) + Expiring(h) + deaths
          BY DEF LogInv, NothingLost
        <4>2. AtLeast(refused, k) \in Nat /\ AtLeast(log, k) \in Nat
          BY <1>1, LogNumbers
        <4> QED
          BY <1>1, <2>1, <2>2, <4>1, <4>2, LogNumbers
      <3>2. Outliving <= Expiring(h') + deaths'
        BY <1>1, <2>1, <2>2, LogNumbers DEF LogInv, NothingLost
      <3>3. Outliving' = Outliving
        BY <1>1 DEF Outliving
      <3> QED
        BY <1>1, <3>1, <3>2, <3>3 DEF NothingLost
    <2>5. AtLeast(log, 1) \in Nat /\ AtLeast(refused, 1) \in Nat
      BY <1>1, LogNumbers
    <2>6. UnlockedIsShort' /\ RefusedIsShort'
      BY <1>1, <2>1, <2>2, <2>5, LogNumbers DEF LogInv, UnlockedIsShort, RefusedIsShort
    <2>7. LockOutlives'
      <3>1. lock > 0 => AtLeast(log, lock + 1) \in Nat
        BY <1>1, LogNumbers DEF LogTypes
      <3> QED
        BY <1>1, <2>2, <3>1, LogNumbers DEF LogInv, LockOutlives
    <2> QED
      BY <2>3, <2>4, <2>6, <2>7 DEF LogInv
  <1> QED
    BY <1>2, <1>3

\* A tick later the lock may be gone: what outlives it is short of the limit when
\* there are no more handlers than the limit has failures.
LEMMA TickKeepsLog ==
  ASSUME LogInv, ThrottleTick, Cardinality(Attempts) <= FailLimit
  PROVE  LogInv'
  <1>1. /\ LogTypes /\ h' = h /\ deaths' = deaths
        /\ \A a \in Attempts : h[a] \notin Recording
    BY DEF LogInv, ThrottleTick
  <1>2. Unlogged(h) = 0 /\ Expiring(h) = 0 /\ Logged(h) = 0
    <2>1. ASSUME NEW Q \in SUBSET Recording
          PROVE  Under(h, Q) = 0
      <3>1. {a \in Attempts : h[a] \in Q} = {}
        BY <1>1
      <3> QED
        BY <3>1, FS_EmptySet DEF Under
    <2>2. /\ {"prune", "add"} \in SUBSET Recording /\ {"expire"} \in SUBSET Recording
          /\ {"expire", "count", "lock"} \in SUBSET Recording
      BY DEF Recording
    <2> QED
      BY <2>1, <2>2 DEF Unlogged, Expiring, Logged
  <1>3. /\ log \in Logs /\ refused \in Logs
        /\ refused' \in Logs /\ \A k \in 1..Window : AtLeast(refused', k) = AtLeast(refused, k + 1)
    BY <1>1, EntriesAge DEF LogTypes, ThrottleTick
  <1>4. \A k \in 1..Window : AtLeast(refused, k + 1) <= AtLeast(refused, k)
    <2> SUFFICES ASSUME NEW k \in 1..Window
                 PROVE  AtLeast(refused, k + 1) <= AtLeast(refused, k)
      OBVIOUS
    <2>1. k \in 0..(Window + 1) /\ k + 1 \in k..(Window + 1)
      BY <1>1, LogNumbers
    <2> QED
      BY <1>3, <2>1, TailsShrink
  <1>5. \A k \in 1..Window : AtLeast(log, k + 1) <= AtLeast(log, k)
    <2> SUFFICES ASSUME NEW k \in 1..Window
                 PROVE  AtLeast(log, k + 1) <= AtLeast(log, k)
      OBVIOUS
    <2>1. k \in 0..(Window + 1) /\ k + 1 \in k..(Window + 1)
      BY <1>1, LogNumbers
    <2> QED
      BY <1>3, <2>1, TailsShrink
  <1>6. /\ \A k \in 1..Window : k \in 0..(Window + 1) /\ k + 1 \in 0..(Window + 1)
        /\ 1 \in 1..Window
        /\ \A k \in 1..Window : k = Window \/ k + 1 \in 1..Window
        /\ \A k \in 0..(Window + 1) : AtLeast(log, k) \in Nat /\ AtLeast(refused, k) \in Nat
        /\ AtLeast(log, Window + 1) = 0 /\ AtLeast(refused, Window + 1) = 0
    BY <1>1, LogNumbers
  <1>7. \A k \in 1..Window :
          /\ AtLeast(refused, k) <= AtLeast(log, k) + deaths
          /\ AtLeast(refused, k) + Outliving <= AtLeast(log, k) + deaths
    <2> SUFFICES ASSUME NEW k \in 1..Window
                 PROVE  /\ AtLeast(refused, k) <= AtLeast(log, k) + deaths
                        /\ AtLeast(refused, k) + Outliving <= AtLeast(log, k) + deaths
      OBVIOUS
    <2>1. /\ AtLeast(refused, k) <= AtLeast(log, k) + Unlogged(h) + deaths
          /\ AtLeast(refused, k) + Outliving
               <= AtLeast(log, k) + Unlogged(h) + Expiring(h) + deaths
      BY DEF LogInv, NothingLost
    <2>2. AtLeast(refused, k) \in Nat /\ AtLeast(log, k) \in Nat
      BY <1>6
    <2> QED
      BY <1>1, <1>2, <2>1, <2>2, LogNumbers
  \* Either the key expires and takes the log with it, or the log ages.
  <1>8. /\ log' \in Logs
        /\ \A k \in 1..Window :
             AtLeast(log', k) = IF keyTtl = 1 THEN 0 ELSE AtLeast(log, k + 1)
    <2>1. CASE keyTtl = 1
      <3>1. log' = NoEntries
        BY <2>1 DEF ThrottleTick
      <3>2. \A k \in 1..Window : k \in 0..(Window + 1)
        BY <1>6
      <3> QED
        BY <2>1, <3>1, <3>2, NothingLogged
    <2>2. CASE keyTtl # 1
      <3>1. log' = Older(log)
        BY <2>2 DEF ThrottleTick
      <3> QED
        BY <1>3, <2>2, <3>1, EntriesAge
    <2> QED
      BY <2>1, <2>2
  <1>9. LogTypes'
    <2>1. keyTtl' \in 0..NoExpiry /\ lock' \in 0..Window
      BY <1>1, ThrottleAssumption DEF LogTypes, ThrottleTick, NoExpiry, Less
    <2> QED
      BY <1>1, <1>3, <1>8, <2>1 DEF LogTypes
  <1>10. Outliving' \in Nat /\ Outliving' <= Outliving /\ (keyTtl = 1 => Outliving' = 0)
    <2>1. keyTtl \in 0..(Window + 1) /\ Outliving \in Nat /\ Window \in Nat \ {0}
      BY <1>1, LogNumbers DEF LogTypes, NoExpiry
    <2>2. CASE keyTtl = Window + 1
      <3>1. keyTtl' = keyTtl
        BY <2>2 DEF ThrottleTick, NoExpiry
      <3>2. Outliving' = 0
        BY <2>1, <2>2, <3>1 DEF Outliving
      <3> QED
        BY <2>1, <2>2, <3>2
    <2>3. CASE keyTtl = 0
      <3>1. keyTtl' = 0
        BY <2>1, <2>3 DEF ThrottleTick, NoExpiry, Less
      <3>2. Outliving = AtLeast(log, 1) /\ Outliving' = AtLeast(log', 1)
        BY <2>1, <2>3, <3>1 DEF Outliving
      <3>3. AtLeast(log', 1) = AtLeast(log, 2) /\ AtLeast(log, 2) <= AtLeast(log, 1)
        BY <1>5, <1>6, <1>8, <2>3
      <3>4. AtLeast(log, 2) \in Nat
        <4>1. 2 \in 0..(Window + 1)
          BY <2>1
        <4> QED
          BY <1>6, <4>1
      <3> QED
        BY <2>3, <3>2, <3>3, <3>4
    <2>4. CASE keyTtl \in 1..Window
      <3>1. keyTtl' = keyTtl - 1 /\ keyTtl' + 1 = keyTtl /\ ~(keyTtl' >= Window)
        BY <2>1, <2>4 DEF ThrottleTick, NoExpiry, Less
      <3>2. Outliving' = AtLeast(log', keyTtl)
        BY <3>1 DEF Outliving
      <3>3. AtLeast(log', keyTtl) = IF keyTtl = 1 THEN 0 ELSE AtLeast(log, keyTtl + 1)
        BY <1>8, <2>4
      <3>4. CASE keyTtl = 1
        BY <2>1, <3>2, <3>3, <3>4
      <3>5. CASE keyTtl # 1 /\ keyTtl = Window
        <4>1. AtLeast(log, keyTtl + 1) = 0
          BY <1>6, <3>5
        <4> QED
          BY <2>1, <3>2, <3>3, <3>5, <4>1
      <3>6. CASE keyTtl # 1 /\ keyTtl # Window
        <4>1. Outliving = AtLeast(log, keyTtl + 1)
          BY <2>1, <2>4, <3>6 DEF Outliving
        <4> QED
          BY <2>1, <3>2, <3>3, <3>6, <4>1
      <3> QED
        BY <3>4, <3>5, <3>6
    <2> QED
      BY <2>1, <2>2, <2>3, <2>4
  <1>11. \A k \in 1..Window :
           /\ AtLeast(refused', k) <= AtLeast(log', k) + deaths
           /\ AtLeast(refused', k) + Outliving' <= AtLeast(log', k) + deaths
    <2> SUFFICES ASSUME NEW k \in 1..Window
                 PROVE  /\ AtLeast(refused', k) <= AtLeast(log', k) + deaths
                        /\ AtLeast(refused', k) + Outliving' <= AtLeast(log', k) + deaths
      OBVIOUS
    <2>1. /\ AtLeast(refused', k) = AtLeast(refused, k + 1)
          /\ AtLeast(log', k) = IF keyTtl = 1 THEN 0 ELSE AtLeast(log, k + 1)
      BY <1>3, <1>8
    <2>2. AtLeast(refused, k + 1) \in Nat /\ AtLeast(log, k + 1) \in Nat /\ deaths \in Nat
      BY <1>1, <1>6, LogNumbers
    <2>3. CASE k = Window
      <3>1. AtLeast(refused', k) = 0 /\ AtLeast(log', k) = 0
        BY <1>6, <2>1, <2>3
      <3>2. Outliving <= deaths
        BY <1>1, <1>2, LogNumbers DEF LogInv, NothingLost
      <3>3. Outliving' <= deaths
        BY <1>1, <1>10, <2>2, <3>2, LogNumbers
      <3>4. 0 <= deaths /\ Outliving' \in Nat
        BY <1>10, <2>2
      <3>5. AtLeast(refused', k) + Outliving' = Outliving' /\ AtLeast(log', k) + deaths = deaths
        <4>1. ASSUME NEW r, r = 0, NEW o \in Nat, NEW d \in Nat
              PROVE  r + o = o /\ r + d = d
          BY <4>1
        <4>2. deaths \in Nat
          BY <2>2
        <4> HIDE DEF Outliving
        <4> QED
          BY <3>1, <3>4, <4>1, <4>2
      <3> QED
        BY <3>1, <3>3, <3>4, <3>5
    <2>4. CASE k # Window
      <3>1. k + 1 \in 1..Window
        BY <1>6, <2>4
      <3>2. /\ AtLeast(refused, k + 1) <= AtLeast(log, k + 1) + deaths
            /\ AtLeast(refused, k + 1) + Outliving <= AtLeast(log, k + 1) + deaths
        BY <1>7, <3>1
      <3>3. CASE keyTtl = 1
        <4>1. Outliving = AtLeast(log, 2)
          BY <1>1, <2>4, <3>1, <3>3, LogNumbers DEF Outliving
        <4>2. AtLeast(log, k + 1) <= AtLeast(log, 2)
          <5>1. 2 \in 0..(Window + 1) /\ k + 1 \in 2..(Window + 1)
            BY <1>1, LogNumbers
          <5> QED
            BY <1>3, <5>1, TailsShrink
        <4>3. AtLeast(log, 2) \in Nat
          BY <1>1, <4>1, LogNumbers
        <4>4. AtLeast(refused, k + 1) <= deaths
          BY <2>2, <3>2, <4>1, <4>2, <4>3
        <4> QED
          BY <1>10, <2>1, <2>2, <3>3, <4>4
      <3>4. CASE keyTtl # 1
        BY <1>1, <1>10, <2>1, <2>2, <3>2, <3>4, LogNumbers
      <3> QED
        BY <3>3, <3>4
    <2> QED
      BY <2>3, <2>4
  <1>12. NothingLost'
    <2>1. Outliving' <= Expiring(h) + deaths
      BY <1>1, <1>10, LogNumbers DEF LogInv, NothingLost
    <2>2. ASSUME NEW k \in 1..Window
          PROVE  /\ AtLeast(refused', k) <= AtLeast(log', k) + Unlogged(h) + deaths
                 /\ AtLeast(refused', k) + Outliving'
                      <= AtLeast(log', k) + Unlogged(h) + Expiring(h) + deaths
      <3>1. /\ AtLeast(refused', k) <= AtLeast(log', k) + deaths
            /\ AtLeast(refused', k) + Outliving' <= AtLeast(log', k) + deaths
        BY <1>11
      <3>2. AtLeast(log', k) \in Nat
        BY <1>6, <1>8
      <3> QED
        BY <1>1, <1>2, <3>1, <3>2, LogNumbers
    <2> QED
      BY <1>1, <2>1, <2>2 DEF NothingLost
  <1>13. /\ AtLeast(refused', 1) <= AtLeast(refused, 1) /\ AtLeast(refused', 1) \in Nat
         /\ AtLeast(log', 1) <= AtLeast(log, 1) /\ AtLeast(log', 1) \in Nat
         /\ AtLeast(refused, 1) \in Nat /\ AtLeast(log, 1) \in Nat
         /\ AtLeast(refused', 1) <= AtLeast(log', 1) + deaths
         /\ AtLeast(log', 1) = 0 \/ AtLeast(log', 1) = AtLeast(log, 2)
    <2>1. /\ AtLeast(refused', 1) = AtLeast(refused, 1 + 1)
          /\ AtLeast(refused, 1 + 1) <= AtLeast(refused, 1)
          /\ AtLeast(log', 1) = IF keyTtl = 1 THEN 0 ELSE AtLeast(log, 1 + 1)
          /\ AtLeast(log, 1 + 1) <= AtLeast(log, 1)
          /\ AtLeast(refused', 1) <= AtLeast(log', 1) + deaths
      BY <1>3, <1>4, <1>5, <1>6, <1>8, <1>11
    <2>2. /\ AtLeast(refused, 1 + 1) \in Nat /\ AtLeast(log, 1 + 1) \in Nat
          /\ AtLeast(refused, 1) \in Nat /\ AtLeast(log, 1) \in Nat /\ 1 + 1 = 2
      BY <1>6
    <2> QED
      BY <2>1, <2>2
  <1>14. RefusedIsShort'
    BY <1>1, <1>13, LogNumbers DEF LogInv, RefusedIsShort
  <1>15. lock' = (IF lock = 0 THEN 0 ELSE lock - 1) /\ lock \in 0..Window
    BY <1>1, LogNumbers DEF LogTypes, ThrottleTick, Less, NoExpiry
  <1>16. UnlockedIsShort'
    <2>1. CASE lock = 0
      BY <1>1, <1>13, <2>1, LogNumbers DEF LogInv, UnlockedIsShort
    <2>2. CASE lock = 1
      <3>1. AtLeast(log, 2) + Asked(h) + Unlogged(h) + 1 <= Cardinality(Attempts)
        BY <2>2 DEF LogInv, LockOutlives
      <3>2. AtLeast(log, 2) \in Nat
        BY <1>6
      <3>3. AtLeast(log', 1) + 1 <= FailLimit
        BY <1>1, <1>13, <3>1, <3>2, LogNumbers
      <3> QED
        BY <1>1, <1>2, <1>13, <3>3, LogNumbers DEF UnlockedIsShort
    <2>3. CASE lock # 0 /\ lock # 1
      BY <1>1, <1>15, <2>3, LogNumbers DEF UnlockedIsShort
    <2> QED
      BY <2>1, <2>2, <2>3
  <1>17. LockOutlives'
    <2> SUFFICES ASSUME lock' > 0
                 PROVE  AtLeast(log', lock' + 1) + Asked(h) + Unlogged(h) + 1 <= Cardinality(Attempts)
      BY <1>1 DEF LockOutlives
    <2>1. lock' + 1 = lock /\ lock > 0 /\ lock \in 1..Window
      BY <1>15
    <2>2. AtLeast(log, lock + 1) + Asked(h) + Unlogged(h) + 1 <= Cardinality(Attempts)
      BY <2>1 DEF LogInv, LockOutlives
    <2>3. /\ AtLeast(log', lock) = 0 \/ AtLeast(log', lock) = AtLeast(log, lock + 1)
          /\ AtLeast(log, lock + 1) \in Nat
      BY <1>6, <1>8, <2>1
    <2> QED
      BY <1>1, <2>1, <2>2, <2>3, LogNumbers
  <1> QED
    BY <1>9, <1>12, <1>14, <1>16, <1>17 DEF LogInv

LEMMA LogInit == ThrottleInit => LogInv
  <1> SUFFICES ASSUME ThrottleInit PROVE LogInv
    OBVIOUS
  <1>1. /\ log = NoEntries /\ refused = NoEntries /\ keyTtl = 0 /\ lock = 0 /\ deaths = 0
        /\ h = [a \in Attempts |-> "idle"]
    BY DEF ThrottleInit
  <1>2. LogTypes
    BY <1>1, NothingLogged, ThrottleAssumption DEF LogTypes, LoginPcs, NoExpiry
  <1>3. \A k \in 0..(Window + 1) : AtLeast(log, k) = 0 /\ AtLeast(refused, k) = 0
    BY <1>1, NothingLogged
  <1>4. Outliving = 0
    <2>1. 1 \in 0..(Window + 1)
      BY <1>2, LogNumbers
    <2> QED
      BY <1>1, <1>2, <1>3, <2>1, LogNumbers DEF Outliving
  <1>5. NothingLost
    <2>1. \A k \in 1..Window : k \in 0..(Window + 1)
      BY <1>2, LogNumbers
    <2>2. \A k \in 1..Window : AtLeast(log, k) = 0 /\ AtLeast(refused, k) = 0
      BY <1>3, <2>1
    <2> QED
      BY <1>1, <1>2, <1>4, <2>2, LogNumbers DEF NothingLost
  <1>6. AtLeast(log, 1) = 0 /\ AtLeast(refused, 1) = 0
    <2>1. 1 \in 0..(Window + 1)
      BY <1>2, LogNumbers
    <2> QED
      BY <1>3, <2>1
  <1>7. Asked(h) <= Cardinality(Attempts)
    <2>1. Under(h, {"check"}) \in Nat
      BY <1>2, Room DEF LogTypes
    <2> QED
      BY <1>2, <2>1, LogNumbers
  <1>8. UnlockedIsShort /\ RefusedIsShort /\ LockOutlives
    BY <1>1, <1>2, <1>6, <1>7, LogNumbers DEF UnlockedIsShort, RefusedIsShort, LockOutlives
  <1> QED
    BY <1>2, <1>5, <1>8 DEF LogInv

LEMMA LogStep ==
  ASSUME LogInv, [ThrottleNext]_throttleVars, Cardinality(Attempts) <= FailLimit
  PROVE  LogInv'
  <1>1. ASSUME NEW a \in Attempts, Hit(a)
        PROVE  LogInv'
    <2>1. /\ h[a] = "idle" /\ (Move(a, "check") \/ Move(a, "idle"))
          /\ UNCHANGED <<log, keyTtl, lock, refused, deaths>>
      BY <1>1 DEF Hit, EndLogin
    <2> QED
      BY <2>1, QuietMove
  <1>2. ASSUME NEW a \in Attempts, IsLocked(a)
        PROVE  LogInv'
    <2>1. /\ h[a] = "check" /\ (Move(a, "idle") \/ (lock = 0 /\ Move(a, "school")))
          /\ UNCHANGED <<log, keyTtl, lock, refused, deaths>>
      BY <1>2 DEF IsLocked, EndLogin
    <2> QED
      BY <2>1, QuietMove, PassedCheck
  <1>3. ASSUME NEW a \in Attempts, LoginSso2(a)
        PROVE  LogInv'
    <2>1. /\ h[a] = "school" /\ UNCHANGED <<log, keyTtl, lock, deaths>>
          /\ \/ Move(a, "idle") /\ UNCHANGED refused
             \/ Move(a, "prune") /\ refused' = [refused EXCEPT ![Window] = @ + 1]
      BY <1>3 DEF LoginSso2, EndLogin
    <2> QED
      BY <2>1, QuietMove, RefusedByTheSchool
  <1>4. ASSUME NEW a \in Attempts, RecordCredentialFail(a)
        PROVE  LogInv'
    BY <1>4, PruneKeepsLog, AddKeepsLog, ExpireKeepsLog, CountKeepsLog, SetLockKeepsLog
    DEF RecordCredentialFail
  <1>5. ASSUME NEW a \in Attempts, Dies(a)
        PROVE  LogInv'
    BY <1>5, DiesKeepsLog
  <1>6. CASE ThrottleTick
    BY <1>6, TickKeepsLog
  <1>7. CASE NextHour \/ UNCHANGED throttleVars
    BY <1>7 DEF NextHour, throttleVars, LogInv, LogTypes, NothingLost, Outliving,
                UnlockedIsShort, RefusedIsShort, LockOutlives
  <1> QED
    BY <1>1, <1>2, <1>3, <1>4, <1>5, <1>6, <1>7 DEF ThrottleNext, PostLogin

LEMMA LogInvLocks ==
  ASSUME LogInv
  PROVE  FullLogLocks /\ BudgetHolds
  <1>1. LogTypes /\ UnlockedIsShort /\ RefusedIsShort
    BY DEF LogInv
  <1>2. AtLeast(log, 1) \in Nat /\ AtLeast(refused, 1) \in Nat
    BY <1>1, LogNumbers
  <1>3. BudgetHolds
    BY <1>1, <1>2, LogNumbers DEF RefusedIsShort, BudgetHolds, Unexpired
  <1>4. FullLogLocks
    <2> SUFFICES ASSUME deaths = 0, \A a \in Attempts : h[a] \notin Recording,
                        AtLeast(log, 1) >= FailLimit, ~(lock > 0)
                 PROVE  FALSE
      BY DEF FullLogLocks, Unexpired
    <2>1. {a \in Attempts : h[a] \in {"expire", "count", "lock"}} = {}
      BY DEF Recording
    <2>2. Logged(h) = 0
      BY <2>1, FS_EmptySet DEF Logged, Under
    <2>3. lock = 0
      BY <1>1, LogNumbers
    <2> QED
      BY <1>1, <1>2, <2>2, <2>3, LogNumbers DEF UnlockedIsShort
  <1> QED
    BY <1>3, <1>4

\* However the logins of one student overlap, tick and die, the school refuses no
\* more than the limit, the handlers and the dead allow within a window, and a log
\* that is full has its lock: HourlyBudget by CountedKept, the rest by LogInv.
THEOREM LockoutKept == ThrottleSpec => []LockoutHolds
  <1>1. ThrottleInit => Counted
    BY ThrottleAssumption DEF ThrottleInit, Counted
  <1>2. Counted /\ [ThrottleNext]_throttleVars => Counted'
    BY CountedKept
  <1>3. CASE ~(Cardinality(Attempts) <= FailLimit)
    <2>1. Counted => LockoutHolds
      BY <1>3 DEF Counted, HourlyBudget, LockoutHolds
    <2> QED
      BY <1>1, <1>2, <2>1, PTL DEF ThrottleSpec
  <1>4. CASE Cardinality(Attempts) <= FailLimit
    <2>1. LogInv /\ [ThrottleNext]_throttleVars => LogInv'
      BY <1>4, LogStep
    <2>2. Counted /\ LogInv => LockoutHolds
      BY LogInvLocks DEF Counted, HourlyBudget, LockoutHolds
    <2> QED
      BY <1>1, <1>2, <2>1, <2>2, LogInit, PTL DEF ThrottleSpec
  <1> QED
    BY <1>3, <1>4

-----------------------------------------------------------------------------
(* The audit lifecycle.                                                     *)

Handling(p, f) == f \in pass[p].left \cup pass[p].gone

\* A run about to commit has a complete file that nobody else knows of.
CommitOK ==
  \A p \in Runs : pass[p].pc = "commit" =>
    /\ pass[p].file \in Files
    /\ disk[pass[p].file] = pass[p].rows
    /\ ledger[pass[p].file] = Unlisted

NamesDiffer ==
  \A p, q \in Runs :
    pass[p].pc = "commit" /\ pass[q].pc = "commit" /\ p # q => pass[p].file # pass[q].file

\* A run only unlinks files that are listed and whose time is over, and what it is
\* about to mark is gone.
UnlinkOK ==
  \A p \in Runs : \A f \in Files :
    /\ Handling(p, f) => ledger[f].note # "absent" /\ ledger[f].age = KeepWindow
    /\ f \in pass[p].gone => disk[f] = NoFile

\* A file the ledger names is complete until its time is over.
ListedOK ==
  \A f \in Files :
    /\ ledger[f].note # "absent" => disk[f] = ledger[f].rows \/ ledger[f].age = KeepWindow
    /\ ledger[f].note = "deleted_after_1y" => disk[f] = NoFile

\* RowsAreKept needs CommitOK to delete the rows that were read; LedgerIsHonest
\* needs UnlinkOK, which needs that an unlisted file is no run's but its writer's.
ArchiveInv ==
  ArchiveTypeOK /\ CommitOK /\ NamesDiffer /\ UnlinkOK /\ ListedOK /\ RowsAreKept

RunRecord ==
  [pc : {"idle", "write", "commit", "expired", "unlink"},
   rows : SUBSET Rows, file : Files \cup {NoFile}, left : SUBSET Files, gone : SUBSET Files]

\* A run that has not begun is a run.
LEMMA NoRunTyped == NoRun \in RunRecord
  BY DEF NoRun, RunRecord

\* The type of the runs, by its short name.
LEMMA PassTyped == PassTypeOK <=> pass \in [Runs -> RunRecord]
  BY DEF PassTypeOK, RunRecord

\* A file is kept as long as neither it nor its ledger row changes for the worse.
LEMMA KeptStays ==
  ASSUME NEW r,
         \A f \in Files : ledger[f].note # "absent" =>
           /\ ledger'[f].note # "absent" /\ ledger'[f].rows = ledger[f].rows
           /\ disk'[f] = disk[f] \/ ledger'[f].age = KeepWindow
           /\ ledger[f].age = KeepWindow => ledger'[f].age = KeepWindow
  PROVE  Kept(r) => Kept(r)'
  BY DEF Kept

\* Nothing is archived at first.
LEMMA ArchiveStarts == ArchiveInit => ArchiveInv
  <1> SUFFICES ASSUME ArchiveInit PROVE ArchiveInv
    OBVIOUS
  <1> USE ArchiveAssumption DEF ArchiveInit
  <1>1. pass \in [Runs -> RunRecord] /\ \A p \in Runs : pass[p] = NoRun
    BY NoRunTyped
  <1>2. ArchiveTypeOK
    BY <1>1, PassTyped DEF ArchiveTypeOK, Unlisted
  <1>3. CommitOK /\ NamesDiffer /\ UnlinkOK
    BY <1>1 DEF CommitOK, NamesDiffer, UnlinkOK, Handling, NoRun
  <1>4. ListedOK /\ RowsAreKept
    BY DEF ListedOK, RowsAreKept, Unlisted
  <1> QED
    BY <1>2, <1>3, <1>4 DEF ArchiveInv

\* A new row is in the table.
LEMMA RowBornKeeps ==
  ASSUME ArchiveInv, NEW r \in Rows, RowBorn(r)
  PROVE  ArchiveInv'
  <1> USE DEF RowBorn
  <1>1. ArchiveTypeOK'
    BY ArchiveAssumption DEF ArchiveInv, ArchiveTypeOK, PassTypeOK
  <1>2. (CommitOK /\ NamesDiffer /\ UnlinkOK /\ ListedOK)'
    BY DEF ArchiveInv, CommitOK, NamesDiffer, UnlinkOK, Handling, ListedOK
  <1>3. RowsAreKept'
    <2>1. \A x \in born : x \in DOMAIN hot' \/ Kept(x)'
      BY DEF ArchiveInv, RowsAreKept, Kept
    <2> QED
      BY <2>1 DEF RowsAreKept
  <1> QED
    BY <1>1, <1>2, <1>3 DEF ArchiveInv

\* Reading what is old enough, reading what has expired, and dying only change
\* the run itself, and never to "commit".
LEMMA ReadingKeeps ==
  ASSUME ArchiveInv, NEW p \in Runs, HotRows(p) \/ ExpiredMetas(p) \/ PassDies(p)
  PROVE  ArchiveInv'
  <1>1. UNCHANGED <<hot, born, disk, ledger>>
    BY DEF HotRows, ExpiredMetas, PassDies
  <1>2. PICK run \in RunRecord :
          /\ pass' = [pass EXCEPT ![p] = run]
          /\ run.pc # "commit" /\ run.gone = {}
          /\ \A f \in run.left : ledger[f].note = "hot_90d" /\ ledger[f].age >= KeepWindow
    <2>1. CASE HotRows(p)
      <3> DEFINE due == {r \in DOMAIN hot : hot[r] >= HotWindow}
      <3>1. due \subseteq Rows
        BY DEF ArchiveInv, ArchiveTypeOK
      <3> DEFINE run == [NoRun EXCEPT !.pc = IF due = {} THEN "expired" ELSE "write", !.rows = due]
      <3>2. run \in RunRecord /\ run.pc # "commit" /\ run.gone = {} /\ run.left = {}
        BY <3>1 DEF NoRun, RunRecord
      <3> QED
        BY <2>1, <3>2 DEF HotRows
    <2>2. CASE ExpiredMetas(p)
      <3> DEFINE files == {f \in Files : ledger[f].note = "hot_90d" /\ ledger[f].age >= KeepWindow}
                 run == [NoRun EXCEPT !.pc = IF files = {} THEN "idle" ELSE "unlink", !.left = files]
      <3>1. run \in RunRecord /\ run.pc # "commit" /\ run.gone = {} /\ run.left = files
        BY DEF NoRun, RunRecord
      <3> QED
        BY <2>2, <3>1 DEF ExpiredMetas
    <2>3. CASE PassDies(p)
      BY <2>3, NoRunTyped DEF PassDies, NoRun
    <2> QED
      BY <2>1, <2>2, <2>3
  <1>3. pass \in [Runs -> RunRecord]
    BY PassTyped DEF ArchiveInv, ArchiveTypeOK
  <1>4. PassTypeOK'
    BY <1>2, <1>3 DEF PassTypeOK, RunRecord
  <1>5. ArchiveTypeOK'
    BY <1>1, <1>4 DEF ArchiveInv, ArchiveTypeOK
  <1>6. /\ pass'[p] = run
        /\ \A q \in Runs \ {p} : pass'[q] = pass[q]
    BY <1>2, <1>3
  <1>7. (CommitOK /\ NamesDiffer)'
    BY <1>1, <1>2, <1>6 DEF ArchiveInv, CommitOK, NamesDiffer
  <1>8. UnlinkOK'
    <2>1. ASSUME NEW f \in Files PROVE ledger[f].age \in 0..KeepWindow
      BY DEF ArchiveInv, ArchiveTypeOK
    <2>2. \A f \in run.left : f \in Files /\ ledger[f].note # "absent" /\ ledger[f].age = KeepWindow
      BY <1>2, <2>1, ArchiveAssumption DEF RunRecord
    <2> QED
      BY <1>1, <1>2, <1>6, <2>2 DEF ArchiveInv, UnlinkOK, Handling
  <1>9. (ListedOK /\ RowsAreKept)'
    BY <1>1 DEF ArchiveInv, ListedOK, RowsAreKept, Kept
  <1> QED
    BY <1>5, <1>7, <1>8, <1>9 DEF ArchiveInv

\* The file that is written, wholly or not, is one the ledger does not name.
LEMMA WriteKeeps ==
  ASSUME ArchiveInv, NEW p \in Runs, NEW f \in Files, WriteArchive(p, f)
  PROVE  ArchiveInv'
  <1>1. /\ ledger[f] = Unlisted /\ \A q \in Runs : pass[q].file # f
        /\ UNCHANGED <<hot, born, ledger>>
    BY DEF WriteArchive
  <1>2. pass \in [Runs -> RunRecord] /\ disk \in [Files -> (SUBSET Rows) \cup {NoFile}]
    BY PassTyped DEF ArchiveInv, ArchiveTypeOK
  <1>3. PICK content \in SUBSET Rows, run \in RunRecord :
          /\ disk' = [disk EXCEPT ![f] = content]
          /\ pass' = [pass EXCEPT ![p] = run]
          /\ run.pc = "commit" => run.file = f /\ content = run.rows
          /\ run.left \subseteq pass[p].left /\ run.gone \subseteq pass[p].gone
    <2>1. pass[p] \in RunRecord
      BY <1>2
    <2>2. CASE disk' = [disk EXCEPT ![f] = pass[p].rows] /\ pass' = [pass EXCEPT ![p].pc = "commit", ![p].file = f]
      <3> DEFINE run == [pass[p] EXCEPT !.pc = "commit", !.file = f]
      <3>1. run \in RunRecord /\ run.file = f /\ run.rows = pass[p].rows
            /\ run.left = pass[p].left /\ run.gone = pass[p].gone
        BY <2>1 DEF RunRecord
      <3>2. pass' = [pass EXCEPT ![p] = run]
        BY <2>2, <1>2, <2>1 DEF RunRecord
      <3>3. pass[p].rows \in SUBSET Rows
        BY <2>1 DEF RunRecord
      <3> QED
        BY <2>2, <3>1, <3>2, <3>3
    <2>3. CASE /\ \E part \in SUBSET pass[p].rows : disk' = [disk EXCEPT ![f] = part]
               /\ pass' = [pass EXCEPT ![p] = NoRun]
      <3>1. pass[p].rows \in SUBSET Rows
        BY <2>1 DEF RunRecord
      <3> QED
        BY <2>3, <3>1, NoRunTyped DEF NoRun
    <2> QED
      BY <2>2, <2>3 DEF WriteArchive
  <1>4. /\ pass'[p] = run /\ disk'[f] = content
        /\ \A q \in Runs \ {p} : pass'[q] = pass[q]
        /\ \A g \in Files \ {f} : disk'[g] = disk[g]
    BY <1>2, <1>3
  <1>5. ArchiveTypeOK'
    <2>1. PassTypeOK' /\ disk' \in [Files -> (SUBSET Rows) \cup {NoFile}]
      BY <1>2, <1>3 DEF PassTypeOK, RunRecord
    <2> QED
      BY <1>1, <2>1 DEF ArchiveInv, ArchiveTypeOK
  <1>6. CommitOK'
    <2>1. ASSUME NEW q \in Runs, q # p, pass[q].pc = "commit" PROVE pass[q].file \in Files \ {f}
      BY <1>1, <2>1 DEF ArchiveInv, CommitOK
    <2> QED
      BY <1>1, <1>3, <1>4, <2>1 DEF ArchiveInv, CommitOK
  <1>7. NamesDiffer'
    BY <1>1, <1>3, <1>4 DEF ArchiveInv, NamesDiffer
  <1>8. ledger[f].note = "absent"
    BY <1>1 DEF Unlisted
  <1>9. UnlinkOK'
    <2>1. \A q \in Runs : ~Handling(q, f)
      BY <1>8 DEF ArchiveInv, UnlinkOK
    <2> QED
      BY <1>1, <1>3, <1>4, <2>1 DEF ArchiveInv, UnlinkOK, Handling
  <1>10. ListedOK'
    BY <1>1, <1>4, <1>8 DEF ArchiveInv, ListedOK
  <1>11. RowsAreKept'
    <2>1. \A g \in Files : ledger[g].note # "absent" => disk'[g] = disk[g]
      BY <1>4, <1>8
    <2> QED
      BY <1>1, <2>1, KeptStays DEF ArchiveInv, RowsAreKept
  <1> QED
    BY <1>5, <1>6, <1>7, <1>9, <1>10, <1>11 DEF ArchiveInv

\* The rows that leave the table are in the file the ledger names from now on.
LEMMA CommitKeeps ==
  ASSUME ArchiveInv, NEW p \in Runs, CommitArchive(p)
  PROVE  ArchiveInv'
  <1> DEFINE file == pass[p].file
             row == [note |-> "hot_90d", rows |-> pass[p].rows, age |-> 0]
  <1>1. file \in Files /\ disk[file] = pass[p].rows /\ ledger[file] = Unlisted
    BY DEF CommitArchive, PassAt, ArchiveInv, CommitOK
  <1>2. /\ pass \in [Runs -> RunRecord]
        /\ ledger \in [Files -> [note : {"absent", "hot_90d", "deleted_after_1y"},
                                 rows : SUBSET Rows, age : 0..KeepWindow]]
    BY PassTyped DEF ArchiveInv, ArchiveTypeOK
  <1>3. pass[p].rows \in SUBSET Rows
    BY <1>2 DEF RunRecord
  <1>4. /\ ledger'[file] = row /\ \A g \in Files \ {file} : ledger'[g] = ledger[g]
        /\ UNCHANGED <<born, disk>>
    BY <1>1, <1>2 DEF CommitArchive
  <1>5. \A q \in Runs \ {p} : pass'[q] = pass[q]
    BY <1>2 DEF CommitArchive
  <1>6. /\ DOMAIN hot' = DOMAIN hot \ pass[p].rows
        /\ \A r \in DOMAIN hot' : hot'[r] = hot[r]
    BY DEF CommitArchive
  <1>7. ArchiveTypeOK'
    <2>1. row \in [note : {"absent", "hot_90d", "deleted_after_1y"},
                   rows : SUBSET Rows, age : 0..KeepWindow]
      BY <1>3, ArchiveAssumption
    <2>2. ledger' \in [Files -> [note : {"absent", "hot_90d", "deleted_after_1y"},
                                 rows : SUBSET Rows, age : 0..KeepWindow]]
      BY <1>2, <2>1 DEF CommitArchive
    <2>3. PassTypeOK'
      BY <1>2 DEF CommitArchive, PassTypeOK, RunRecord
    <2> QED
      BY <1>4, <1>6, <2>2, <2>3 DEF ArchiveInv, ArchiveTypeOK
  <1>8. pass'[p].pc = "expired" /\ pass'[p].left = pass[p].left /\ pass'[p].gone = pass[p].gone
    BY <1>2 DEF CommitArchive, RunRecord
  <1>9. CommitOK'
    <2>1. ASSUME NEW q \in Runs, q # p, pass[q].pc = "commit" PROVE pass[q].file \in Files \ {file}
      BY <2>1 DEF ArchiveInv, CommitOK, NamesDiffer, CommitArchive, PassAt
    <2> QED
      BY <1>4, <1>5, <1>8, <2>1 DEF ArchiveInv, CommitOK
  <1>10. NamesDiffer'
    BY <1>5, <1>8 DEF ArchiveInv, NamesDiffer
  <1>11. ledger[file].note = "absent"
    BY <1>1 DEF Unlisted
  <1>12. UnlinkOK'
    <2>1. \A q \in Runs : ~Handling(q, file)
      BY <1>1, <1>11 DEF ArchiveInv, UnlinkOK
    <2> QED
      BY <1>4, <1>5, <1>8, <2>1 DEF ArchiveInv, UnlinkOK, Handling
  <1>13. ListedOK'
    BY <1>1, <1>4 DEF ArchiveInv, ListedOK
  <1>14. RowsAreKept'
    <2>1. ASSUME NEW r \in pass[p].rows PROVE Kept(r)'
      <3>1. disk'[file] # NoFile /\ r \in disk'[file]
        BY <1>1, <1>3, <1>4, ArchiveAssumption
      <3> QED
        BY <1>1, <1>4, <3>1 DEF Kept
    <2>2. \A r : Kept(r) => Kept(r)'
      BY <1>4, <1>11, KeptStays
    <2> QED
      BY <1>4, <1>6, <2>1, <2>2 DEF ArchiveInv, RowsAreKept
  <1> QED
    BY <1>7, <1>9, <1>10, <1>12, <1>13, <1>14 DEF ArchiveInv

\* What is unlinked is listed and over its time, so it is nobody's new file.
LEMMA UnlinkKeeps ==
  ASSUME ArchiveInv, NEW p \in Runs, Unlink(p)
  PROVE  ArchiveInv'
  <1>1. PICK f \in pass[p].left :
          /\ disk' = [disk EXCEPT ![f] = NoFile]
          /\ pass' = [pass EXCEPT ![p].left = @ \ {f}, ![p].gone = @ \cup {f}]
          /\ UNCHANGED <<hot, born, ledger>>
    BY DEF Unlink
  <1>2. pass \in [Runs -> RunRecord] /\ disk \in [Files -> (SUBSET Rows) \cup {NoFile}]
    BY PassTyped DEF ArchiveInv, ArchiveTypeOK
  <1>3. f \in Files /\ pass[p] \in RunRecord
    BY <1>2 DEF RunRecord
  <1>4. ledger[f].note # "absent" /\ ledger[f].age = KeepWindow
    BY <1>1, <1>3 DEF ArchiveInv, UnlinkOK, Handling
  <1>5. /\ disk'[f] = NoFile /\ \A g \in Files \ {f} : disk'[g] = disk[g]
        /\ \A q \in Runs \ {p} : pass'[q] = pass[q]
    BY <1>1, <1>2, <1>3
  <1>6. /\ pass'[p].pc = pass[p].pc /\ pass'[p].file = pass[p].file /\ pass'[p].rows = pass[p].rows
        /\ pass'[p].left = pass[p].left \ {f} /\ pass'[p].gone = pass[p].gone \cup {f}
        /\ pass'[p] \in RunRecord
    <2> DEFINE run == [pass[p] EXCEPT !.left = @ \ {f}, !.gone = @ \cup {f}]
    <2>1. pass'[p] = run
      BY <1>1, <1>2
    <2>2. /\ run.pc = pass[p].pc /\ run.file = pass[p].file /\ run.rows = pass[p].rows
          /\ run.left = pass[p].left \ {f} /\ run.gone = pass[p].gone \cup {f}
      BY <1>3 DEF RunRecord
    <2>3. run \in RunRecord
      BY <1>3 DEF RunRecord
    <2> QED
      BY <2>1, <2>2, <2>3
  <1>7. ArchiveTypeOK'
    <2>1. PassTypeOK'
      BY <1>1, <1>2, <1>6 DEF PassTypeOK, RunRecord
    <2> QED
      BY <1>1, <1>2, <2>1 DEF ArchiveInv, ArchiveTypeOK
  <1>8. (CommitOK /\ NamesDiffer)'
    <2>1. \A q \in Runs : pass[q].pc = "commit" => pass[q].file \in Files \ {f}
      BY <1>4 DEF ArchiveInv, CommitOK, Unlisted
    <2>2. \A q \in Runs : /\ pass'[q].pc = pass[q].pc /\ pass'[q].file = pass[q].file
                          /\ pass'[q].rows = pass[q].rows
      BY <1>5, <1>6
    <2>3. CommitOK'
      <3>1. \A q \in Runs : pass[q].pc = "commit" =>
              /\ disk'[pass[q].file] = pass[q].rows
              /\ ledger'[pass[q].file] = Unlisted
        BY <1>1, <1>5, <2>1 DEF ArchiveInv, CommitOK
      <3> QED
        BY <2>1, <2>2, <3>1 DEF CommitOK
    <2>4. NamesDiffer'
      BY <2>2 DEF ArchiveInv, NamesDiffer
    <2> QED
      BY <2>3, <2>4
  <1>9. UnlinkOK'
    <2>1. ASSUME NEW q \in Runs, NEW g \in Files
          PROVE  /\ Handling(q, g)' => Handling(q, g) \/ g = f
                 /\ g \in pass'[q].gone => g \in pass[q].gone \/ g = f
      BY <1>3, <1>5, <1>6 DEF Handling
    <2> QED
      BY <1>1, <1>4, <1>5, <2>1 DEF ArchiveInv, UnlinkOK
  <1>10. ListedOK'
    BY <1>1, <1>4, <1>5 DEF ArchiveInv, ListedOK
  <1>11. RowsAreKept'
    <2>1. \A r : Kept(r) => Kept(r)'
      BY <1>1, <1>4, <1>5, KeptStays
    <2> QED
      BY <1>1, <2>1 DEF ArchiveInv, RowsAreKept
  <1> QED
    BY <1>7, <1>8, <1>9, <1>10, <1>11 DEF ArchiveInv

\* The notes change only of files that are gone.
LEMMA NotesKeep ==
  ASSUME ArchiveInv, NEW p \in Runs, CommitNotes(p)
  PROVE  ArchiveInv'
  <1> DEFINE Entry == [note : {"absent", "hot_90d", "deleted_after_1y"},
                       rows : SUBSET Rows, age : 0..KeepWindow]
  <1>1. pass \in [Runs -> RunRecord] /\ ledger \in [Files -> Entry]
    BY PassTyped DEF ArchiveInv, ArchiveTypeOK
  <1>2. UNCHANGED <<hot, born, disk>> /\ pass' = [pass EXCEPT ![p] = NoRun]
    BY DEF CommitNotes
  <1>3. \A q \in Runs \ {p} : pass'[q] = pass[q]
    BY <1>1, <1>2
  <1>4. pass'[p] = NoRun
    BY <1>1, <1>2
  <1>5. ASSUME NEW f \in Files
        PROVE  /\ ledger'[f] \in Entry
               /\ ledger'[f].rows = ledger[f].rows /\ ledger'[f].age = ledger[f].age
               /\ f \in pass[p].gone => ledger'[f].note = "deleted_after_1y"
               /\ f \notin pass[p].gone => ledger'[f] = ledger[f]
    BY <1>1 DEF CommitNotes
  <1>6. \A f \in Files : f \in pass[p].gone => ledger[f].note # "absent" /\ disk[f] = NoFile
    BY DEF ArchiveInv, UnlinkOK, Handling
  <1>7. ArchiveTypeOK'
    <2>1. PassTypeOK'
      BY <1>1, <1>2, NoRunTyped DEF PassTypeOK, RunRecord
    <2>2. ledger' \in [Files -> Entry]
      BY <1>5 DEF CommitNotes
    <2> QED
      BY <1>2, <2>1, <2>2 DEF ArchiveInv, ArchiveTypeOK
  <1>8. CommitOK'
    <2>1. \A q \in Runs : pass[q].pc = "commit" => pass[q].file \in Files /\ pass[q].file \notin pass[p].gone
      BY <1>6 DEF ArchiveInv, CommitOK, Unlisted
    <2> QED
      BY <1>2, <1>3, <1>4, <1>5, <2>1 DEF ArchiveInv, CommitOK, NoRun
  <1>9. NamesDiffer'
    BY <1>3, <1>4 DEF ArchiveInv, NamesDiffer, NoRun
  <1>10. UnlinkOK'
    BY <1>2, <1>3, <1>4, <1>5 DEF ArchiveInv, UnlinkOK, Handling, NoRun
  <1>11. ListedOK'
    BY <1>2, <1>5, <1>6 DEF ArchiveInv, ListedOK
  <1>12. RowsAreKept'
    <2>1. \A r : Kept(r) => Kept(r)'
      BY <1>2, <1>5, KeptStays
    <2> QED
      BY <1>2, <2>1 DEF ArchiveInv, RowsAreKept
  <1> QED
    BY <1>7, <1>8, <1>9, <1>10, <1>11, <1>12 DEF ArchiveInv

\* Time only brings the listed files closer to their end.
LEMMA TickKeeps ==
  ASSUME ArchiveInv, ArchiveTick
  PROVE  ArchiveInv'
  <1> DEFINE Entry == [note : {"absent", "hot_90d", "deleted_after_1y"},
                       rows : SUBSET Rows, age : 0..KeepWindow]
  <1>1. ledger \in [Files -> Entry] /\ UNCHANGED <<born, disk, pass>>
    BY DEF ArchiveInv, ArchiveTypeOK, ArchiveTick
  <1>2. ASSUME NEW f \in Files
        PROVE  /\ ledger'[f] \in Entry
               /\ ledger'[f].note = ledger[f].note /\ ledger'[f].rows = ledger[f].rows
               /\ ledger[f] = Unlisted => ledger'[f] = Unlisted
               /\ ledger[f].age = KeepWindow => ledger'[f].age = KeepWindow
    BY <1>1, ArchiveAssumption DEF ArchiveTick
  <1>3. DOMAIN hot' = DOMAIN hot /\ \A r \in DOMAIN hot' : hot'[r] \in 0..HotWindow
    BY ArchiveAssumption DEF ArchiveInv, ArchiveTypeOK, ArchiveTick
  <1>4. ArchiveTypeOK'
    <2>1. ledger' \in [Files -> Entry]
      BY <1>2 DEF ArchiveTick
    <2> QED
      BY <1>1, <1>3, <2>1 DEF ArchiveInv, ArchiveTypeOK, PassTypeOK
  <1>5. (CommitOK /\ NamesDiffer)'
    BY <1>1, <1>2 DEF ArchiveInv, CommitOK, NamesDiffer
  <1>6. (UnlinkOK /\ ListedOK)'
    BY <1>1, <1>2 DEF ArchiveInv, UnlinkOK, Handling, ListedOK
  <1>7. RowsAreKept'
    <2>1. \A r : Kept(r) => Kept(r)'
      BY <1>1, <1>2, KeptStays
    <2> QED
      BY <1>1, <1>3, <2>1 DEF ArchiveInv, RowsAreKept
  <1> QED
    BY <1>4, <1>5, <1>6, <1>7 DEF ArchiveInv

\* One case per action of the lifecycle.
LEMMA ArchiveKeeps ==
  ASSUME ArchiveInv, [ArchiveNext]_archiveVars
  PROVE  ArchiveInv'
  <1>1. CASE \E r \in Rows : RowBorn(r)
    BY <1>1, RowBornKeeps
  <1>2. CASE \E p \in Runs : HotRows(p) \/ ExpiredMetas(p) \/ PassDies(p)
    BY <1>2, ReadingKeeps
  <1>3. CASE \E p \in Runs : \E f \in Files : WriteArchive(p, f)
    BY <1>3, WriteKeeps
  <1>4. CASE \E p \in Runs : CommitArchive(p)
    BY <1>4, CommitKeeps
  <1>5. CASE \E p \in Runs : Unlink(p)
    BY <1>5, UnlinkKeeps
  <1>6. CASE \E p \in Runs : CommitNotes(p)
    BY <1>6, NotesKeep
  <1>7. CASE ArchiveTick
    BY <1>7, TickKeeps
  <1>8. CASE UNCHANGED archiveVars
    BY <1>8 DEF archiveVars, ArchiveInv, ArchiveTypeOK, PassTypeOK, CommitOK, NamesDiffer,
                UnlinkOK, Handling, ListedOK, RowsAreKept, Kept
  <1> QED
    BY <1>1, <1>2, <1>3, <1>4, <1>5, <1>6, <1>7, <1>8 DEF ArchiveNext, RunLifecycle

\* A file that is missing cannot hold the rows the ledger says.
LEMMA InvIsEnough == ArchiveInv => ArchiveHolds
  <1> SUFFICES ASSUME ArchiveInv, NEW f \in Files, ledger[f].note = "hot_90d", disk[f] = NoFile
               PROVE  ledger[f].age = KeepWindow
    BY DEF ArchiveInv, ArchiveHolds, LedgerIsHonest, ListedOK
  <1>1. ledger[f].rows \in SUBSET Rows
    BY DEF ArchiveInv, ArchiveTypeOK
  <1> QED
    BY <1>1, ArchiveAssumption DEF ArchiveInv, ListedOK

\* Wherever runs of audit_lifecycle overlap or die, no audit row is lost before its
\* time, the ledger calls a file deleted only when it is gone, and a file it names
\* is missing only when its retention is over.
THEOREM AuditKept == ArchiveSpec => []ArchiveHolds
  <1>1. ArchiveInit => ArchiveInv
    BY ArchiveStarts
  <1>2. ArchiveInv /\ [ArchiveNext]_archiveVars => ArchiveInv'
    BY ArchiveKeeps
  <1>3. ArchiveInv => ArchiveHolds
    BY InvIsEnough
  <1> QED
    BY <1>1, <1>2, <1>3, PTL DEF ArchiveSpec

-----------------------------------------------------------------------------
(* The caches of the read side.                                             *)

ReaderRecord ==
  [pc : {"idle", "lock", "admit", "fetch", "save", "release", "source", "put"},
   asked : 0..MaxFetch, read : 0..MaxFetch, since : 0..MaxFetch]

\* A page was read, and the mutex taken, within the time of the handler.
InTime(run) == run.read <= run.asked /\ run.since <= run.asked

\* The page of a blob was read after the moment its fetched_at names.
BlobOK ==
  /\ blob \in [fetched : Ages, read : Ages]
  /\ blob.fetched = Never <=> blob.read = Never
  /\ blob.fetched # Never => blob.read <= blob.fetched

\* A value is as old as the reader was slow, and older by what its key has lived.
KeyOK ==
  /\ key \in [read : Ages, ttl : 0..KeyTtl]
  /\ key.read = Never <=> key.ttl = 0
  /\ key.read # Never => key.read + key.ttl <= KeyTtl + MaxFetch

\* As long as no refresh outlived its mutex, the refresh under way holds it, and
\* has read its page after the one that is cached.
MutexOK ==
  ~over =>
    /\ \A r \in Refreshing : reader[r].since < MutexTtl /\ mutex + reader[r].since = MutexTtl
    /\ \A r, q \in Refreshing : r = q
    /\ \A r \in Readers : At(r, "save") /\ blob.read # Never => reader[r].read <= blob.read

\* ServedIsRecent follows from BlobOK and KeyOK, which need InTime; the two action
\* properties follow from MutexOK.
CacheInv ==
  /\ mutex \in 0..MutexTtl /\ over \in BOOLEAN
  /\ reader \in [Readers -> ReaderRecord] /\ \A r \in Readers : InTime(reader[r])
  /\ BlobOK /\ KeyOK /\ MutexOK

LEMMA CacheNumbers ==
  /\ Freshness \in Nat /\ Freshness > 0 /\ MutexTtl \in Nat /\ MutexTtl > 0
  /\ KeyTtl \in Nat /\ KeyTtl > 0 /\ MaxFetch \in Nat /\ Never \notin Nat
  /\ Oldest = Freshness + KeyTtl + MaxFetch /\ Oldest \in Nat
  /\ Ages = 0..Oldest \cup {Never}
  BY CacheAssumption DEF Oldest, Ages

LEMMA NoReaderTyped == NoReader \in ReaderRecord /\ InTime(NoReader)
  BY CacheNumbers DEF NoReader, ReaderRecord, InTime

LEMMA AgedTyped ==
  ASSUME NEW a \in Ages
  PROVE  /\ Aged(a) \in Ages /\ (Aged(a) = Never <=> a = Never)
         /\ a # Never => /\ a \in Nat /\ Aged(a) \in Nat /\ a <= Aged(a) /\ Aged(a) <= a + 1
                         /\ Aged(a) = a => a = Oldest
  BY CacheNumbers DEF Aged

\* A handler whose clock of reading, or of the mutex, begins.
LEMMA ClockBegins ==
  ASSUME NEW x \in ReaderRecord, InTime(x), NEW pc \in {"admit", "save", "put"}
  PROVE  /\ LET y == [x EXCEPT !.pc = pc, !.read = 0]
            IN y \in ReaderRecord /\ InTime(y) /\ y.pc = pc /\ y.read = 0 /\ y.since = x.since
         /\ LET y == [x EXCEPT !.pc = pc, !.since = 0]
            IN y \in ReaderRecord /\ InTime(y) /\ y.pc = pc /\ y.since = 0
  <1>1. 0 \in 0..MaxFetch /\ \A n \in 0..MaxFetch : 0 <= n
    BY CacheNumbers
  <1> DEFINE z == [x EXCEPT !.pc = pc]
             y == [z EXCEPT !.read = 0]
             w == [z EXCEPT !.since = 0]
  <1>2. /\ z \in ReaderRecord /\ z.pc = pc /\ z.asked = x.asked
        /\ z.read = x.read /\ z.since = x.since
    BY DEF ReaderRecord
  <1> HIDE DEF z
  <1>3. y \in ReaderRecord /\ y.pc = pc /\ y.asked = x.asked /\ y.read = 0 /\ y.since = x.since
    BY <1>1, <1>2 DEF ReaderRecord
  <1>4. w \in ReaderRecord /\ w.pc = pc /\ w.asked = x.asked /\ w.read = x.read /\ w.since = 0
    BY <1>1, <1>2 DEF ReaderRecord
  <1>5. x.asked \in 0..MaxFetch
    BY DEF ReaderRecord
  <1>6. InTime(y) /\ InTime(w)
    BY <1>1, <1>3, <1>4, <1>5 DEF InTime
  <1>7. /\ y = [x EXCEPT !.pc = pc, !.read = 0]
        /\ w = [x EXCEPT !.pc = pc, !.since = 0]
    BY DEF z
  <1> QED
    BY <1>3, <1>4, <1>6, <1>7

\* One handler moves and leaves the mutex and the blob alone.
LEMMA ReaderMoves ==
  ASSUME CacheInv, NEW r \in Readers, NEW run \in ReaderRecord, InTime(run),
         reader' = [reader EXCEPT ![r] = run],
         UNCHANGED <<mutex, over, blob>>, KeyOK',
         run.pc \in {"admit", "fetch", "save", "release"} =>
           r \in Refreshing /\ run.since = reader[r].since,
         run.pc = "save" => run.read = 0
  PROVE  CacheInv'
  <1>1. \A q \in Readers : reader'[q] = IF q = r THEN run ELSE reader[q]
    BY DEF CacheInv
  <1>2. reader' \in [Readers -> ReaderRecord] /\ \A q \in Readers : InTime(reader'[q])
    BY <1>1 DEF CacheInv
  <1>3. Refreshing' \subseteq Refreshing /\ \A q \in Refreshing' : reader'[q].since = reader[q].since
    BY <1>1 DEF Refreshing
  <1>4. ASSUME NEW q \in Readers, reader'[q].pc = "save", blob.read # Never
        PROVE  reader'[q].read <= blob.read \/ (q # r /\ reader'[q] = reader[q])
    <2>1. q # r => reader'[q] = reader[q]
      BY <1>1
    <2>2. blob.read \in Nat
      BY <1>4, CacheNumbers DEF CacheInv, BlobOK
    <2>3. q = r => reader'[q].read <= blob.read
      BY <1>1, <1>4, <2>2
    <2> QED
      BY <2>1, <2>3
  <1>5. MutexOK'
    BY <1>3, <1>4 DEF CacheInv, MutexOK, At
  <1>6. BlobOK' /\ mutex' \in 0..MutexTtl /\ over' \in BOOLEAN
    BY DEF CacheInv, BlobOK, Ages
  <1> QED
    BY <1>2, <1>5, <1>6 DEF CacheInv

\* The moves of a handler that neither take nor leave the mutex.
LEMMA QuietReads ==
  ASSUME CacheInv, NEW r \in Readers,
         LoadCached(r) \/ GiveUpRefresh(r) \/ AdmitRefresh(r) \/ FetchFrontPage(r)
           \/ ReadThrough(r) \/ ReaderDies(r) \/ (AcquireRefreshLock(r) /\ mutex # 0)
  PROVE  CacheInv'
  <1>1. /\ reader[r] \in ReaderRecord /\ InTime(reader[r]) /\ KeyOK
        /\ \A run : run = reader[r] => reader = [reader EXCEPT ![r] = run]
    BY DEF CacheInv
  <1> DEFINE Moved(run) == run \in ReaderRecord /\ InTime(run) /\ reader' = [reader EXCEPT ![r] = run]
             To(pc) == [reader[r] EXCEPT !.pc = pc]
  <1>2. ASSUME NEW pc \in {"idle", "lock", "admit", "fetch", "save", "release", "source", "put"},
               Turn(r, pc)
        PROVE  Moved(To(pc)) /\ To(pc).pc = pc /\ To(pc).since = reader[r].since
    <2>1. To(pc) \in ReaderRecord /\ InTime(To(pc))
      BY <1>1 DEF ReaderRecord, InTime
    <2>2. reader' = [reader EXCEPT ![r] = To(pc)]
      BY <1>2 DEF Turn
    <2> QED
      BY <1>1, <2>1, <2>2 DEF ReaderRecord
  <1>3. Done(r) => Moved(NoReader) /\ NoReader.pc = "idle"
    BY NoReaderTyped DEF Done, NoReader
  <1> HIDE DEF To
  <1>4. CASE LoadCached(r)
    <2>1. UNCHANGED <<blob, mutex, key, over>> /\ reader[r].pc = "idle"
      BY <1>4 DEF LoadCached, At
    <2>2. CASE UNCHANGED reader
      <3>1. KeyOK' /\ Moved(reader[r])
        BY <1>1, <2>1, <2>2 DEF KeyOK
      <3> QED
        BY <2>1, <3>1, ReaderMoves
    <2>3. CASE Turn(r, "lock")
      <3>1. KeyOK' /\ Moved(To("lock")) /\ To("lock").pc = "lock"
        BY <1>1, <1>2, <2>1, <2>3 DEF KeyOK
      <3> QED
        BY <2>1, <3>1, ReaderMoves
    <2> QED
      BY <1>4, <2>2, <2>3 DEF LoadCached
  <1>5. CASE AcquireRefreshLock(r) /\ mutex # 0
    <2>1. UNCHANGED <<blob, mutex, key, over>> /\ Done(r)
      BY <1>5 DEF AcquireRefreshLock
    <2>2. KeyOK'
      BY <1>1, <2>1 DEF KeyOK
    <2> QED
      BY <1>3, <2>1, <2>2, ReaderMoves
  <1>6. CASE GiveUpRefresh(r) \/ AdmitRefresh(r)
    <2>1. UNCHANGED <<blob, mutex, key, over>> /\ r \in Refreshing
      BY <1>6 DEF GiveUpRefresh, AdmitRefresh, At, Refreshing
    <2>2. KeyOK'
      BY <1>1, <2>1 DEF KeyOK
    <2>3. PICK pc \in {"release", "fetch"} : Turn(r, pc)
      BY <1>6 DEF GiveUpRefresh, AdmitRefresh
    <2>4. Moved(To(pc)) /\ To(pc).pc # "save" /\ To(pc).since = reader[r].since
      BY <1>2, <2>3
    <2> QED
      BY <2>1, <2>2, <2>4, ReaderMoves
  <1>7. CASE FetchFrontPage(r)
    <2> DEFINE run == [reader[r] EXCEPT !.pc = "save", !.read = 0]
    <2>1. UNCHANGED <<blob, mutex, key, over>> /\ r \in Refreshing /\ reader' = [reader EXCEPT ![r] = run]
      BY <1>7 DEF FetchFrontPage, At, Refreshing
    <2>2. KeyOK'
      BY <1>1, <2>1 DEF KeyOK
    <2>3. run \in ReaderRecord /\ InTime(run) /\ run.since = reader[r].since /\ run.read = 0
      BY <1>1, ClockBegins
    <2> HIDE DEF run
    <2> QED
      BY <2>1, <2>2, <2>3, ReaderMoves
  <1>8. CASE LookUp(r)
    <2>1. UNCHANGED <<blob, mutex, key, over>>
      BY <1>8 DEF LookUp
    <2>2. KeyOK'
      BY <1>1, <2>1 DEF KeyOK
    <2>3. CASE UNCHANGED reader
      <3>1. Moved(reader[r]) /\ reader[r].pc = "idle"
        BY <1>1, <1>8, <2>3 DEF LookUp, At
      <3> QED
        BY <2>1, <2>2, <3>1, ReaderMoves
    <2>4. CASE Turn(r, "source")
      <3>1. Moved(To("source")) /\ To("source").pc = "source"
        BY <1>2, <2>4
      <3> QED
        BY <2>1, <2>2, <3>1, ReaderMoves
    <2> QED
      BY <1>8, <2>3, <2>4 DEF LookUp
  <1>9. CASE ReadSource(r)
    <2> DEFINE run == [reader[r] EXCEPT !.pc = "put", !.read = 0]
    <2>1. UNCHANGED <<blob, mutex, key, over>>
      BY <1>9 DEF ReadSource
    <2>2. KeyOK'
      BY <1>1, <2>1 DEF KeyOK
    <2>3. run \in ReaderRecord /\ InTime(run) /\ run.pc = "put"
      BY <1>1, ClockBegins
    <2>4. reader' = [reader EXCEPT ![r] = run] \/ Done(r)
      BY <1>9 DEF ReadSource
    <2> HIDE DEF run
    <2> QED
      BY <1>3, <2>1, <2>2, <2>3, <2>4, ReaderMoves
  <1>10. CASE PutKey(r)
    <2>1. UNCHANGED <<blob, mutex, over>> /\ Done(r)
          /\ (key' = [read |-> reader[r].read, ttl |-> KeyTtl] \/ UNCHANGED key)
      BY <1>10 DEF PutKey
    <2>2. reader[r].read \in 0..MaxFetch
      BY <1>1 DEF ReaderRecord
    <2>3. KeyOK'
      BY <1>1, <2>1, <2>2, CacheNumbers DEF KeyOK
    <2> QED
      BY <1>3, <2>1, <2>3, ReaderMoves
  <1>11. CASE ReaderDies(r)
    <2>1. UNCHANGED <<blob, mutex, key, over>> /\ Done(r)
      BY <1>11 DEF ReaderDies
    <2>2. KeyOK'
      BY <1>1, <2>1 DEF KeyOK
    <2> QED
      BY <1>3, <2>1, <2>2, ReaderMoves
  <1> QED
    BY <1>4, <1>5, <1>6, <1>7, <1>8, <1>9, <1>10, <1>11 DEF ReadThrough

\* The mutex is taken while it is free, and then nobody else holds it.
LEMMA RefreshBegins ==
  ASSUME CacheInv, NEW r \in Readers, AcquireRefreshLock(r), mutex = 0
  PROVE  CacheInv'
  <1> DEFINE run == [reader[r] EXCEPT !.pc = "admit", !.since = 0]
  <1>1. /\ reader' = [reader EXCEPT ![r] = run] /\ mutex' = MutexTtl
        /\ UNCHANGED <<blob, key, over>>
    BY DEF AcquireRefreshLock
  <1>2. run \in ReaderRecord /\ InTime(run) /\ run.pc = "admit" /\ run.since = 0
    BY ClockBegins DEF CacheInv
  <1> HIDE DEF run
  <1>3. \A q \in Readers : reader'[q] = IF q = r THEN run ELSE reader[q]
    BY <1>1 DEF CacheInv
  <1>4. ~over => Refreshing = {}
    <2> SUFFICES ASSUME ~over, NEW q \in Refreshing PROVE FALSE
      OBVIOUS
    <2>1. reader[q].since < MutexTtl /\ 0 + reader[q].since = MutexTtl
      BY DEF CacheInv, MutexOK
    <2>2. reader[q].since \in Nat
      BY CacheNumbers DEF CacheInv, ReaderRecord, Refreshing
    <2> QED
      BY <2>1, <2>2, CacheNumbers
  <1>5. ~over => Refreshing' \subseteq {r}
    BY <1>3, <1>4 DEF Refreshing
  <1>6. MutexOK'
    <2> SUFFICES ASSUME ~over' PROVE MutexOK'
      BY DEF MutexOK
    <2>1. \A q \in Refreshing' : q = r
      BY <1>1, <1>5
    <2>2. \A q \in Refreshing' : reader'[q].since < MutexTtl /\ mutex' + reader'[q].since = MutexTtl
      BY <1>1, <1>2, <1>3, <2>1, CacheNumbers
    <2>3. \A q \in Readers : reader'[q].pc # "save"
      BY <1>2, <1>3, <2>1 DEF Refreshing
    <2> QED
      BY <2>1, <2>2, <2>3 DEF MutexOK, At
  <1>7. reader' \in [Readers -> ReaderRecord] /\ \A q \in Readers : InTime(reader'[q])
    BY <1>1, <1>2, <1>3 DEF CacheInv
  <1>8. BlobOK' /\ KeyOK' /\ mutex' \in 0..MutexTtl /\ over' \in BOOLEAN
    BY <1>1, CacheNumbers DEF CacheInv, BlobOK, KeyOK
  <1> QED
    BY <1>6, <1>7, <1>8 DEF CacheInv

\* What is stored was read within the time of the handler.
LEMMA RefreshSaves ==
  ASSUME CacheInv, NEW r \in Readers, SaveCached(r)
  PROVE  CacheInv' /\ (~over /\ blob.fetched # Never => blob'.read <= blob.read)
  <1> DEFINE run == [reader[r] EXCEPT !.pc = "release"]
  <1>1. /\ reader[r].pc = "save" /\ reader' = [reader EXCEPT ![r] = run]
        /\ blob' = [fetched |-> reader[r].asked, read |-> reader[r].read]
        /\ UNCHANGED <<mutex, key, over>>
    BY DEF SaveCached, At, Turn
  <1>2. reader[r] \in ReaderRecord /\ InTime(reader[r])
    BY DEF CacheInv
  <1>3. run \in ReaderRecord /\ InTime(run) /\ run.pc = "release" /\ run.since = reader[r].since
    BY <1>2 DEF ReaderRecord, InTime
  <1> HIDE DEF run
  <1>4. \A q \in Readers : reader'[q] = IF q = r THEN run ELSE reader[q]
    BY <1>1 DEF CacheInv
  <1>5. BlobOK'
    BY <1>1, <1>2, CacheNumbers DEF BlobOK, ReaderRecord, InTime
  <1>6. Refreshing' = Refreshing /\ r \in Refreshing
    BY <1>1, <1>3, <1>4 DEF Refreshing
  <1>7. \A q \in Readers : reader'[q].since = reader[q].since
    BY <1>3, <1>4
  <1>8. ~over => \A q \in Readers : reader'[q].pc # "save"
    <2> SUFFICES ASSUME ~over, NEW q \in Readers, reader'[q].pc = "save" PROVE FALSE
      OBVIOUS
    <2>1. q # r
      BY <1>3, <1>4
    <2>2. q \in Refreshing
      BY <1>4, <2>1 DEF Refreshing
    <2> QED
      BY <1>6, <2>1, <2>2 DEF CacheInv, MutexOK
  <1>9. MutexOK'
    <2>1. \A q \in Refreshing' : q \in Readers /\ q \in Refreshing
      BY <1>6 DEF Refreshing
    <2> QED
      BY <1>1, <1>6, <1>7, <1>8, <2>1 DEF CacheInv, MutexOK, At
  <1>10. reader' \in [Readers -> ReaderRecord] /\ \A q \in Readers : InTime(reader'[q])
    BY <1>1, <1>3, <1>4 DEF CacheInv
  <1>11. KeyOK' /\ mutex' \in 0..MutexTtl /\ over' \in BOOLEAN
    BY <1>1 DEF CacheInv, KeyOK
  <1>12. ~over /\ blob.fetched # Never => blob'.read <= blob.read
    BY <1>1 DEF CacheInv, MutexOK, BlobOK, At
  <1> QED
    BY <1>5, <1>9, <1>10, <1>11, <1>12 DEF CacheInv

\* The mutex goes with the only handler that could have held it.
LEMMA RefreshEnds ==
  ASSUME CacheInv, NEW r \in Readers, ReleaseRefreshLock(r)
  PROVE  CacheInv'
  <1>1. /\ reader[r].pc = "release" /\ reader' = [reader EXCEPT ![r] = NoReader] /\ mutex' = 0
        /\ UNCHANGED <<blob, key, over>>
    BY DEF ReleaseRefreshLock, At, Done
  <1>2. \A q \in Readers : reader'[q] = IF q = r THEN NoReader ELSE reader[q]
    BY <1>1 DEF CacheInv
  <1>3. r \in Refreshing /\ r \notin Refreshing' /\ Refreshing' \subseteq Refreshing
    BY <1>1, <1>2 DEF Refreshing, NoReader
  <1>4. ~over => Refreshing' = {}
    BY <1>3 DEF CacheInv, MutexOK
  <1>5. ~over => \A q \in Readers : reader'[q].pc # "save"
    BY <1>4 DEF Refreshing
  <1>6. MutexOK'
    BY <1>1, <1>4, <1>5 DEF MutexOK, At
  <1>7. reader' \in [Readers -> ReaderRecord] /\ \A q \in Readers : InTime(reader'[q])
    BY <1>1, <1>2, NoReaderTyped DEF CacheInv
  <1>8. BlobOK' /\ KeyOK' /\ mutex' \in 0..MutexTtl /\ over' \in BOOLEAN
    BY <1>1, CacheNumbers DEF CacheInv, BlobOK, KeyOK
  <1> QED
    BY <1>6, <1>7, <1>8 DEF CacheInv

\* Everything ages at once: what the mutex loses, the refresh under way gains.
LEMMA CachesAge ==
  ASSUME CacheInv, CacheTick
  PROVE  CacheInv' /\ (blob.fetched # Never => blob'.read <= blob.read + 1)
  <1>1. /\ \A r \in Readers : reader[r].asked < MaxFetch
        /\ mutex' = (IF mutex = 0 THEN 0 ELSE mutex - 1)
        /\ blob' = [fetched |-> Aged(blob.fetched), read |-> Aged(blob.read)]
        /\ key' = IF key.ttl > 1 THEN [read |-> Aged(key.read), ttl |-> key.ttl - 1]
                                 ELSE [read |-> Never, ttl |-> 0]
    BY DEF CacheTick
  <1>2. \A r \in Readers : reader[r] \in ReaderRecord /\ InTime(reader[r])
    BY DEF CacheInv
  <1>3. ASSUME NEW r \in Readers
        PROVE  /\ reader'[r] \in ReaderRecord /\ InTime(reader'[r]) /\ reader'[r].pc = reader[r].pc
               /\ reader[r].pc = "save" => reader'[r].read = reader[r].read + 1
               /\ r \in Refreshing => reader'[r].since = reader[r].since + 1
    <2>1. CASE At(r, "idle")
      <3>1. reader'[r] = reader[r]
        BY <2>1 DEF CacheTick
      <3> QED
        BY <1>2, <2>1, <3>1 DEF At, Refreshing
    <2>2. CASE ~At(r, "idle")
      <3> DEFINE read == IF reader[r].pc \in {"save", "put"} THEN reader[r].read + 1 ELSE 0
                 since == IF r \in Refreshing THEN reader[r].since + 1 ELSE 0
                 one == [reader[r] EXCEPT !.asked = reader[r].asked + 1]
                 two == [one EXCEPT !.read = read]
                 three == [two EXCEPT !.since = since]
      <3>1. reader'[r] = three
        BY <2>2 DEF CacheTick
      <3>2. /\ reader[r].asked \in 0..MaxFetch /\ reader[r].read \in 0..MaxFetch
            /\ reader[r].since \in 0..MaxFetch
        BY <1>2 DEF ReaderRecord
      <3>3. reader[r].asked + 1 \in 0..MaxFetch /\ read \in 0..MaxFetch /\ since \in 0..MaxFetch
            /\ read <= reader[r].asked + 1 /\ since <= reader[r].asked + 1
        BY <1>1, <1>2, <3>2, CacheNumbers DEF InTime
      <3>4. /\ reader[r].pc = "save" => read = reader[r].read + 1
            /\ r \in Refreshing => since = reader[r].since + 1
        OBVIOUS
      <3> HIDE DEF read, since
      <3>5. one \in ReaderRecord /\ one.pc = reader[r].pc /\ one.asked = reader[r].asked + 1
        BY <1>2, <3>3 DEF ReaderRecord
      <3> HIDE DEF one
      <3>6. two \in ReaderRecord /\ two.pc = reader[r].pc /\ two.asked = reader[r].asked + 1
            /\ two.read = read
        BY <3>3, <3>5 DEF ReaderRecord
      <3> HIDE DEF two
      <3>7. three \in ReaderRecord /\ three.pc = reader[r].pc /\ three.asked = reader[r].asked + 1
            /\ three.read = read /\ three.since = since
        BY <3>3, <3>6 DEF ReaderRecord
      <3> HIDE DEF three
      <3> QED
        BY <3>1, <3>3, <3>4, <3>7 DEF InTime
    <2> QED
      BY <2>1, <2>2
  <1>4. reader' \in [Readers -> ReaderRecord] /\ \A r \in Readers : InTime(reader'[r])
    <2>1. DOMAIN reader' = Readers /\ reader' = [r \in Readers |-> reader'[r]]
      BY DEF CacheTick
    <2> QED
      BY <1>3, <2>1
  <1>5. Refreshing' = Refreshing
    BY <1>3 DEF Refreshing
  <1>6. mutex \in 0..MutexTtl /\ mutex' \in 0..MutexTtl
    BY <1>1, CacheNumbers DEF CacheInv
  <1>7. over' \in BOOLEAN /\ (~over' => ~over /\ \A r \in Refreshing : reader'[r].since < MutexTtl)
    <2>1. over' = (over \/ \E r \in Refreshing : reader'[r].since >= MutexTtl)
      BY DEF CacheTick
    <2>2. over \in BOOLEAN
      BY DEF CacheInv
    <2>3. \A r \in Refreshing : reader'[r].since \in 0..MaxFetch
      BY <1>3 DEF Refreshing, ReaderRecord
    <2>4. over' \in BOOLEAN
      BY <2>1, <2>2
    <2>5. ~over' => ~over /\ \A r \in Refreshing : ~(reader'[r].since >= MutexTtl)
      BY <2>1
    <2> QED
      BY <2>3, <2>4, <2>5, CacheNumbers
  <1>8. /\ blob.fetched \in Ages /\ blob.read \in Ages /\ (blob.fetched = Never <=> blob.read = Never)
        /\ blob.fetched # Never => blob.read <= blob.fetched
    BY DEF CacheInv, BlobOK
  <1>9. /\ blob'.fetched \in Ages /\ blob'.read \in Ages
        /\ (blob'.fetched = Never <=> blob'.read = Never) /\ (blob'.read = Never <=> blob.read = Never)
        /\ blob.read # Never => blob'.read <= blob.read + 1
    BY <1>1, <1>8, AgedTyped
  <1>10. BlobOK'
    <2>1. blob' \in [fetched : Ages, read : Ages]
      BY <1>1, <1>8, AgedTyped
    <2>2. ASSUME blob'.fetched # Never PROVE blob'.read <= blob'.fetched
      <3>1. /\ blob.fetched \in 0..Oldest /\ blob.read \in 0..Oldest /\ blob.read <= blob.fetched
            /\ blob'.fetched = Aged(blob.fetched) /\ blob'.read = Aged(blob.read)
        BY <1>1, <1>8, <1>9, <2>2, CacheNumbers
      <3> QED
        BY <3>1, CacheNumbers DEF Aged
    <2> QED
      BY <1>9, <2>1, <2>2 DEF BlobOK, Ages
  <1>11. KeyOK'
    <2>1. /\ key.read \in Ages /\ key.ttl \in 0..KeyTtl /\ (key.read = Never <=> key.ttl = 0)
          /\ key.read # Never => key.read + key.ttl <= KeyTtl + MaxFetch
      BY DEF CacheInv, KeyOK
    <2>2. CASE key.ttl > 1
      <3>1. key' = [read |-> Aged(key.read), ttl |-> key.ttl - 1]
        BY <1>1, <2>2
      <3>2. key.read # Never
        BY <2>1, <2>2
      <3>3. key.read \in Nat /\ Aged(key.read) \in Nat /\ Aged(key.read) \in Ages
            /\ Aged(key.read) <= key.read + 1 /\ Aged(key.read) # Never
        BY <2>1, <3>2, AgedTyped
      <3>4. key.ttl - 1 \in 1..KeyTtl /\ Aged(key.read) + (key.ttl - 1) <= KeyTtl + MaxFetch
        BY <2>1, <2>2, <3>2, <3>3, CacheNumbers
      <3> QED
        BY <3>1, <3>3, <3>4, CacheNumbers DEF KeyOK, Ages
    <2>3. CASE ~(key.ttl > 1)
      BY <1>1, <2>3, CacheNumbers DEF KeyOK
    <2> QED
      BY <2>2, <2>3
  <1>12. MutexOK'
    <2> SUFFICES ASSUME ~over' PROVE MutexOK'
      BY DEF MutexOK
    <2>1. /\ ~over /\ \A r \in Refreshing : reader'[r].since < MutexTtl
          /\ \A r \in Refreshing : reader[r].since < MutexTtl /\ mutex + reader[r].since = MutexTtl
          /\ \A r, q \in Refreshing : r = q
          /\ \A r \in Readers : At(r, "save") /\ blob.read # Never => reader[r].read <= blob.read
      BY <1>7 DEF CacheInv, MutexOK
    <2>2. ASSUME NEW r \in Refreshing PROVE mutex' + reader'[r].since = MutexTtl
      <3>1. r \in Readers /\ reader[r].since \in Nat /\ reader'[r].since = reader[r].since + 1
        BY <1>2, <1>3, CacheNumbers DEF Refreshing, ReaderRecord
      <3> QED
        BY <1>1, <1>6, <2>1, <3>1, CacheNumbers
    <2>3. ASSUME NEW r \in Readers, reader'[r].pc = "save", blob'.read # Never
          PROVE  reader'[r].read <= blob'.read
      <3>1. reader[r].pc = "save" /\ blob.read # Never /\ reader'[r].read = reader[r].read + 1
        BY <1>3, <1>9, <2>3
      <3>2. reader[r].read <= blob.read /\ reader[r].read \in Nat /\ reader'[r].read \in 0..MaxFetch
        BY <1>2, <1>3, <2>1, <3>1, CacheNumbers DEF At, ReaderRecord
      <3>3. blob.read \in 0..Oldest /\ blob'.read = Aged(blob.read)
        BY <1>1, <1>8, <3>1, CacheNumbers
      <3> QED
        BY <3>1, <3>2, <3>3, CacheNumbers DEF Aged
    <2> QED
      BY <1>5, <2>1, <2>2, <2>3 DEF MutexOK, At
  <1> QED
    BY <1>4, <1>6, <1>7, <1>8, <1>9, <1>10, <1>11, <1>12 DEF CacheInv

\* Never two refreshes under way.
OneRefresh == Cardinality(Refreshing) <= 1

\* Every step keeps the invariant, and a cached page is not replaced by an older one
\* while no refresh has outlived its mutex.
LEMMA CacheStep ==
  ASSUME CacheInv, [CacheNext]_cacheVars
  PROVE  CacheInv' /\ (~over /\ blob.fetched # Never => blob'.read <= blob.read + 1)
  <1>1. ASSUME UNCHANGED blob PROVE blob.fetched # Never => blob'.read <= blob.read + 1
    <2>1. blob.fetched # Never => blob.read \in Nat
      BY CacheNumbers DEF CacheInv, BlobOK
    <2> QED
      BY <1>1, <2>1
  <1>2. CASE CacheTick
    BY <1>2, CachesAge
  <1>3. ASSUME NEW r \in Readers, SaveCached(r)
        PROVE  CacheInv' /\ (~over /\ blob.fetched # Never => blob'.read <= blob.read + 1)
    <2>1. CacheInv' /\ (~over /\ blob.fetched # Never => blob'.read <= blob.read)
      BY <1>3, RefreshSaves
    <2>2. blob.fetched # Never => blob.read \in Nat
      BY CacheNumbers DEF CacheInv, BlobOK
    <2>3. blob'.read \in Nat
      BY <1>3, CacheNumbers DEF SaveCached, CacheInv, ReaderRecord
    <2> QED
      BY <2>1, <2>2, <2>3
  <1>4. ASSUME NEW r \in Readers, GetSchedule(r) \/ ReadThrough(r) \/ ReaderDies(r), ~SaveCached(r)
        PROVE  CacheInv' /\ UNCHANGED blob
    <2>1. CASE AcquireRefreshLock(r) /\ mutex = 0
      BY <2>1, RefreshBegins DEF AcquireRefreshLock
    <2>2. CASE ReleaseRefreshLock(r)
      BY <2>2, RefreshEnds DEF ReleaseRefreshLock
    <2>3. CASE LoadCached(r) \/ GiveUpRefresh(r) \/ AdmitRefresh(r) \/ FetchFrontPage(r)
                 \/ ReadThrough(r) \/ ReaderDies(r) \/ (AcquireRefreshLock(r) /\ mutex # 0)
      <3>1. CacheInv'
        BY <2>3, QuietReads
      <3>2. UNCHANGED blob
        BY <2>3 DEF LoadCached, GiveUpRefresh, AdmitRefresh, FetchFrontPage, ReadThrough, LookUp,
                    ReadSource, PutKey, ReaderDies, AcquireRefreshLock
      <3> QED
        BY <3>1, <3>2
    <2> QED
      BY <1>4, <2>1, <2>2, <2>3 DEF GetSchedule
  <1>5. CASE UNCHANGED cacheVars
    <2>1. CacheInv'
      BY <1>5 DEF cacheVars, CacheInv, BlobOK, KeyOK, MutexOK, Refreshing, At
    <2> QED
      BY <1>1, <1>5, <2>1 DEF cacheVars
  <1> QED
    BY <1>1, <1>2, <1>3, <1>4, <1>5 DEF CacheNext

\* Nobody has read anything yet.
LEMMA CacheStarts == CacheInit => CacheInv
  <1> SUFFICES ASSUME CacheInit PROVE CacheInv
    OBVIOUS
  <1>1. reader \in [Readers -> ReaderRecord] /\ \A r \in Readers : InTime(reader[r])
    BY NoReaderTyped DEF CacheInit
  <1>2. BlobOK /\ KeyOK
    BY CacheNumbers DEF CacheInit, BlobOK, KeyOK
  <1>3. Refreshing = {} /\ \A r \in Readers : ~At(r, "save")
    BY DEF CacheInit, Refreshing, NoReader, At
  <1>4. MutexOK
    BY <1>3 DEF MutexOK, Refreshing
  <1>5. mutex = 0 /\ over = FALSE
    BY DEF CacheInit
  <1>6. mutex \in 0..MutexTtl
    BY <1>5, CacheNumbers
  <1>7. over \in BOOLEAN
    BY <1>5
  <1> QED
    BY <1>1, <1>2, <1>4, <1>6, <1>7 DEF CacheInv

\* However readers of the schedule and of the read-through keys overlap and die,
\* what is served is recent; and as long as no refresh outlives its mutex, there is
\* one at a time and the cached page is never replaced by an older one.
THEOREM CachesServeRecent == CacheSpec => CachesHold
  <1>1. CacheInit => CacheInv
    BY CacheStarts
  <1>2. ASSUME CacheInv, [CacheNext]_cacheVars
        PROVE  CacheInv' /\ (~over /\ blob.fetched # Never => blob'.read <= blob.read + 1)
    BY <1>2, CacheStep
  <1>3. CacheInv => ServedIsRecent
    <2> SUFFICES ASSUME CacheInv PROVE ServedIsRecent
      OBVIOUS
    <2>1. blob.fetched # Never /\ blob.fetched < Freshness => blob.read < Freshness
      BY CacheNumbers DEF CacheInv, BlobOK
    <2>2. key.read # Never => key.read < KeyTtl + MaxFetch
      BY CacheNumbers DEF CacheInv, KeyOK
    <2> QED
      BY <2>1, <2>2 DEF ServedIsRecent
  <1>4. CacheInv /\ ~over => OneRefresh
    <2> SUFFICES ASSUME CacheInv, ~over PROVE Cardinality(Refreshing) <= 1
      BY DEF OneRefresh
    <2>1. CASE Refreshing = {}
      BY <2>1, FS_EmptySet
    <2>2. CASE Refreshing # {}
      <3>1. PICK r \in Refreshing : TRUE
        BY <2>2
      <3>2. Refreshing = {r}
        BY <3>1 DEF CacheInv, MutexOK
      <3>3. Cardinality({r}) = 1
        BY FS_Singleton
      <3> QED
        BY <3>2, <3>3
    <2> QED
      BY <2>1, <2>2
  <1>5. CacheInv' /\ ~over' => OneRefresh'
    BY <1>4, PTL
  <1>6. CacheInv /\ [CacheNext]_cacheVars
          => /\ CacheInv'
             /\ [~over' => Cardinality(Refreshing') <= 1]_cacheVars
             /\ [~over /\ blob.fetched # Never => blob'.read <= blob.read + 1]_cacheVars
    BY <1>2, <1>5 DEF OneRefresh
  <1> QED
    BY <1>1, <1>3, <1>6, PTL DEF CacheSpec, CachesHold

-----------------------------------------------------------------------------
(* The syncs.                                                               *)

\* The identities of rows, for a kind of record that never changes.
NamesOf(kind, rows_) ==
  {IF kind = "selections" THEN ItemIdentity(x) ELSE x : x \in Elements(rows_)}

IsReading(x) ==
  x = [pc |-> x.pc, op |-> x.op, items |-> x.items, previous |-> x.previous]

SyncersOK ==
  /\ syncer = [c \in Syncers |-> syncer[c]]
  /\ \A c \in Syncers : IsReading(syncer[c])
  /\ \A c \in Syncers : syncer[c].pc \in {"load", "store", "respond"} => syncer[c].op = "sync"

\* While the announcements add up, one handler syncs at a time: what it compares
\* with is what is stored, and until it responds the student knows what was.
ToldOK ==
  clean =>
    /\ \A c, d \in Syncers : Syncing(c) /\ Syncing(d) => c = d
    /\ \A c \in Syncers : SyncAt(c, "store") => syncer[c].previous = snap.items
    /\ \A c \in Syncers : SyncAt(c, "respond") =>
         syncer[c].items = snap.items /\ told = NamesOf(record, syncer[c].previous)
    /\ (\A c \in Syncers : ~SyncAt(c, "respond")) => told = NamesOf(record, snap.items)

SyncInv == SyncersOK /\ ToldOK

\* The diff of two lists leads from the names in one to those in the other.
LEMMA DiffLeads ==
  ASSUME NEW previous, NEW current
  PROVE  (NamesOf(record, previous) \cup Named(DiffItems(previous, current).added))
           \ Named(DiffItems(previous, current).removed) = NamesOf(record, current)
  <1> DEFINE P == NamesOf(record, previous)
             C == NamesOf(record, current)
             D == DiffItems(previous, current)
  <1>1. Identities(previous) = P /\ Identities(current) = C
    BY DEF Identities, Named, Identity, NamesOf
  <1>2. /\ D.added = {x \in Elements(current) : Identity(x) \notin P}
        /\ D.removed = {x \in Elements(previous) : Identity(x) \notin C}
    BY <1>1 DEF DiffItems
  <1>3. /\ P = {Identity(x) : x \in Elements(previous)}
        /\ C = {Identity(x) : x \in Elements(current)}
    BY <1>1 DEF Identities, Named
  <1> HIDE DEF P, C, D
  <1>4. Named(D.added) = C \ P
    BY <1>2, <1>3 DEF Named
  <1>5. Named(D.removed) = P \ C
    BY <1>2, <1>3 DEF Named
  <1> QED
    BY <1>4, <1>5 DEF P, C, D

\* A handler that neither stored anything nor begins a sync goes on.
LEMMA ReadingMoves ==
  ASSUME SyncInv, NEW c \in Syncers, NEW x, IsReading(x),
         syncer' = [syncer EXCEPT ![c] = x],
         UNCHANGED <<record, snap, told, clean>>,
         ~SyncAt(c, "respond"), x.pc # "respond",
         x.pc \in {"load", "store"} => x.op = "sync",
         x.pc # "idle" /\ x.op = "sync" => Syncing(c) \/ (\A d \in Syncers : ~Syncing(d)),
         x.pc = "store" => x.previous = snap.items
  PROVE  SyncInv'
  <1>1. /\ syncer' = [d \in Syncers |-> syncer'[d]]
        /\ \A d \in Syncers : syncer'[d] = IF d = c THEN x ELSE syncer[d]
    BY DEF SyncInv, SyncersOK
  <1>2. SyncersOK'
    BY <1>1 DEF SyncInv, SyncersOK
  <1>3. \A d \in Syncers : SyncAt(d, "respond")' <=> SyncAt(d, "respond")
    BY <1>1 DEF SyncAt
  <1>4. \A d \in Syncers : d # c => (Syncing(d)' <=> Syncing(d))
    BY <1>1 DEF Syncing, SyncAt
  <1>5. Syncing(c)' => Syncing(c) \/ (\A d \in Syncers : ~Syncing(d))
    BY <1>1 DEF Syncing, SyncAt
  <1>6. ToldOK'
    <2> SUFFICES ASSUME clean' PROVE ToldOK'
      BY DEF ToldOK
    <2>1. /\ \A d, e \in Syncers : Syncing(d) /\ Syncing(e) => d = e
          /\ \A d \in Syncers : SyncAt(d, "store") => syncer[d].previous = snap.items
          /\ \A d \in Syncers : SyncAt(d, "respond") =>
               syncer[d].items = snap.items /\ told = NamesOf(record, syncer[d].previous)
          /\ (\A d \in Syncers : ~SyncAt(d, "respond")) => told = NamesOf(record, snap.items)
      BY DEF SyncInv, ToldOK
    <2>2. \A d, e \in Syncers : Syncing(d)' /\ Syncing(e)' => d = e
      BY <1>4, <1>5, <2>1
    <2>3. \A d \in Syncers : SyncAt(d, "store")' => syncer'[d].previous = snap.items
      BY <1>1, <2>1 DEF SyncAt
    <2>4. \A d \in Syncers : SyncAt(d, "respond")' =>
            syncer'[d].items = snap.items /\ told = NamesOf(record, syncer'[d].previous)
      BY <1>1, <1>3, <2>1
    <2> QED
      BY <1>3, <2>1, <2>2, <2>3, <2>4 DEF ToldOK
  <1> QED
    BY <1>2, <1>6 DEF SyncInv

\* A handler goes on with a list it has read, or has one to compare with.
Taking(x, pc, list) == [x EXCEPT !.pc = pc, !.items = list]
Comparing(x, pc, list) == [x EXCEPT !.pc = pc, !.previous = list]

LEMMA ReadingTakes ==
  ASSUME NEW x, IsReading(x), NEW pc, NEW list
  PROVE  /\ LET y == Taking(x, pc, list)
            IN IsReading(y) /\ y.pc = pc /\ y.op = x.op
         /\ LET y == Comparing(x, pc, list)
            IN IsReading(y) /\ y.pc = pc /\ y.op = x.op /\ y.previous = list
  <1>1. PICK a, b, i, p : x = [pc |-> a, op |-> b, items |-> i, previous |-> p]
    BY DEF IsReading
  <1>2. [x EXCEPT !.pc = pc] = [pc |-> pc, op |-> b, items |-> i, previous |-> p]
    BY <1>1
  <1>3. /\ Taking(x, pc, list) = [[x EXCEPT !.pc = pc] EXCEPT !.items = list]
        /\ Comparing(x, pc, list) = [[x EXCEPT !.pc = pc] EXCEPT !.previous = list]
    BY <1>1 DEF Taking, Comparing
  <1>4. /\ Taking(x, pc, list) = [pc |-> pc, op |-> b, items |-> list, previous |-> p]
        /\ Comparing(x, pc, list) = [pc |-> pc, op |-> b, items |-> i, previous |-> list]
    BY <1>2, <1>3
  <1>5. x.op = b
    BY <1>1
  <1> QED
    BY <1>4, <1>5 DEF IsReading

\* The moves of a handler that change neither the snapshot nor what was told.
LEMMA QuietSyncs ==
  ASSUME SyncInv, NEW c \in Syncers,
         \/ OpenRelay(c) \/ ParseLivePage(c) \/ FindReceipt(c) \/ ParseRecord(c)
         \/ RecordRefusal(c) \/ RecordAnswer(c) \/ LoadSnapshot(c)
         \/ SyncDies(c) /\ ~SyncAt(c, "respond")
  PROVE  SyncInv'
  <1> DEFINE s == syncer[c]
             Goes(pc) == [s EXCEPT !.pc = pc]
  <1>1. IsReading(s) /\ (s.pc \in {"load", "store", "respond"} => s.op = "sync")
    BY DEF SyncInv, SyncersOK
  <1>2. IsReading(NoReading) /\ NoReading.pc = "idle"
    BY DEF NoReading, IsReading
  <1>3. ASSUME NEW pc
        PROVE  /\ IsReading(Goes(pc)) /\ Goes(pc).pc = pc /\ Goes(pc).op = s.op
               /\ SyncGoes(c, pc) => syncer' = [syncer EXCEPT ![c] = Goes(pc)]
    BY <1>1 DEF IsReading, SyncGoes
  <1>4. s.pc # "idle" /\ s.op = "sync" => Syncing(c)
    BY DEF Syncing, SyncAt
  <1> HIDE DEF Goes
  <1>5. ASSUME SyncEnds(c), UNCHANGED <<record, snap, told, clean>>, ~SyncAt(c, "respond")
        PROVE  SyncInv'
    BY <1>2, <1>5, ReadingMoves DEF SyncEnds
  <1>6. ASSUME NEW pc \in {"refused", "coherent", "receipt"}, SyncGoes(c, pc), s.pc # "idle",
               UNCHANGED <<record, snap, told, clean>>, ~SyncAt(c, "respond")
        PROVE  SyncInv'
    BY <1>3, <1>4, <1>6, ReadingMoves
  <1>7. CASE OpenRelay(c) \/ ParseLivePage(c) \/ FindReceipt(c) \/ RecordRefusal(c)
    <2>1. UNCHANGED <<record, snap, told, clean>> /\ ~SyncAt(c, "respond") /\ s.pc # "idle"
      BY <1>7 DEF OpenRelay, ParseLivePage, FindReceipt, RecordRefusal, SyncAt
    <2>2. SyncEnds(c) \/ \E pc \in {"refused", "coherent", "receipt"} : SyncGoes(c, pc)
      BY <1>7 DEF OpenRelay, ParseLivePage, FindReceipt, RecordRefusal
    <2> QED
      BY <1>5, <1>6, <2>1, <2>2
  <1>8. CASE ParseRecord(c)
    <2> DEFINE x == Taking(s, "coherent", Parse(page))
    <2>1. /\ UNCHANGED <<record, snap, told, clean>> /\ ~SyncAt(c, "respond") /\ s.pc = "read"
          /\ syncer' = [syncer EXCEPT ![c] = x]
      BY <1>8 DEF ParseRecord, SyncAt, Taking
    <2>2. IsReading(x) /\ x.pc = "coherent" /\ x.op = s.op
      BY <1>1, ReadingTakes
    <2> HIDE DEF x
    <2> QED
      BY <1>4, <2>1, <2>2, ReadingMoves
  <1>9. CASE RecordAnswer(c)
    <2>1. /\ UNCHANGED <<record, snap, told, clean>> /\ ~SyncAt(c, "respond") /\ s.pc = "coherent"
      BY <1>9 DEF RecordAnswer, SyncAt
    <2>2. CASE s.op # "sync"
      BY <1>5, <1>9, <2>1, <2>2 DEF RecordAnswer
    <2>3. CASE s.op = "sync" /\ SyncGoes(c, "load")
      BY <1>3, <1>4, <2>1, <2>3, ReadingMoves
    <2>4. CASE s.op = "sync" /\ ~SyncGoes(c, "load")
      <3> DEFINE x == Taking(s, "load", AttachCourseMatches(s.items))
      <3>1. syncer' = [syncer EXCEPT ![c] = x]
        BY <1>9, <2>4 DEF RecordAnswer, Taking
      <3>2. IsReading(x) /\ x.pc = "load" /\ x.op = s.op
        BY <1>1, ReadingTakes
      <3> HIDE DEF x
      <3> QED
        BY <1>4, <2>1, <2>4, <3>1, <3>2, ReadingMoves
    <2> QED
      BY <2>2, <2>3, <2>4
  <1>10. CASE LoadSnapshot(c)
    <2> DEFINE x == Comparing(s, "store", snap.items)
    <2>1. /\ UNCHANGED <<record, snap, told, clean>> /\ ~SyncAt(c, "respond") /\ s.pc = "load"
          /\ syncer' = [syncer EXCEPT ![c] = x]
      BY <1>10 DEF LoadSnapshot, SyncAt, Comparing
    <2>2. IsReading(x) /\ x.pc = "store" /\ x.op = s.op /\ x.previous = snap.items
      BY <1>1, ReadingTakes
    <2> HIDE DEF x
    <2> QED
      BY <1>1, <1>4, <2>1, <2>2, ReadingMoves
  <1>11. CASE SyncDies(c) /\ ~SyncAt(c, "respond")
    BY <1>5, <1>11 DEF SyncDies
  <1> QED
    BY <1>7, <1>8, <1>9, <1>10, <1>11

\* A sync begins: beside another one, what is told no longer adds up.
LEMMA SyncBegins ==
  ASSUME SyncInv, NEW c \in Syncers, NEW op, AdmitRead(c, op)
  PROVE  SyncInv'
  <1> DEFINE x == [NoReading EXCEPT !.pc = "read", !.op = op]
  <1>1. /\ syncer[c].pc = "idle" /\ syncer' = [syncer EXCEPT ![c] = x]
        /\ UNCHANGED <<record, snap>>
        /\ IF op = "sync" /\ \E d \in Syncers : Syncing(d) THEN Lost ELSE UNCHANGED <<told, clean>>
    BY DEF AdmitRead, SyncAt
  <1>2. IsReading(x) /\ x.pc = "read" /\ x.op = op
    <2>1. [NoReading EXCEPT !.pc = "read"]
            = [pc |-> "read", op |-> "page", items |-> <<>>, previous |-> <<>>]
      BY DEF NoReading
    <2>2. x = [[NoReading EXCEPT !.pc = "read"] EXCEPT !.op = op]
      BY DEF NoReading
    <2> HIDE DEF x
    <2>3. x = [pc |-> "read", op |-> op, items |-> <<>>, previous |-> <<>>]
      BY <2>1, <2>2
    <2> QED
      BY <2>3 DEF IsReading
  <1> HIDE DEF x
  <1>3. CASE op = "sync" /\ \E d \in Syncers : Syncing(d)
    <2>1. clean' = FALSE
      BY <1>1, <1>3 DEF Lost
    <2>2. SyncersOK'
      BY <1>1, <1>2 DEF SyncInv, SyncersOK
    <2> QED
      BY <2>1, <2>2 DEF SyncInv, ToldOK
  <1>4. CASE ~(op = "sync" /\ \E d \in Syncers : Syncing(d))
    <2>1. UNCHANGED <<told, clean>>
      BY <1>1, <1>4
    <2> QED
      BY <1>1, <1>2, <1>4, <2>1, ReadingMoves DEF SyncAt
  <1> QED
    BY <1>3, <1>4

\* Between the two, the student knows the snapshot that was there before.
LEMMA SyncStores ==
  ASSUME SyncInv, NEW c \in Syncers, StoreRecord(c)
  PROVE  SyncInv'
  <1>1. /\ syncer[c].pc = "store" /\ syncer' = [syncer EXCEPT ![c].pc = "respond"]
        /\ snap' = [held |-> TRUE, items |-> syncer[c].items]
        /\ UNCHANGED <<record, told, clean>>
    BY DEF StoreRecord, SyncAt, SyncGoes
  <1>2. /\ IsReading(syncer[c]) /\ syncer[c].op = "sync" /\ Syncing(c)
        /\ \A d \in Syncers : syncer[d].pc = "respond" => Syncing(d)
    BY <1>1 DEF SyncInv, SyncersOK, Syncing, SyncAt
  <1>3. /\ syncer' = [d \in Syncers |-> syncer'[d]]
        /\ \A d \in Syncers : d # c => syncer'[d] = syncer[d]
        /\ IsReading(syncer'[c]) /\ syncer'[c].pc = "respond" /\ syncer'[c].op = "sync"
        /\ syncer'[c].items = syncer[c].items /\ syncer'[c].previous = syncer[c].previous
    BY <1>1, <1>2 DEF SyncInv, SyncersOK, IsReading
  <1>4. SyncersOK'
    BY <1>3 DEF SyncInv, SyncersOK
  <1>5. ToldOK'
    <2> SUFFICES ASSUME clean' PROVE ToldOK'
      BY DEF ToldOK
    <2>1. /\ \A d, e \in Syncers : Syncing(d) /\ Syncing(e) => d = e
          /\ \A d \in Syncers : SyncAt(d, "store") => syncer[d].previous = snap.items
          /\ (\A d \in Syncers : ~SyncAt(d, "respond")) => told = NamesOf(record, snap.items)
      BY <1>1 DEF SyncInv, ToldOK
    <2>2. \A d \in Syncers : syncer[d].pc # "respond"
      BY <1>1, <1>2, <2>1
    <2>3. told = NamesOf(record, syncer[c].previous)
      BY <1>1, <2>1, <2>2 DEF SyncAt
    <2>4. \A d \in Syncers : Syncing(d)' => d = c
      BY <1>2, <1>3, <2>1 DEF Syncing, SyncAt
    <2>5. \A d \in Syncers : d # c => ~SyncAt(d, "store")' /\ ~SyncAt(d, "respond")'
      BY <1>4, <2>4 DEF SyncersOK, Syncing, SyncAt
    <2>6. SyncAt(c, "respond")'
      BY <1>3 DEF SyncAt
    <2> QED
      BY <1>1, <1>3, <2>3, <2>4, <2>5, <2>6 DEF ToldOK, SyncAt
  <1> QED
    BY <1>4, <1>5 DEF SyncInv

\* What is announced leads from the one snapshot to the other.
LEMMA SyncAnnounces ==
  ASSUME SyncInv, NEW c \in Syncers, SyncResponse(c)
  PROVE  SyncInv'
  <1> DEFINE D == DiffItems(syncer[c].previous, syncer[c].items)
  <1>1. /\ syncer[c].pc = "respond" /\ syncer' = [syncer EXCEPT ![c] = NoReading]
        /\ told' = IF ~clean THEN told ELSE (told \cup Named(D.added)) \ Named(D.removed)
        /\ UNCHANGED <<record, snap, clean>>
    BY DEF SyncResponse, SyncAt, SyncEnds
  <1>2. /\ syncer' = [d \in Syncers |-> syncer'[d]]
        /\ \A d \in Syncers : syncer'[d] = IF d = c THEN NoReading ELSE syncer[d]
    BY <1>1 DEF SyncInv, SyncersOK
  <1>3. SyncersOK'
    BY <1>2 DEF SyncInv, SyncersOK, NoReading, IsReading
  <1>4. Syncing(c)
    BY <1>1 DEF SyncInv, SyncersOK, Syncing, SyncAt
  <1>5. ToldOK'
    <2> SUFFICES ASSUME clean' PROVE ToldOK'
      BY DEF ToldOK
    <2>1. /\ \A d, e \in Syncers : Syncing(d) /\ Syncing(e) => d = e
          /\ syncer[c].items = snap.items /\ told = NamesOf(record, syncer[c].previous)
      BY <1>1 DEF SyncInv, ToldOK, SyncAt
    <2>2. told' = NamesOf(record, snap.items)
      BY <1>1, <2>1, DiffLeads
    <2>3. \A d \in Syncers : ~Syncing(d)'
      BY <1>2, <1>4, <2>1 DEF Syncing, SyncAt, NoReading
    <2>4. \A d \in Syncers : ~SyncAt(d, "store")' /\ ~SyncAt(d, "respond")'
      BY <1>3, <2>3 DEF SyncersOK, Syncing, SyncAt
    <2> QED
      BY <1>1, <2>2, <2>3, <2>4 DEF ToldOK
  <1> QED
    BY <1>3, <1>5 DEF SyncInv

\* A response is lost, a snapshot goes or the whole list is fetched.
LEMMA SyncElse ==
  ASSUME SyncInv,
         \/ \E c \in Syncers : SyncDies(c) /\ SyncAt(c, "respond")
         \/ GetSelections \/ SnapshotGoes \/ SchoolChangesRecord \/ UNCHANGED syncVars
  PROVE  SyncInv'
  <1>1. CASE \E c \in Syncers : SyncDies(c) /\ SyncAt(c, "respond")
    <2>1. PICK c \in Syncers : syncer' = [syncer EXCEPT ![c] = NoReading] /\ clean' = FALSE
      BY <1>1 DEF SyncDies, SyncEnds, Lost
    <2>2. SyncersOK'
      BY <2>1 DEF SyncInv, SyncersOK, NoReading, IsReading
    <2> QED
      BY <2>1, <2>2 DEF SyncInv, ToldOK
  <1>2. CASE GetSelections
    <2>1. /\ \A c \in Syncers : ~Syncing(c)
          /\ told' = Identities(snap.items) /\ UNCHANGED <<record, snap, syncer>>
      BY <1>2 DEF GetSelections
    <2>2. SyncersOK'
      BY <2>1 DEF SyncInv, SyncersOK
    <2>3. \A c \in Syncers : ~Syncing(c)' /\ ~SyncAt(c, "store")' /\ ~SyncAt(c, "respond")'
      BY <2>1, <2>2 DEF SyncersOK, Syncing, SyncAt
    <2>4. Identities(snap.items) = NamesOf(record, snap.items)
      BY DEF Identities, Named, Identity, NamesOf
    <2> QED
      BY <2>1, <2>2, <2>3, <2>4 DEF SyncInv, ToldOK
  <1>3. CASE SnapshotGoes
    <2>1. clean' = FALSE /\ UNCHANGED syncer
      BY <1>3 DEF SnapshotGoes, Lost
    <2>2. SyncersOK'
      BY <2>1 DEF SyncInv, SyncersOK
    <2> QED
      BY <2>1, <2>2 DEF SyncInv, ToldOK
  <1>4. CASE SchoolChangesRecord \/ UNCHANGED syncVars
    <2>1. UNCHANGED <<record, snap, syncer, told, clean>>
      BY <1>4 DEF SchoolChangesRecord, syncVars
    <2> QED
      BY <2>1 DEF SyncInv, SyncersOK, ToldOK, Syncing, SyncAt
  <1> QED
    BY <1>1, <1>2, <1>3, <1>4

\* Every step of a sync.
LEMMA SyncStep == SyncInv /\ [SyncNext]_syncVars => SyncInv'
  <1> SUFFICES ASSUME SyncInv, [SyncNext]_syncVars PROVE SyncInv'
    OBVIOUS
  <1>1. ASSUME NEW c \in Syncers, \E op \in {"sync", "page", "bills"} : AdmitRead(c, op)
        PROVE  SyncInv'
    BY <1>1, SyncBegins
  <1>2. ASSUME NEW c \in Syncers,
               \/ OpenRelay(c) \/ ParseLivePage(c) \/ FindReceipt(c) \/ ParseRecord(c)
               \/ RecordRefusal(c) \/ RecordAnswer(c) \/ LoadSnapshot(c)
        PROVE  SyncInv'
    BY <1>2, QuietSyncs
  <1>3. ASSUME NEW c \in Syncers, StoreRecord(c) PROVE SyncInv'
    BY <1>3, SyncStores
  <1>4. ASSUME NEW c \in Syncers, SyncResponse(c) PROVE SyncInv'
    BY <1>4, SyncAnnounces
  <1>5. ASSUME NEW c \in Syncers, SyncDies(c) PROVE SyncInv'
    BY <1>5, QuietSyncs, SyncElse
  <1>6. CASE GetSelections \/ SnapshotGoes \/ SchoolChangesRecord \/ UNCHANGED syncVars
    BY <1>6, SyncElse
  <1> QED
    BY <1>1, <1>2, <1>3, <1>4, <1>5, <1>6 DEF SyncNext

\* No snapshot, no handler, nothing told.
LEMMA SyncStarts == SyncInit => SyncInv
  <1> SUFFICES ASSUME SyncInit PROVE SyncInv
    OBVIOUS
  <1>1. syncer = [c \in Syncers |-> NoReading] /\ snap.items = <<>> /\ told = {}
    BY DEF SyncInit, NoSnapshot
  <1>2. SyncersOK /\ \A c \in Syncers : ~Syncing(c) /\ ~SyncAt(c, "store") /\ ~SyncAt(c, "respond")
    BY <1>1 DEF SyncersOK, Syncing, SyncAt, NoReading, IsReading
  <1>3. NamesOf(record, <<>>) = {}
    BY DEF NamesOf, Elements
  <1> QED
    BY <1>1, <1>2, <1>3 DEF SyncInv, ToldOK

\* As long as syncs do not overlap and no response is lost, what came and what
\* went add up to the stored record, whatever the pages hold.
THEOREM AnnouncedIsStored == SyncSpec => []ToldIsStored
  <1>1. SyncInit => SyncInv
    BY SyncStarts
  <1>2. SyncInv /\ [SyncNext]_syncVars => SyncInv'
    BY SyncStep
  <1>3. SyncInv => ToldIsStored
    <2> SUFFICES ASSUME SyncInv, clean, \A c \in Syncers : syncer[c].op = "sync" => ~SyncAt(c, "respond")
                 PROVE  told = Identities(snap.items)
      BY DEF ToldIsStored
    <2>1. \A c \in Syncers : ~SyncAt(c, "respond")
      BY DEF SyncInv, SyncersOK, SyncAt
    <2>2. told = NamesOf(record, snap.items)
      BY <2>1 DEF SyncInv, ToldOK
    <2> QED
      BY <2>2 DEF Identities, Named, Identity, NamesOf
  <1> QED
    BY <1>1, <1>2, <1>3, PTL DEF SyncSpec

-----------------------------------------------------------------------------
(* What a page of the school says of each operation.                        *)

AnswerOK ==
  \/ answer = NoReply
  \/ \E html \in HtmlsOf(MaxPieces), batch \in SUBSET CourseCodes :
       answer = [html |-> html, batch |-> batch, parsed |-> ParseSubmitResponse(html, batch)]

LEMMA FirstIsThere ==
  ASSUME NEW S \in SUBSET Nat, S # {}
  PROVE  First(S) \in S
  BY LeastNumber DEF First

\* What is found for a course is a piece of the part searched that mentions it.
LEMMA FragmentMentions ==
  ASSUME NEW html, DOMAIN html \in SUBSET (Nat \ {0}), NEW S \in SUBSET DOMAIN html, NEW code,
         FragmentForCode(html, S, code) # 0
  PROVE  /\ FragmentForCode(html, S, code) \in S
         /\ Mentions(html[FragmentForCode(html, S, code)], code)
  <1> DEFINE found == {i \in S : Mentions(html[i], code)}
             inRow == {i \in found : html[i].kind = "row"}
  <1>1. found \in SUBSET Nat /\ inRow \in SUBSET found
    OBVIOUS
  <1>2. /\ found # {}
        /\ FragmentForCode(html, S, code) = First(IF inRow # {} THEN inRow ELSE found)
    BY DEF FragmentForCode
  <1>3. First(IF inRow # {} THEN inRow ELSE found) \in found
    <2>1. CASE inRow # {}
      BY <1>1, <2>1, FirstIsThere
    <2>2. CASE inRow = {}
      BY <1>1, <1>2, <2>2, FirstIsThere
    <2> QED
      BY <2>1, <2>2
  <1> QED
    BY <1>2, <1>3

\* The two ways of judging an operation, by the failure section and by the page.
LEMMA OperationJudged ==
  ASSUME NEW html, DOMAIN html \in SUBSET (Nat \ {0}), NEW code
  PROVE  LET p == ParseOp(html, code) IN
         /\ p.from # 0 => p.from \in DOMAIN html /\ Mentions(html[p.from], code)
         /\ p.outcome = "success" =>
              /\ p.from # 0 /\ Headers(html) = {}
              /\ Success(html[p.from].words) /\ ~Failure(html[p.from].words)
         /\ p.duplicate_like => p.from # 0 /\ DuplicateLike(html[p.from].words)
  <1> DEFINE p == ParseOp(html, code)
  <1>1. CASE Headers(html) # {}
    <2> DEFINE at == FragmentForCode(html, FailureSection(html), code)
    <2>1. FailureSection(html) \in SUBSET DOMAIN html
      BY DEF FailureSection
    <2>2. at # 0 => at \in DOMAIN html /\ Mentions(html[at], code)
      BY <2>1, FragmentMentions
    <2>3. p = Parsed("failed", at, at # 0 /\ DuplicateLike(html[at].words))
      BY <1>1 DEF ParseOp
    <2> DEFINE again == at # 0 /\ DuplicateLike(html[at].words)
    <2> HIDE DEF at, again
    <2>4. p.from = at /\ p.outcome = "failed" /\ p.duplicate_like = again
      BY <2>3 DEF Parsed, again
    <2>5. again => at # 0 /\ DuplicateLike(html[at].words)
      BY DEF again
    <2> HIDE DEF p
    <2> QED
      BY <2>2, <2>4, <2>5 DEF p
  <1>2. CASE Headers(html) = {}
    <2> DEFINE at == FragmentForCode(html, DOMAIN html, code)
               words == html[at].words
    <2>1. at # 0 => at \in DOMAIN html /\ Mentions(html[at], code)
      BY FragmentMentions
    <2>2. p = IF at = 0 THEN Parsed("parse_failed", 0, FALSE) ELSE ClassifyFragment(at, words)
      BY <1>2 DEF ParseOp
    <2> HIDE DEF at
    <2>3. CASE at = 0
      BY <1>2, <2>2, <2>3 DEF Parsed
    <2>4. CASE at # 0
      <3>1. /\ Success(words) \in BOOLEAN /\ Failure(words) \in BOOLEAN
        BY DEF Success, Failure
      <3>2. \/ p = Parsed("parse_failed", at, FALSE)
            \/ p = Parsed("failed", at, DuplicateLike(words))
            \/ p = Parsed("success", at, FALSE) /\ Success(words) /\ ~Failure(words)
        BY <2>2, <2>4, <3>1 DEF ClassifyFragment
      <3> HIDE DEF words
      <3>3. CASE p = Parsed("parse_failed", at, FALSE)
        BY <2>1, <2>4, <3>3 DEF Parsed
      <3>4. CASE p = Parsed("failed", at, DuplicateLike(words))
        BY <2>1, <2>4, <3>4 DEF Parsed, words
      <3>5. CASE p = Parsed("success", at, FALSE) /\ Success(words) /\ ~Failure(words)
        BY <1>2, <2>1, <2>4, <3>5 DEF Parsed, words
      <3> QED
        BY <3>2, <3>3, <3>4, <3>5
    <2> QED
      BY <2>3, <2>4
  <1> QED
    BY <1>1, <1>2

\* The theorem behind ReplyIsOwn: an operation is judged by pieces about its own
\* course, unless its code is part of another's on the page.
THEOREM RepliesAreOwn == ReplySpec => []ReplyIsOwn
  <1>1. ReplyInit => AnswerOK
    BY DEF ReplyInit, AnswerOK
  <1>2. AnswerOK /\ [ReplyNext]_answer => AnswerOK'
    <2> SUFFICES ASSUME AnswerOK, [ReplyNext]_answer PROVE AnswerOK'
      OBVIOUS
    <2>1. CASE SchoolReplies
      BY <2>1 DEF SchoolReplies, AnswerOK
    <2>2. CASE OutcomesTaken
      BY <2>2 DEF OutcomesTaken, AnswerOK
    <2>3. CASE UNCHANGED answer
      BY <2>3 DEF AnswerOK
    <2> QED
      BY <2>1, <2>2, <2>3 DEF ReplyNext
  <1>3. AnswerOK => ReplyIsOwn
    <2>1. CASE answer = NoReply
      BY <2>1 DEF NoReply, ReplyIsOwn
    <2>2. ASSUME NEW html \in HtmlsOf(MaxPieces), NEW batch \in SUBSET CourseCodes,
                 answer = [html |-> html, batch |-> batch, parsed |-> ParseSubmitResponse(html, batch)]
          PROVE  ReplyIsOwn
      <3>1. answer.html = html /\ answer.parsed = ParseSubmitResponse(html, batch)
        BY <2>2
      <3>2. DOMAIN html \in SUBSET (Nat \ {0})
        BY ReplyAssumption DEF HtmlsOf
      <3> SUFFICES ASSUME NEW code \in DOMAIN answer.parsed, Unmistakable(code)
                   PROVE  LET p == answer.parsed[code] IN
                          /\ p.from # 0 => p.from \in About(code)
                          /\ p.outcome = "success" =>
                               /\ \E i \in About(code) : /\ Success(answer.html[i].words)
                                                         /\ ~Failure(answer.html[i].words)
                               /\ Headers(answer.html) = {}
                          /\ p.duplicate_like =>
                               \E i \in About(code) : DuplicateLike(answer.html[i].words)
        BY DEF ReplyIsOwn
      <3>3. answer.parsed[code] = ParseOp(html, code)
        BY <3>1 DEF ParseSubmitResponse
      <3>4. \A i \in DOMAIN html : Mentions(html[i], code) => i \in About(code)
        BY <3>1 DEF Mentions, About, Unmistakable
      <3> QED
        BY <3>1, <3>2, <3>3, <3>4, OperationJudged
    <2> QED
      BY <2>1, <2>2 DEF AnswerOK
  <1> QED
    BY <1>1, <1>2, <1>3, PTL DEF ReplySpec

-----------------------------------------------------------------------------
(* The calendar of a plan.                                                  *)

CalendarOK ==
  \/ calendar = NoCalendar
  \/ \E plan \in Plans : calendar = ExportPlanIcs(plan)

LEMMA BeginsIsNat ==
  ASSUME NEW code \in Known
  PROVE  Begins(code) \in 2..(2 * Len(Periods)) /\ Ends(code) \in 2..(2 * Len(Periods) + 1)
  <1>1. DOMAIN Periods = 1..Len(Periods) /\ Len(Periods) \in Nat
    BY CalendarAssumption
  <1> DEFINE place == CHOOSE i \in DOMAIN Periods : Periods[i] = code
  <1>2. \E i \in DOMAIN Periods : Periods[i] = code
    BY DEF Known, ToSet
  <1>3. place \in DOMAIN Periods
    BY <1>2
  <1>4. Begins(code) = 2 * place /\ Ends(code) = 2 * place + 1
    BY DEF Begins, Ends
  <1> QED
    BY <1>1, <1>3, <1>4

\* A set of numbers with a bound has a greatest one.
LEMMA GreatestNumber ==
  ASSUME NEW n \in Nat, NEW S \in SUBSET (0..n), S # {}
  PROVE  Greatest(S) \in S /\ \A y \in S : Greatest(S) >= y
  <1> DEFINE T == {n - x : x \in S}
  <1>1. T \in SUBSET Nat /\ T # {}
    <2>1. \A x \in S : n - x \in Nat
      OBVIOUS
    <2> QED
      BY <2>1
  <1>2. PICK t \in T : \A u \in T : t <= u
    BY <1>1, LeastNumber
  <1>3. PICK x \in S : t = n - x
    BY <1>2
  <1>4. \A y \in S : x >= y
    BY <1>2, <1>3
  <1> QED
    BY <1>3, <1>4 DEF Greatest

LEMMA LeastIsThere ==
  ASSUME NEW S \in SUBSET Nat, S # {}
  PROVE  Least(S) \in S /\ \A y \in S : Least(S) <= y
  BY LeastNumber DEF Least

\* The event of a day runs from its first period to its last.
LEMMA BlockSpansItsPeriods ==
  ASSUME NEW row, ~Corrupt(row), DOMAIN row.times \in SUBSET (Nat \ {0}), NEW b \in DayBlocks(row)
  PROVE  /\ b.day \in 0..6 /\ b.day + 1 \in DOMAIN row.times
         /\ row.times[b.day + 1] # {} /\ b.codes = row.times[b.day + 1]
         /\ \E c \in b.codes : b.start = Begins(c)
         /\ \E c \in b.codes : b.end = Ends(c)
         /\ \A c \in b.codes : b.start <= Begins(c) /\ Ends(c) <= b.end
  <1>1. PICK i \in DOMAIN row.times :
          /\ i <= 7 /\ row.times[i] # {}
          /\ b = [day |-> i - 1, codes |-> row.times[i],
                  start |-> Least({Begins(c) : c \in row.times[i]}),
                  end |-> Greatest({Ends(c) : c \in row.times[i]})]
    BY DEF DayBlocks, Week
  <1> DEFINE held == row.times[i]
             starts == {Begins(c) : c \in held}
             ends == {Ends(c) : c \in held}
  <1>2. i \in 1..7 /\ b.day = i - 1 /\ b.day + 1 = i
    BY <1>1
  <1>3. held \subseteq Known
    BY <1>1 DEF Corrupt, Week
  <1>4. Len(Periods) \in Nat
    BY CalendarAssumption
  <1>5. starts \in SUBSET Nat /\ starts # {}
    BY <1>1, <1>3, <1>4, BeginsIsNat
  <1>11. ends \in SUBSET (0..(2 * Len(Periods) + 1)) /\ ends # {}
    BY <1>1, <1>3, <1>4, BeginsIsNat
  <1>6. \A c \in held : Begins(c) \in starts /\ Ends(c) \in ends /\ Begins(c) \in Nat /\ Ends(c) \in Nat
    BY <1>3, <1>4, BeginsIsNat
  <1>7. b.start = Least(starts) /\ b.end = Greatest(ends) /\ b.codes = held
    BY <1>1
  <1> HIDE DEF starts, ends
  <1>8. b.start \in starts /\ \A y \in starts : b.start <= y
    <2>1. Least(starts) \in starts /\ \A y \in starts : Least(starts) <= y
      BY <1>5, LeastIsThere
    <2> QED
      BY <1>7, <2>1
  <1>9. b.end \in ends /\ \A y \in ends : b.end >= y
    <2>1. 2 * Len(Periods) + 1 \in Nat
      BY <1>4
    <2>2. Greatest(ends) \in ends /\ \A y \in ends : Greatest(ends) >= y
      BY <1>11, <2>1, GreatestNumber
    <2> QED
      BY <1>7, <2>2
  <1>10. \A c \in held : b.start <= Begins(c) /\ Ends(c) <= b.end
    <2>1. b.end \in Int
      <3>1. \A n \in Int : 0..n \subseteq Int
        OBVIOUS
      <3>2. 2 * Len(Periods) + 1 \in Int
        BY <1>4
      <3> QED
        BY <1>9, <1>11, <3>1, <3>2
    <2> QED
      BY <1>6, <1>8, <1>9, <2>1
  <1>12. (\E c \in held : b.start = Begins(c)) /\ \E c \in held : b.end = Ends(c)
    BY <1>8, <1>9 DEF starts, ends
  <1>13. held = row.times[b.day + 1] /\ held # {} /\ b.day + 1 \in DOMAIN row.times /\ b.day \in 0..6
    BY <1>1, <1>2
  <1> HIDE DEF held
  <1> QED
    BY <1>7, <1>10, <1>12, <1>13

\* A weekly event falls on the days of the semester that are its weekday.
LEMMA FallsOnItsWeekday ==
  ASSUME NEW d \in 0..6, NEW day \in SemesterStart..SemesterEnd, NEW e,
         e.first = FirstOccurrence(d), e.until = SemesterEnd
  PROVE  FallsOn(e, day) <=> day % 7 = d
  <1>1. SemesterStart \in Nat /\ SemesterEnd \in Nat /\ day \in Nat /\ SemesterStart <= day /\ day <= SemesterEnd
    BY CalendarAssumption
  <1>2. e.first = SemesterStart + ((d - SemesterStart) % 7)
    BY DEF FirstOccurrence, Week
  <1>3. (e.first <= day /\ (day - e.first) % 7 = 0) <=> day % 7 = d
    BY <1>1, <1>2
  <1> QED
    BY <1>1, <1>3 DEF FallsOn, Week

\* The events of one row unfold to its week, whatever the semester.
LEMMA EventsAreTheWeek ==
  ASSUME NEW row, ~Corrupt(row), DOMAIN row.times \in SUBSET (Nat \ {0}),
         NEW day \in SemesterStart..SemesterEnd
  PROVE  LET on == {e \in Events(row) : FallsOn(e, day)}
             held == IF (day % Week) + 1 \in DOMAIN row.times
                       THEN row.times[(day % Week) + 1] ELSE {}
         IN /\ on = {} <=> held = {}
            /\ \A e \in on : /\ \E c \in held : e.start = Begins(c)
                             /\ \E c \in held : e.end = Ends(c)
                             /\ \A c \in held : e.start <= Begins(c) /\ Ends(c) <= e.end
  <1> DEFINE at == (day % 7) + 1
             held == IF at \in DOMAIN row.times THEN row.times[at] ELSE {}
             on == {e \in Events(row) : FallsOn(e, day)}
             event(b) == [uid |-> EventUid(row, b), first |-> FirstOccurrence(b.day), start |-> b.start,
                          end |-> b.end, until |-> SemesterEnd]
  <1>1. Events(row) = {event(b) : b \in DayBlocks(row)}
    BY DEF Events
  <1>2. day % 7 \in 0..6 /\ at \in 1..7
    BY CalendarAssumption
  <1>3. \A b \in DayBlocks(row) : FallsOn(event(b), day) <=> day % 7 = b.day
    BY BlockSpansItsPeriods, FallsOnItsWeekday
  <1>4. \A b \in DayBlocks(row) : event(b).start = b.start /\ event(b).end = b.end
    OBVIOUS
  <1> HIDE DEF event
  <1>5. ASSUME NEW e \in on
        PROVE  /\ held # {} /\ \E c \in held : e.start = Begins(c)
               /\ \E c \in held : e.end = Ends(c)
               /\ \A c \in held : e.start <= Begins(c) /\ Ends(c) <= e.end
    <2>1. PICK b \in DayBlocks(row) : e = event(b) /\ day % 7 = b.day
      BY <1>1, <1>3
    <2>2. held = b.codes /\ held # {}
      BY <2>1, BlockSpansItsPeriods
    <2> QED
      BY <1>4, <2>1, <2>2, BlockSpansItsPeriods
  <1>6. ASSUME held # {}
        PROVE  on # {}
    <2>1. at \in DOMAIN row.times /\ at <= 7 /\ row.times[at] # {}
      BY <1>2, <1>6
    <2> DEFINE b == [day |-> at - 1, codes |-> row.times[at],
                     start |-> Least({Begins(c) : c \in row.times[at]}),
                     end |-> Greatest({Ends(c) : c \in row.times[at]})]
    <2>2. b \in DayBlocks(row)
      BY <2>1 DEF DayBlocks, Week
    <2>3. b.day = day % 7
      BY <1>2
    <2> QED
      BY <1>1, <1>3, <2>2, <2>3
  <1> HIDE DEF on, at
  <1> QED
    BY <1>5, <1>6 DEF on, at, Week

\* An event is named after its course, and lies in the semester.
LEMMA EventNames ==
  ASSUME NEW row, ~Corrupt(row), DOMAIN row.times \in SUBSET (Nat \ {0}), NEW e \in Events(row)
  PROVE  e.uid[1] = row.identity /\ SemesterStart <= e.first
  <1>1. PICK b \in DayBlocks(row) :
          e = [uid |-> EventUid(row, b), first |-> FirstOccurrence(b.day), start |-> b.start,
               end |-> b.end, until |-> SemesterEnd]
    BY DEF Events
  <1>2. e.uid[1] = row.identity
    BY <1>1 DEF EventUid
  <1>3. b.day \in 0..6
    BY BlockSpansItsPeriods
  <1>4. (b.day - SemesterStart) % 7 \in 0..6
    <2>1. \A d, s \in Int : (d - s) % 7 \in 0..6
      OBVIOUS
    <2>2. SemesterStart \in Int
      BY CalendarAssumption
    <2>3. b.day \in Int
      BY <1>3
    <2> QED
      BY <2>1, <2>2, <2>3
  <1>5. e.first = SemesterStart + ((b.day - SemesterStart) % 7)
    BY <1>1 DEF FirstOccurrence, Week
  <1> QED
    BY <1>2, <1>4, <1>5, CalendarAssumption

\* A calendar is given out only for a plan of whole rows.
LEMMA GivenOut ==
  ASSUME NEW plan, ExportPlanIcs(plan).code = 200
  PROVE  /\ ExportPlanIcs(plan) = [code |-> 200, plan |-> plan, events |-> BuildPlanIcs(plan)]
         /\ \A i \in DOMAIN plan : plan[i] \in DOMAIN ClassRow /\ ~Corrupt(ClassRow[plan[i]])
  <1>1. \A code : NoExport(code, plan).code = code
    BY DEF NoExport
  <1>2. \A i \in DOMAIN plan : plan[i] \in ToSet(plan)
    BY DEF ToSet
  <1>3. /\ ToSet(plan) \subseteq DOMAIN ClassRow
        /\ \A id \in ToSet(plan) : ~Corrupt(ClassRow[id])
        /\ ExportPlanIcs(plan) = [code |-> 200, plan |-> plan, events |-> BuildPlanIcs(plan)]
    BY <1>1 DEF ExportPlanIcs
  <1> QED
    BY <1>2, <1>3

\* The theorem behind CalendarIsExact: the weekly events unfold to the timetable.
THEOREM CalendarsAreExact == CalendarSpec => []CalendarIsExact
  <1>1. CalendarInit => CalendarOK
    BY DEF CalendarInit, CalendarOK
  <1>2. CalendarOK /\ [CalendarNext]_calendar => CalendarOK'
    <2> SUFFICES ASSUME CalendarOK, [CalendarNext]_calendar PROVE CalendarOK'
      OBVIOUS
    <2>1. CASE \E plan \in Plans : AskExport(plan)
      BY <2>1 DEF AskExport, CalendarOK
    <2>2. CASE TakeCalendar
      BY <2>2 DEF TakeCalendar, CalendarOK
    <2>3. CASE UNCHANGED calendar
      BY <2>3 DEF CalendarOK
    <2> QED
      BY <2>1, <2>2, <2>3 DEF CalendarNext
  <1>3. CalendarOK => CalendarIsExact
    <2> SUFFICES ASSUME NEW plan \in Plans, calendar = ExportPlanIcs(plan), calendar.code = 200
                 PROVE  CalendarIsExact
      BY DEF CalendarOK, NoCalendar, CalendarIsExact
    <2>1. /\ calendar.plan = plan /\ calendar.events = BuildPlanIcs(plan)
          /\ \A i \in DOMAIN plan : plan[i] \in DOMAIN ClassRow /\ ~Corrupt(ClassRow[plan[i]])
      BY GivenOut
    <2> DEFINE row(i) == ClassRow[plan[i]]
    <2>2. \A i \in DOMAIN plan :
            /\ ~Corrupt(row(i)) /\ DOMAIN row(i).times \in SUBSET (Nat \ {0})
            /\ calendar.events[i] = Events(row(i))
      <3>1. ASSUME NEW i \in DOMAIN plan
            PROVE  DOMAIN row(i).times \in SUBSET (Nat \ {0})
        <4>1. row(i).times \in Seq(ToSet(row(i).times))
          BY <2>1, CalendarAssumption
        <4> QED
          BY <4>1
      <3> QED
        BY <2>1, <3>1 DEF BuildPlanIcs
    <2> HIDE DEF row
    <2>3. ASSUME NEW i \in DOMAIN plan, NEW day \in SemesterStart..SemesterEnd
          PROVE  LET on == {e \in calendar.events[i] : FallsOn(e, day)}
                     held == IF (day % Week) + 1 \in DOMAIN row(i).times
                               THEN row(i).times[(day % Week) + 1] ELSE {}
                 IN /\ on = {} <=> held = {}
                    /\ \A e \in on : /\ \E c \in held : e.start = Begins(c)
                                     /\ \E c \in held : e.end = Ends(c)
                                     /\ \A c \in held : e.start <= Begins(c) /\ Ends(c) <= e.end
      BY <2>2, EventsAreTheWeek
    <2>4. \A i \in DOMAIN plan : \A e \in calendar.events[i] :
            e.uid[1] = row(i).identity /\ SemesterStart <= e.first
      BY <2>2, EventNames
    <2>5. \A i, k \in DOMAIN plan :
            (\E e \in calendar.events[i], f \in calendar.events[k] : e.uid = f.uid)
              => row(k).identity = row(i).identity
      BY <2>4
    <2> QED
      BY <2>1, <2>3, <2>4, <2>5 DEF CalendarIsExact, row
  <1> QED
    BY <1>1, <1>2, <1>3, PTL DEF CalendarSpec

-----------------------------------------------------------------------------
(* The listing of courses.                                                  *)

Lists(T) == {s \in SetToSeqs(T) : \A i \in 1..(Len(s) - 1) : Precedes(s[i], s[i + 1])}

\* x is listed before y, or NULL comes last.
Lower(x, y) == x # y /\ x # Null /\ (y = Null \/ x < y)

Before(T) == {p \in T \X T : Precedes(p[1], p[2]) /\ p[1] # p[2]}

LEMMA LowerOrders ==
  ASSUME NEW x \in Nat \cup {Null}, NEW y \in Nat \cup {Null}, NEW z \in Nat \cup {Null}
  PROVE  /\ Lower(x, y) /\ Lower(y, z) => Lower(x, z)
         /\ ~(Lower(x, y) /\ Lower(y, x))
         /\ x = y \/ Lower(x, y) \/ Lower(y, x)
  BY DEF Lower

LEMMA PrecedesMeans ==
  ASSUME NEW c, NEW d
  PROVE  Precedes(c, d) <=>
           \/ Lower(c.dept, d.dept)
           \/ c.dept = d.dept /\ (Lower(c.name, d.name) \/ (c.name = d.name /\ c.id <= d.id))
  <1>1. \A x, y : Lower(x, y) => x # y
    BY DEF Lower
  <1>2. CASE c.dept # d.dept
    BY <1>2 DEF Precedes, NullsLast, Lower
  <1>3. CASE c.dept = d.dept /\ c.name # d.name
    <2>1. Precedes(c, d) <=> NullsLast(c.name, d.name, c.id <= d.id)
      BY <1>3, Zenon DEF Precedes, NullsLast
    <2>2. NullsLast(c.name, d.name, c.id <= d.id) <=> Lower(c.name, d.name)
      BY <1>3 DEF NullsLast, Lower
    <2>3. ~Lower(c.dept, d.dept)
      BY <1>1, <1>3
    <2>4. Precedes(c, d) <=> Lower(c.name, d.name)
      BY <2>1, <2>2, Zenon
    <2> QED
      BY <1>3, <2>3, <2>4, Zenon
  <1>4. CASE c.dept = d.dept /\ c.name = d.name
    BY <1>4 DEF Precedes, NullsLast, Lower
  <1> QED
    BY <1>2, <1>3, <1>4

\* The order of a listing leaves no two courses of the table unordered.
LEMMA ListingOrders ==
  ASSUME NEW T, table \in Tables, T \in SUBSET table
  PROVE  IsFiniteSet(T) /\ Orders(Before(T), T)
  <1>1. IsFiniteSet(T)
    BY ListingAssumption, FS_Subset
  <1>2. \A c \in T : c.id \in Nat /\ c.dept \in Nat \cup {Null} /\ c.name \in Nat \cup {Null}
    BY ListingAssumption
  <1>3. \A c, d \in T : c.id = d.id => c = d
    BY ListingAssumption
  <1>4. ASSUME NEW x \in T, NEW y \in T, NEW z \in T, Precedes(x, y), Precedes(y, z)
        PROVE  Precedes(x, z)
    <2>1. /\ Lower(x.dept, y.dept) /\ Lower(y.dept, z.dept) => Lower(x.dept, z.dept)
          /\ Lower(x.name, y.name) /\ Lower(y.name, z.name) => Lower(x.name, z.name)
      BY <1>2, LowerOrders
    <2>2. x.id <= y.id /\ y.id <= z.id => x.id <= z.id
      BY <1>2
    <2> QED
      BY <1>4, <2>1, <2>2, PrecedesMeans
  <1>5. ASSUME NEW x \in T, NEW y \in T, Precedes(x, y), Precedes(y, x)
        PROVE  x = y
    <2>1. x.dept = y.dept
      BY <1>2, <1>5, LowerOrders, PrecedesMeans
    <2>2. x.name = y.name
      BY <1>2, <1>5, <2>1, LowerOrders, PrecedesMeans
    <2>3. x.id <= y.id /\ y.id <= x.id
      BY <1>2, <1>5, <2>1, <2>2, PrecedesMeans DEF Lower
    <2> QED
      BY <1>2, <1>3, <2>3
  <1>6. ASSUME NEW x \in T, NEW y \in T
        PROVE  Precedes(x, y) \/ Precedes(y, x)
    <2>1. /\ x.dept = y.dept \/ Lower(x.dept, y.dept) \/ Lower(y.dept, x.dept)
          /\ x.name = y.name \/ Lower(x.name, y.name) \/ Lower(y.name, x.name)
      BY <1>2, LowerOrders
    <2>2. x.id <= y.id \/ y.id <= x.id
      BY <1>2
    <2>3. CASE x.dept # y.dept
      BY <2>1, <2>3, PrecedesMeans
    <2>4. CASE x.dept = y.dept /\ x.name # y.name
      <3>1. CASE Lower(x.name, y.name)
        BY <2>4, <3>1, PrecedesMeans, Zenon
      <3>2. CASE Lower(y.name, x.name)
        <4>1. y.dept = x.dept
          BY <2>4
        <4> QED
          BY <3>2, <4>1, PrecedesMeans, Zenon
      <3> QED
        BY <2>1, <2>4, <3>1, <3>2
    <2>5. CASE x.dept = y.dept /\ x.name = y.name
      BY <2>2, <2>5, PrecedesMeans
    <2> QED
      BY <2>3, <2>4, <2>5
  <1>7. \A x, y : <<x, y>> \in Before(T) <=> x \in T /\ y \in T /\ Precedes(x, y) /\ x # y
    BY DEF Before
  <1> QED
    BY <1>1, <1>4, <1>5, <1>6, <1>7 DEF Orders

\* There is one listing of the rows, and each row is once in it.
LEMMA OneListing ==
  ASSUME NEW T, table \in Tables, T \in SUBSET table, NEW s \in Lists(T)
  PROVE  /\ s \in Seq(T) /\ Len(s) = Cardinality(T) /\ DOMAIN s = 1..Len(s)
         /\ \A i, j \in DOMAIN s : s[i] = s[j] => i = j
         /\ \A x \in T : \E i \in DOMAIN s : s[i] = x
         /\ \A t \in Lists(T) : t = s
  <1>1. IsFiniteSet(T) /\ Orders(Before(T), T)
    BY ListingOrders
  <1>2. \A t \in Lists(T) :
          /\ t \in Seq(T) /\ Len(t) = Cardinality(T) /\ DOMAIN t = 1..Len(t)
          /\ \A i, j \in DOMAIN t : t[i] = t[j] => i = j
          /\ \A x \in T : \E i \in DOMAIN t : t[i] = x
    BY <1>1, Enumerates DEF Lists
  <1>3. ASSUME NEW t \in Lists(T)
        PROVE  t \in SetToSeqs(T) /\ \A i, j \in DOMAIN t : i < j => <<t[i], t[j]>> \in Before(T)
    <2> DEFINE n == Len(t)
    <2>1. n \in Nat /\ t \in [1..n -> T] /\ DOMAIN t = 1..n
      BY <1>2
    <2>2. \A i \in 1..(n - 1) : <<t[i], t[i + 1]>> \in Before(T)
      <3> SUFFICES ASSUME NEW i \in 1..(n - 1) PROVE <<t[i], t[i + 1]>> \in Before(T)
        OBVIOUS
      <3>1. i \in 1..n /\ i + 1 \in 1..n /\ i # i + 1
        BY <2>1
      <3>2. t[i] # t[i + 1] /\ t[i] \in T /\ t[i + 1] \in T
        BY <1>2, <2>1, <3>1
      <3>3. Precedes(t[i], t[i + 1])
        BY DEF Lists
      <3> QED
        BY <3>2, <3>3 DEF Before
    <2>3. \A x, y, z \in T : <<x, y>> \in Before(T) /\ <<y, z>> \in Before(T) => <<x, z>> \in Before(T)
      BY <1>1 DEF Orders
    <2> HIDE DEF n
    <2>4. \A i, j \in 1..n : i < j => <<t[i], t[j]>> \in Before(T)
      BY <2>1, <2>2, <2>3, NeighboursSuffice
    <2> QED
      BY <2>1, <2>4 DEF Lists
  <1>4. \A t \in Lists(T) : t = s
    BY <1>1, <1>3, OneEnumeration
  <1> QED
    BY <1>2, <1>4

\* A request means the same whether its filters or the student's words say it.
LEMMA FiltersSayTheRequest ==
  ASSUME NEW raw, NEW default, table \in Tables, ~Refused(raw),
         table # {} => default = Max({c.year_sem : c \in table})
  PROVE  Matching(ParseCourseParams(raw, default)) = Wanted(raw)
  <1> DEFINE f == ParseCourseParams(raw, default)
             newest == {c.year_sem : c \in {d \in table : \A e \in table : e.year_sem <= d.year_sem}}
  <1>1. /\ DOMAIN raw \subseteq Params /\ \A name \in DOMAIN raw : Legal(name, raw[name])
        /\ Given(raw, "period") => Given(raw, "weekday")
    BY DEF Refused
  <1>2. \A name \in Params \ {"page"} :
          f[name] = IF Given(raw, name) THEN raw[name] ELSE IF name = "year_sem" THEN default ELSE Null
    BY DEF ParseCourseParams
  <1>3. Null \notin Nat /\ Null \notin BOOLEAN
    BY ListingAssumption
  <1>4. \A name \in Params \ {"page", "year_sem"} : Given(raw, name) => raw[name] # Null
    <2> SUFFICES ASSUME NEW name \in Params \ {"page", "year_sem"}, Given(raw, name)
                 PROVE  raw[name] # Null
      OBVIOUS
    <2>1. Legal(name, raw[name])
      BY <1>1 DEF Given
    <2>2. CASE name \in {"grade", "weekday", "credit"}
      <3>1. raw[name] \in Nat
        BY <2>1, <2>2 DEF Legal
      <3> QED
        BY <1>3, <3>1
    <2>3. CASE name \in {"compulsory", "english", "available"}
      <3>1. raw[name] \in BOOLEAN
        BY <2>1, <2>3 DEF Legal
      <3> QED
        BY <1>3, <3>1
    <2>4. CASE name \in {"q", "dept", "period"}
      BY <2>1, <2>4 DEF Legal
    <2> QED
      BY <2>2, <2>3, <2>4 DEF Params
  <1>5. Given(raw, "available") => raw["available"] \in BOOLEAN
    BY <1>1 DEF Given, Legal
  <1>6. ASSUME table # {}
        PROVE  newest = {default}
    <2> DEFINE Y == {c.year_sem : c \in table}
    <2>1. \A c \in table : c.year_sem \in Nat
      BY ListingAssumption
    <2>2. \E y \in Y : \A z \in Y : y >= z
      <3>1. IsFiniteSet(Y) /\ Y \in SUBSET Nat /\ Y # {}
        <4>1. IsFiniteSet(table)
          BY ListingAssumption
        <4> DEFINE g == [c \in table |-> c.year_sem]
        <4>2. g \in Surjection(table, Y)
          BY DEF Surjection
        <4>3. IsFiniteSet(Y)
          BY <4>1, <4>2, FS_Surjection
        <4> QED
          BY <1>6, <2>1, <4>3
      <3> DEFINE R == {p \in Y \X Y : p[1] > p[2]}
      <3>2. \A y, z \in Y : <<y, z>> \in R <=> y > z
        OBVIOUS
      <3> HIDE DEF Y, R
      <3>3. Orders(R, Y)
        BY <3>1, <3>2 DEF Orders
      <3>4. PICK s \in SetToSeqs(Y) : \A i, j \in 1..Cardinality(Y) : i < j => <<s[i], s[j]>> \in R
        BY <3>1, <3>3, SortedEnumeration
      <3>5. /\ Cardinality(Y) \in Nat /\ s \in [1..Cardinality(Y) -> Y]
            /\ \A x \in Y : \E i \in 1..Cardinality(Y) : s[i] = x
        BY <3>1, <3>4, Enumerates, FS_CardinalityType DEF SetToSeqs
      <3>6. 1 \in 1..Cardinality(Y)
        BY <3>1, <3>5
      <3>7. ASSUME NEW z \in Y
            PROVE  s[1] >= z
        <4>1. PICK i \in 1..Cardinality(Y) : s[i] = z
          BY <3>5
        <4>2. s[1] \in Nat /\ z \in Nat
          BY <3>1, <3>5, <3>6
        <4>3. CASE i = 1
          BY <4>1, <4>2, <4>3
        <4>4. CASE i # 1
          <5>1. 1 < i
            BY <3>5, <4>4
          <5>2. s[1] > z
            BY <3>2, <3>4, <3>5, <3>6, <4>1, <5>1
          <5> QED
            BY <4>2, <5>2
        <4> QED
          BY <4>3, <4>4
      <3> QED
        BY <3>5, <3>6, <3>7
    <2>3. default \in Y /\ \A z \in Y : default >= z
      BY <1>6, <2>2 DEF Max
    <2> QED
      BY <2>1, <2>3
  <1> HIDE DEF f, newest
  <1>7. ASSUME NEW c \in table
        PROVE  Matches(f, c) <=> c \in Wanted(raw)
    <2>1. f["year_sem"] = IF Given(raw, "year_sem") THEN raw["year_sem"] ELSE default
      BY <1>2 DEF Params
    <2>2. c.year_sem = f["year_sem"]
            <=> c.year_sem \in IF Given(raw, "year_sem") THEN {raw["year_sem"]} ELSE newest
      BY <1>6, <2>1
    <2>3. \A name \in Params \ {"page", "year_sem"} :
            /\ f[name] # Null <=> Given(raw, name)
            /\ Given(raw, name) => f[name] = raw[name]
      BY <1>2, <1>4
    <2>4. (f["q"] # Null => f["q"] \in c.words) <=> (Given(raw, "q") => raw["q"] \in c.words)
      BY <2>3 DEF Params
    <2>5. (\A name \in {"dept", "grade", "credit", "compulsory", "english"} :
             f[name] # Null => c[name] = f[name])
            <=> \A name \in {"dept", "grade", "credit", "compulsory", "english"} :
                  Given(raw, name) => raw[name] = c[name]
      BY <2>3 DEF Params
    <2>6. (f["available"] = TRUE => c.remaining > 0)
            <=> (Given(raw, "available") => (raw["available"] => c.remaining > 0))
      <3>1. CASE Given(raw, "available")
        BY <1>5, <2>3, <3>1 DEF Params
      <3>2. CASE ~Given(raw, "available")
        <4>1. f["available"] # TRUE
          BY <1>3, <2>3, <3>2 DEF Params
        <4> QED
          BY <3>2, <4>1
      <3> QED
        BY <3>1, <3>2
    <2>7. (f["weekday"] # Null => SlotMatches(f, c))
            <=> (Given(raw, "weekday") =>
                   \E day \in DOMAIN c.class_time :
                     /\ day = raw["weekday"]
                     /\ \E p \in c.class_time[day] : Given(raw, "period") => p = raw["period"])
      BY <2>3 DEF Params, SlotMatches
    <2> DEFINE sem == c.year_sem \in IF Given(raw, "year_sem") THEN {raw["year_sem"]} ELSE newest
               word == Given(raw, "q") => raw["q"] \in c.words
               same == \A name \in {"dept", "grade", "credit", "compulsory", "english"} :
                         Given(raw, name) => raw[name] = c[name]
               free == Given(raw, "available") => (raw["available"] => c.remaining > 0)
               slot == Given(raw, "weekday") =>
                         \E day \in DOMAIN c.class_time :
                           /\ day = raw["weekday"]
                           /\ \E p \in c.class_time[day] : Given(raw, "period") => p = raw["period"]
    <2>8. c \in Wanted(raw) <=> sem /\ word /\ same /\ free /\ slot
      BY DEF Wanted, newest
    <2> HIDE DEF sem, word, same, free, slot
    <2>9. Matches(f, c) <=> sem /\ word /\ same /\ free /\ slot
      BY <2>2, <2>4, <2>5, <2>6, <2>7 DEF Matches, sem, word, same, free, slot
    <2> QED
      BY <2>8, <2>9
  <1>8. Wanted(raw) \subseteq table
    BY DEF Wanted
  <1> QED
    BY <1>7, <1>8 DEF Matching, f

\* The pages before page n are the beginning of the one listing.
Turned(n) ==
  \/ n = 1 /\ listing.got = <<>>
  \/ \E s \in Lists(Wanted(listing.raw)) :
       (n - 1) * PerPage <= Len(s) /\ listing.got = SubSeq(s, 1, (n - 1) * PerPage)

ShowsPage(n) ==
  \E s \in Lists(Wanted(listing.raw)) :
    listing.got = SubSeq(s, 1, IF n * PerPage < Len(s) THEN n * PerPage ELSE Len(s))

IsListing ==
  listing = [pc |-> listing.pc, raw |-> listing.raw, page |-> listing.page,
             filter |-> listing.filter, total |-> listing.total, got |-> listing.got,
             whole |-> listing.whole]

\* ListingIsWhole needs what each statement has left for the next one.
ListingInv ==
  /\ table \in Tables /\ IsListing
  /\ listing.whole /\ listing.pc # "idle" =>
       /\ listing.page \in Nat \ {0}
       /\ listing.pc \in {"newest", "count", "slice"} => Turned(listing.page)
       /\ listing.pc \in {"count", "slice"} => Matching(listing.filter) = Wanted(listing.raw)
       /\ listing.pc \in {"slice", "page"} => listing.total = Cardinality(Wanted(listing.raw))
       /\ listing.pc = "page" => ShowsPage(listing.page)

LEMMA WantedIsThere == ASSUME NEW raw PROVE Wanted(raw) \in SUBSET table
  BY DEF Wanted

\* Turning a page continues the listing where it stopped.
LEMMA PagesJoin ==
  ASSUME NEW T, NEW s \in Seq(T), NEW n \in Nat \ {0}, (n - 1) * PerPage <= Len(s)
  PROVE  SubSeq(s, 1, (n - 1) * PerPage) \o Slice(s, n)
           = SubSeq(s, 1, IF n * PerPage < Len(s) THEN n * PerPage ELSE Len(s))
  <1> DEFINE a == (n - 1) * PerPage
             b == a + PerPage
             m == IF b < Len(s) THEN b ELSE Len(s)
  <1>1. PerPage \in Nat \ {0} /\ Len(s) \in Nat
    BY ListingAssumption
  <1>2. a \in Nat /\ b = n * PerPage
    <2>1. n - 1 \in Nat /\ n = (n - 1) + 1
      OBVIOUS
    <2>2. \A i, k \in Nat : i * k \in Nat /\ (i + 1) * k = i * k + k
      OBVIOUS
    <2>3. ((n - 1) + 1) * PerPage = (n - 1) * PerPage + PerPage /\ (n - 1) * PerPage \in Nat
      BY <1>1, <2>1, <2>2
    <2> QED
      BY <2>1, <2>3
  <1>3. a <= Len(s)
    OBVIOUS
  <1>4. Slice(s, n) = SubSeq(s, a + 1, Min({b, Len(s)}))
    BY DEF Slice, LimitOffset
  <1> HIDE DEF a
  <1>5. b \in Nat
    BY <1>1, <1>2
  <1> HIDE DEF b
  <1>6. Min({b, Len(s)}) = m
    <2>1. m \in {b, Len(s)} /\ \A y \in {b, Len(s)} : m <= y
      BY <1>1, <1>5
    <2>2. \A x \in {b, Len(s)} : (\A y \in {b, Len(s)} : x <= y) => x = m
      BY <1>1, <1>5
    <2> QED
      BY <2>1, <2>2 DEF Min
  <1>7. m \in a..Len(s)
    BY <1>1, <1>2, <1>3, <1>5 DEF b
  <1> HIDE DEF m
  <1>8. SubSeq(s, 1, a) \o SubSeq(s, a + 1, m) = SubSeq(s, 1, m)
    BY <1>1, <1>2, <1>3, <1>7
  <1> QED
    BY <1>2, <1>4, <1>6, <1>8 DEF a, b, m

\* A commit between two statements is what the property sets apart.
LEMMA IngestSpoils ==
  ASSUME ListingInv, IngestCommits
  PROVE  ListingInv'
  <1>1. table' \in Tables
    BY DEF IngestCommits
  <1>2. listing' = [pc |-> listing.pc, raw |-> listing.raw, page |-> listing.page,
                    filter |-> listing.filter, total |-> listing.total, got |-> listing.got,
                    whole |-> listing.pc = "idle"]
    BY DEF IngestCommits, ListingInv, IsListing
  <1>3. IsListing' /\ listing'.pc = listing.pc
    BY <1>2 DEF IsListing
  <1>4. listing'.whole <=> listing.pc = "idle"
    <2>1. listing'.whole = (listing.pc = "idle")
      BY <1>2
    <2> QED
      BY <2>1
  <1> QED
    BY <1>1, <1>3, <1>4 DEF ListingInv

\* The requests of a listing, one statement after the other.
LEMMA ListingSteps ==
  ASSUME ListingInv, UNCHANGED table,
         \/ \E raw \in Queries : StartListing(raw)
         \/ NewestSemester \/ FetchCount \/ FetchSlice \/ TurnOver \/ CloseListing
  PROVE  ListingInv'
  <1>1. table \in Tables /\ table' \in Tables /\ IsListing
    BY DEF ListingInv
  <1>2. ASSUME listing'.raw = listing.raw
        PROVE  Wanted(listing.raw)' = Wanted(listing.raw)
    BY <1>2 DEF Wanted, Given
  <1>3. ASSUME listing'.filter = listing.filter
        PROVE  Matching(listing.filter)' = Matching(listing.filter)
    BY <1>3 DEF Matching, Matches, SlotMatches
  <1>4. ASSUME NEW raw, StartListing(raw) PROVE ListingInv'
    <2>1. listing' = [NoListing EXCEPT !.pc = "newest", !.raw = raw]
      BY <1>4 DEF StartListing
    <2>2. NoListing = [f \in {"pc", "raw", "page", "filter", "total", "got", "whole"} |-> NoListing[f]]
      BY DEF NoListing
    <2>3. NoListing.page = 1 /\ NoListing.got = <<>>
      BY DEF NoListing
    <2> HIDE DEF NoListing
    <2>4. /\ IsListing' /\ listing'.pc = "newest"
          /\ listing'.page = 1 /\ listing'.got = <<>>
      BY <2>1, <2>2, <2>3 DEF IsListing
    <2> QED
      BY <1>1, <2>4 DEF ListingInv, Turned
  <1>5. CASE CloseListing \/ (NewestSemester /\ listing' = NoListing)
    <2>1. listing' = [pc |-> "idle", raw |-> <<>>, page |-> 1, filter |-> Null, total |-> 0,
                      got |-> <<>>, whole |-> TRUE]
      BY <1>5 DEF CloseListing, NoListing
    <2> QED
      BY <1>1, <2>1 DEF ListingInv, IsListing
  <1>6. CASE NewestSemester /\ listing' # NoListing
    <2>1. PICK default \in IF table = {} THEN Resolved ELSE {Max({c.year_sem : c \in table})} :
            listing' = IF default = Null \/ Refused(listing.raw)
                         THEN NoListing
                         ELSE [listing EXCEPT !.pc = "count",
                                              !.filter = ParseCourseParams(listing.raw, default)]
      BY <1>6 DEF NewestSemester
    <2>2. ~Refused(listing.raw) /\ listing.pc = "newest"
      BY <1>6, <2>1 DEF NewestSemester
    <2>3. listing' = [pc |-> "count", raw |-> listing.raw, page |-> listing.page,
                      filter |-> ParseCourseParams(listing.raw, default), total |-> listing.total,
                      got |-> listing.got, whole |-> listing.whole]
      BY <1>1, <1>6, <2>1 DEF IsListing
    <2>4. Matching(ParseCourseParams(listing.raw, default)) = Wanted(listing.raw)
      BY <1>1, <2>1, <2>2, FiltersSayTheRequest
    <2>5. Matching(listing.filter)' = Matching(ParseCourseParams(listing.raw, default))
      BY <2>3 DEF Matching, Matches, SlotMatches
    <2>6. Wanted(listing.raw)' = Wanted(listing.raw)
      BY <1>2, <2>3
    <2>7. IsListing'
      BY <2>3 DEF IsListing
    <2>8. Lists(Wanted(listing.raw))' = Lists(Wanted(listing.raw))
      BY <2>6 DEF Lists
    <2>9. listing.whole => Turned(listing.page)'
      BY <2>2, <2>3, <2>8 DEF ListingInv, Turned
    <2> QED
      BY <1>1, <2>2, <2>3, <2>4, <2>5, <2>6, <2>7, <2>9 DEF ListingInv
  <1>7. CASE FetchCount
    <2>1. listing' = [pc |-> "slice", raw |-> listing.raw, page |-> listing.page,
                      filter |-> listing.filter, total |-> Cardinality(Matching(listing.filter)),
                      got |-> listing.got, whole |-> listing.whole]
          /\ listing.pc = "count"
      BY <1>1, <1>7 DEF FetchCount, IsListing
    <2>2. /\ Wanted(listing.raw)' = Wanted(listing.raw)
          /\ Matching(listing.filter)' = Matching(listing.filter)
      BY <1>2, <1>3, <2>1
    <2>3. IsListing'
      BY <2>1 DEF IsListing
    <2>4. Lists(Wanted(listing.raw))' = Lists(Wanted(listing.raw))
      BY <2>2 DEF Lists
    <2>5. listing.whole => Turned(listing.page)'
      BY <2>1, <2>4 DEF ListingInv, Turned
    <2> QED
      BY <1>1, <2>1, <2>2, <2>3, <2>5 DEF ListingInv
  <1>8. CASE FetchSlice
    <2>1. PICK s \in Ordered(listing.filter) :
            listing' = [listing EXCEPT !.pc = "page", !.got = @ \o Slice(s, listing.page)]
      BY <1>8 DEF FetchSlice
    <2>2. listing' = [pc |-> "page", raw |-> listing.raw, page |-> listing.page,
                      filter |-> listing.filter, total |-> listing.total,
                      got |-> listing.got \o Slice(s, listing.page), whole |-> listing.whole]
          /\ listing.pc = "slice"
      BY <1>1, <1>8, <2>1 DEF FetchSlice, IsListing
    <2>3. IsListing'
      BY <2>2 DEF IsListing
    <2>4. Wanted(listing.raw)' = Wanted(listing.raw)
      BY <1>2, <2>2
    <2>5. Lists(Wanted(listing.raw))' = Lists(Wanted(listing.raw))
      BY <2>4 DEF Lists
    <2>6. ASSUME listing.whole
          PROVE  ShowsPage(listing.page)'
      <3> DEFINE T == Wanted(listing.raw)
                 n == listing.page
      <3>1. n \in Nat \ {0} /\ Turned(n) /\ Matching(listing.filter) = T
        BY <2>2, <2>6 DEF ListingInv
      <3>2. s \in Lists(T)
        BY <3>1 DEF Ordered, Lists
      <3>3. T \in SUBSET table
        BY WantedIsThere
      <3>4. s \in Seq(T) /\ \A t \in Lists(T) : t = s
        BY <1>1, <3>2, <3>3, OneListing
      <3>5. (n - 1) * PerPage <= Len(s) /\ listing.got = SubSeq(s, 1, (n - 1) * PerPage)
        <4>1. CASE n = 1 /\ listing.got = <<>>
          <5>1. PerPage \in Nat /\ Len(s) \in Nat
            BY <3>4, ListingAssumption
          <5>2. (n - 1) * PerPage = 0
            BY <4>1, <5>1
          <5>3. SubSeq(s, 1, 0) = <<>>
            BY <3>4
          <5> QED
            BY <4>1, <5>1, <5>2, <5>3
        <4>2. CASE \E t \in Lists(T) : /\ (n - 1) * PerPage <= Len(t)
                                       /\ listing.got = SubSeq(t, 1, (n - 1) * PerPage)
          BY <3>4, <4>2
        <4> QED
          BY <3>1, <4>1, <4>2 DEF Turned
      <3>6. listing'.got = SubSeq(s, 1, IF n * PerPage < Len(s) THEN n * PerPage ELSE Len(s))
        BY <2>2, <3>1, <3>4, <3>5, PagesJoin
      <3>7. listing'.page = n
        BY <2>2
      <3> HIDE DEF n
      <3> QED
        BY <2>5, <3>2, <3>6, <3>7 DEF ShowsPage
    <2> QED
      BY <1>1, <2>2, <2>3, <2>4, <2>6 DEF ListingInv
  <1>9. CASE TurnOver
    <2>1. listing' = [pc |-> "newest", raw |-> listing.raw, page |-> listing.page + 1,
                      filter |-> listing.filter, total |-> listing.total,
                      got |-> listing.got, whole |-> listing.whole]
          /\ listing.pc = "page" /\ listing.page * PerPage < listing.total
      BY <1>1, <1>9 DEF TurnOver, IsListing
    <2>2. IsListing'
      BY <2>1 DEF IsListing
    <2>3. Wanted(listing.raw)' = Wanted(listing.raw)
      BY <1>2, <2>1
    <2>4. Lists(Wanted(listing.raw))' = Lists(Wanted(listing.raw))
      BY <2>3 DEF Lists
    <2>5. ASSUME listing.whole
          PROVE  Turned(listing.page)' /\ listing'.page \in Nat \ {0}
      <3> DEFINE T == Wanted(listing.raw)
                 n == listing.page
      <3>1. n \in Nat \ {0} /\ ShowsPage(n) /\ listing.total = Cardinality(T)
        BY <2>1, <2>5 DEF ListingInv
      <3>2. PICK s \in Lists(T) :
              listing.got = SubSeq(s, 1, IF n * PerPage < Len(s) THEN n * PerPage ELSE Len(s))
        BY <3>1 DEF ShowsPage
      <3>3. T \in SUBSET table
        BY WantedIsThere
      <3>4. s \in Seq(T) /\ Len(s) = Cardinality(T)
        BY <1>1, <3>2, <3>3, OneListing
      <3>5. n * PerPage < Len(s) /\ listing.got = SubSeq(s, 1, n * PerPage)
        BY <2>1, <3>1, <3>2, <3>4
      <3>6. PerPage \in Nat /\ Len(s) \in Nat /\ n * PerPage \in Nat
        <4>1. \A i, k \in Nat : i * k \in Nat
          OBVIOUS
        <4> QED
          BY <3>1, <3>4, <4>1, ListingAssumption
      <3>7. listing'.page - 1 = n /\ listing'.got = listing.got /\ listing'.page \in Nat \ {0}
        BY <2>1, <3>1
      <3>8. (listing'.page - 1) * PerPage <= Len(s)
        BY <3>5, <3>6, <3>7
      <3> QED
        BY <2>4, <3>2, <3>5, <3>7, <3>8 DEF Turned
    <2> QED
      BY <1>1, <2>1, <2>2, <2>5 DEF ListingInv
  <1> QED
    BY <1>4, <1>5, <1>6, <1>7, <1>8, <1>9

\* Every step of a listing, and an ingest that commits meanwhile.
LEMMA ListingStep == ListingInv /\ [ListingNext]_listingVars => ListingInv'
  <1> SUFFICES ASSUME ListingInv, [ListingNext]_listingVars PROVE ListingInv'
    OBVIOUS
  <1>1. CASE IngestCommits
    BY <1>1, IngestSpoils
  <1>2. CASE \/ \E raw \in Queries : StartListing(raw)
             \/ NewestSemester \/ FetchCount \/ FetchSlice \/ TurnOver \/ CloseListing
    <2>1. UNCHANGED table
      BY <1>2 DEF StartListing, NewestSemester, FetchCount, FetchSlice, TurnOver, CloseListing
    <2> QED
      BY <1>2, <2>1, ListingSteps
  <1>3. CASE UNCHANGED listingVars
    <2>1. UNCHANGED <<table, listing>>
      BY <1>3 DEF listingVars
    <2>2. Wanted(listing.raw)' = Wanted(listing.raw)
      BY <2>1 DEF Wanted, Given
    <2>3. Matching(listing.filter)' = Matching(listing.filter)
      BY <2>1 DEF Matching, Matches, SlotMatches
    <2>4. Lists(Wanted(listing.raw))' = Lists(Wanted(listing.raw))
      BY <2>2 DEF Lists
    <2>5. Turned(listing.page)' = Turned(listing.page) /\ ShowsPage(listing.page)' = ShowsPage(listing.page)
      BY <2>1, <2>4 DEF Turned, ShowsPage
    <2> QED
      BY <2>1, <2>2, <2>3, <2>5 DEF ListingInv, IsListing
  <1> QED
    BY <1>1, <1>2, <1>3 DEF ListingNext

\* The theorem behind ListingIsWhole: the pages of a listing that no ingest spoils
\* are the courses asked for, each once, for every table, request and page size.
THEOREM ListingsAreWhole == ListingSpec => []ListingIsWhole
  <1>1. ListingInit => ListingInv
    BY DEF ListingInit, ListingInv, IsListing, NoListing
  <1>2. ListingInv /\ [ListingNext]_listingVars => ListingInv'
    BY ListingStep
  <1>3. ListingInv => ListingIsWhole
    <2> SUFFICES ASSUME ListingInv, listing.pc = "page", listing.whole
                 PROVE  /\ listing.total = Cardinality(Wanted(listing.raw))
                        /\ IsInjective(listing.got)
                        /\ Range(listing.got) \subseteq Wanted(listing.raw)
                        /\ listing.page * PerPage >= listing.total =>
                             Range(listing.got) = Wanted(listing.raw)
      BY DEF ListingIsWhole
    <2> DEFINE T == Wanted(listing.raw)
               n == listing.page * PerPage
    <2>1. /\ table \in Tables /\ listing.page \in Nat \ {0} /\ ShowsPage(listing.page)
          /\ listing.total = Cardinality(T)
      BY DEF ListingInv
    <2>2. PICK s \in Lists(T) : listing.got = SubSeq(s, 1, IF n < Len(s) THEN n ELSE Len(s))
      BY <2>1 DEF ShowsPage
    <2>3. T \in SUBSET table
      BY WantedIsThere
    <2>4. /\ s \in Seq(T) /\ Len(s) = Cardinality(T) /\ DOMAIN s = 1..Len(s)
          /\ \A i, j \in DOMAIN s : s[i] = s[j] => i = j
          /\ \A x \in T : \E i \in DOMAIN s : s[i] = x
      BY <2>1, <2>2, <2>3, OneListing
    <2>5. n \in Nat /\ Len(s) \in Nat
      <3>1. \A i, k \in Nat : i * k \in Nat
        OBVIOUS
      <3> QED
        BY <2>1, <2>4, <3>1, ListingAssumption
    <2> HIDE DEF n, T
    <2> DEFINE m == IF n < Len(s) THEN n ELSE Len(s)
    <2>6. m \in 0..Len(s)
      BY <2>5
    <2>7. n >= Len(s) => m = Len(s)
      BY <2>5
    <2> HIDE DEF m
    <2>8. DOMAIN listing.got = 1..m /\ \A i \in 1..m : listing.got[i] = s[i] /\ i \in DOMAIN s
      BY <2>2, <2>4, <2>5, <2>6 DEF m
    <2>9. \A i \in DOMAIN s : s[i] \in T
      BY <2>4
    <2>10. IsInjective(listing.got)
      BY <2>4, <2>8 DEF IsInjective
    <2>11. Range(listing.got) \subseteq T
      BY <2>8, <2>9 DEF Range
    <2>12. n >= Len(s) => T \subseteq Range(listing.got)
      BY <2>4, <2>7, <2>8 DEF Range
    <2> QED
      BY <2>1, <2>4, <2>10, <2>11, <2>12 DEF n, T
  <1> QED
    BY <1>1, <1>2, <1>3, PTL DEF ListingSpec

-----------------------------------------------------------------------------
(* The cadence of the ingest.                                               *)

\* What an expression computes does not depend on when it is asked, as for the
\* default expressions (config.py:37-38): the seventh minute of every hour, and
\* every tenth minute.
EvenlySpaced(fires) == \A t, u \in Nat : IntervalAfter(fires, t) = IntervalAfter(fires, u)

LEMMA FireAfter ==
  ASSUME NEW fires \in SUBSET (0..(DayLength - 1)), fires # {}, NEW t \in Nat
  PROVE  \E n \in (t + 1)..(t + DayLength) : n % DayLength \in fires
  <1>1. PICK f \in fires : TRUE
    OBVIOUS
  <1> DEFINE a == t + 1
             m == (f - a) % DayLength
             q == (f - a) \div DayLength
  <1>2. /\ DayLength \in Nat \ {0} /\ f \in 0..(DayLength - 1) /\ f - a \in Int
        /\ a \in Nat /\ a = t + 1
    BY <1>1, CadenceAssumption
  <1> HIDE DEF a
  <1>3. f - a = DayLength * q + m /\ m \in 0..(DayLength - 1) /\ q \in Int
    <2>1. \A D \in Nat \ {0} : \A x \in Int :
            x = D * (x \div D) + (x % D) /\ x % D \in 0..(D - 1) /\ x \div D \in Int
      OBVIOUS
    <2> QED
      BY <1>2, <2>1
  <1> HIDE DEF m, q
  <1>4. a + m = DayLength * (-q) + f
    <2>1. \A D \in Nat : D * (-q) = -(D * q) /\ D * q \in Int
      BY <1>3
    <2> QED
      BY <1>2, <1>3, <2>1
  <1>5. (a + m) % DayLength = f
    <2>1. \A D \in Nat \ {0} : \A p \in Int : \A r \in 0..(D - 1) : (D * p + r) % D = r
      OBVIOUS
    <2>2. -q \in Int
      BY <1>3
    <2> QED
      BY <1>2, <1>4, <2>1, <2>2
  <1>6. a + m \in (t + 1)..(t + DayLength)
    BY <1>2, <1>3
  <1> QED
    BY <1>1, <1>5, <1>6

\* The next fire is one, and the first.
LEMMA NextFire ==
  ASSUME NEW fires \in SUBSET (0..(DayLength - 1)), fires # {}, NEW t \in Nat
  PROVE  /\ NextAfter(fires, t) \in Nat /\ NextAfter(fires, t) > t
         /\ NextAfter(fires, t) % DayLength \in fires
         /\ \A n \in Nat : n > t /\ n % DayLength \in fires => NextAfter(fires, t) <= n
  <1> DEFINE S == {n \in Nat : n > t /\ n % DayLength \in fires}
             Soonest(n) == /\ n % DayLength \in fires
                         /\ \A k \in (t + 1)..(n - 1) : k % DayLength \notin fires
  <1>1. PICK o \in (t + 1)..(t + DayLength) : o % DayLength \in fires
    BY FireAfter
  <1>2. DayLength \in Nat /\ o \in S /\ S \in SUBSET Nat
    BY <1>1, CadenceAssumption
  <1>3. PICK n \in S : \A k \in S : n <= k
    <2> HIDE DEF S
    <2> QED
      BY <1>2, LeastNumber
  <1>4. n <= o /\ n \in (t + 1)..(t + DayLength)
    <2>1. n > t
      BY <1>3
    <2>2. n \in Nat /\ n <= o
      <3> HIDE DEF S
      <3> QED
        BY <1>2, <1>3
    <2> QED
      BY <1>1, <1>2, <2>1, <2>2
  <1>5. Soonest(n)
    <2>1. ASSUME NEW k \in (t + 1)..(n - 1), k % DayLength \in fires
          PROVE  FALSE
      <3>1. k \in S /\ k < n
        BY <1>4, <2>1
      <3> QED
        BY <1>3, <1>4, <3>1
    <2> QED
      BY <1>3, <2>1
  <1> DEFINE N == NextAfter(fires, t)
  <1>6. N \in (t + 1)..(t + DayLength) /\ Soonest(N)
    BY <1>4, <1>5 DEF NextAfter
  <1> HIDE DEF N
  <1>7. ASSUME NEW k \in Nat, k > t, k % DayLength \in fires, ~(N <= k)
        PROVE  FALSE
    <2>1. k \in (t + 1)..(N - 1)
      BY <1>2, <1>6, <1>7
    <2> QED
      BY <1>6, <1>7, <2>1
  <1>8. N \in Nat /\ N > t /\ N % DayLength \in fires
    BY <1>2, <1>6
  <1> QED
    BY <1>7, <1>8 DEF N

\* A set without three different members has at most two.
LEMMA AtMostTwo ==
  ASSUME NEW S, IsFiniteSet(S), \A x, y, z \in S : x = y \/ y = z \/ x = z
  PROVE  Cardinality(S) <= 2
  <1>1. CASE S = {}
    BY <1>1, FS_EmptySet
  <1>2. CASE S # {}
    <2>1. PICK x \in S : TRUE
      BY <1>2
    <2> DEFINE R == S \ {x}
    <2>2. IsFiniteSet(R) /\ Cardinality(S) = Cardinality(R) + 1 /\ Cardinality(R) \in Nat
      <3>1. IsFiniteSet(R) /\ Cardinality(R) = Cardinality(S) - 1
        BY <2>1, FS_RemoveElement
      <3>2. Cardinality(R) \in Nat /\ Cardinality(S) \in Nat
        BY <3>1, FS_CardinalityType
      <3> QED
        BY <3>1, <3>2
    <2>3. CASE R = {}
      BY <2>2, <2>3, FS_EmptySet
    <2>4. CASE R # {}
      <3>1. PICK y \in R : TRUE
        BY <2>4
      <3>2. R \ {y} = {}
        BY <2>1, <3>1
      <3>3. Cardinality(R \ {y}) = Cardinality(R) - 1 /\ Cardinality(R \ {y}) = 0
        <4> HIDE DEF R
        <4> QED
          BY <2>2, <3>1, <3>2, FS_RemoveElement, FS_EmptySet
      <3> QED
        BY <2>2, <3>3
    <2> QED
      BY <2>3, <2>4
  <1> QED
    BY <1>1, <1>2

Fires(p) == IF p THEN Peak ELSE OffPeak
Spacing(p) == IntervalAfter(Fires(p), 0)

\* Two fires of one expression are an interval apart.
LEMMA FiresApart ==
  ASSUME NEW p \in BOOLEAN, EvenlySpaced(Fires(p))
  PROVE  /\ Spacing(p) \in Nat \ {0}
         /\ \A t \in Nat : LockTtl(Fires(p), t) = 2 * Spacing(p)
         /\ \A a, b \in Nat : /\ 0 < a /\ a < b
                             /\ a % DayLength \in Fires(p) /\ b % DayLength \in Fires(p)
                             => a + Spacing(p) <= b
  <1> DEFINE F == Fires(p)
             N(t) == NextAfter(F, t)
  <1>1. F \in SUBSET (0..(DayLength - 1)) /\ F # {}
    BY CadenceAssumption DEF Fires
  <1>2. \A t \in Nat : IntervalAfter(F, t) = Spacing(p)
    BY DEF EvenlySpaced, Spacing
  <1> HIDE DEF F
  <1>3. \A t \in Nat : /\ N(t) \in Nat /\ N(t) > t /\ N(t) % DayLength \in F
                       /\ \A n \in Nat : n > t /\ n % DayLength \in F => N(t) <= n
    BY <1>1, NextFire
  <1>4. \A t : IntervalAfter(F, t) = N(N(t)) - N(t)
    BY DEF IntervalAfter
  <1> HIDE DEF N
  <1>5. \A t \in Nat : N(N(t)) = N(t) + Spacing(p) /\ Spacing(p) \in Nat \ {0}
    <2> SUFFICES ASSUME NEW t \in Nat
                 PROVE  N(N(t)) = N(t) + Spacing(p) /\ Spacing(p) \in Nat \ {0}
      OBVIOUS
    <2>1. N(t) \in Nat /\ N(N(t)) \in Nat /\ N(N(t)) > N(t)
      BY <1>3
    <2>2. N(N(t)) - N(t) = Spacing(p)
      BY <1>2, <1>4
    <2> QED
      BY <2>1, <2>2
  <1>6. ASSUME NEW a \in Nat, NEW b \in Nat, 0 < a, a < b, a % DayLength \in F, b % DayLength \in F
        PROVE  a + Spacing(p) <= b
    <2>1. a - 1 \in Nat
      BY <1>6
    <2>2. N(a - 1) \in Nat /\ N(a - 1) > a - 1 /\ N(a - 1) <= a
      BY <1>3, <1>6, <2>1
    <2>3. N(a - 1) = a
      BY <2>1, <2>2
    <2>4. N(a) = a + Spacing(p)
      BY <1>5, <2>1, <2>3
    <2>5. N(a) <= b
      BY <1>3, <1>6
    <2> QED
      BY <2>4, <2>5
  <1>7. Spacing(p) \in Nat \ {0}
    BY <1>5
  <1>8. \A t \in Nat : LockTtl(F, t) = 2 * Spacing(p)
    BY <1>2 DEF LockTtl
  <1> QED
    BY <1>6, <1>7, <1>8 DEF F

CadenceTypes ==
  /\ clock \in Nat /\ expiry \in Nat /\ taken \in BOOLEAN
  /\ cron \in [pc : {"sleep", "round", "dead"}, peak : BOOLEAN, wake : Nat, ttl : Nat, since : Nat]
  /\ IsFiniteSet(skips) /\ skips \in SUBSET [at : Nat, peak : BOOLEAN]

\* What the scheduler computed is a fire of its cadence, and two intervals of it.
PlanKept ==
  cron.pc = "sleep" => /\ cron.wake % DayLength \in Fires(cron.peak)
                       /\ cron.ttl = 2 * Spacing(cron.peak)

\* The lock was taken at T; until it expires, every fire that is held up came after
\* T and before the end of two intervals.
SkipsSince(T) ==
  /\ T <= clock
  /\ expiry # 0 => expiry = T + 2 * Spacing(taken)
  /\ expiry # 0 /\ cron.pc = "sleep" => T < cron.wake
  /\ \A s \in skips : s.peak = taken =>
       /\ T < s.at /\ s.at < T + 2 * Spacing(taken)
       /\ s.at % DayLength \in Fires(taken)

CadenceInv ==
  /\ CadenceTypes /\ PlanKept
  /\ expiry = 0 \/ expiry > clock
  /\ \E T \in Nat : SkipsSince(T)

\* A plan is for a fire to come.
LEMMA Planned ==
  ASSUME EvenlySpaced(Peak), EvenlySpaced(OffPeak), NEW t \in Nat
  PROVE  /\ Plan(t) \in [pc : {"sleep", "round", "dead"}, peak : BOOLEAN, wake : Nat,
                         ttl : Nat, since : Nat]
         /\ Plan(t).pc = "sleep" /\ t < Plan(t).wake
         /\ Plan(t).wake % DayLength \in Fires(Plan(t).peak)
         /\ Plan(t).ttl = 2 * Spacing(Plan(t).peak)
  <1> DEFINE p == IsPeakDay(t)
             F == IF p THEN Peak ELSE OffPeak
  <1>1. p \in BOOLEAN /\ F = Fires(p) /\ EvenlySpaced(Fires(p))
    BY DEF IsPeakDay, Fires
  <1>2. F \in SUBSET (0..(DayLength - 1)) /\ F # {}
    BY CadenceAssumption
  <1>3. Plan(t) = [pc |-> "sleep", peak |-> p, wake |-> NextAfter(F, t),
                   ttl |-> LockTtl(F, t), since |-> t]
    BY DEF Plan
  <1> HIDE DEF p, F
  <1>4. NextAfter(F, t) \in Nat /\ NextAfter(F, t) > t /\ NextAfter(F, t) % DayLength \in F
    BY <1>2, NextFire
  <1>5. LockTtl(F, t) = 2 * Spacing(p) /\ Spacing(p) \in Nat
    BY <1>1, FiresApart
  <1>6. LockTtl(F, t) \in Nat
    BY <1>5
  <1> QED
    BY <1>1, <1>3, <1>4, <1>5, <1>6

LEMMA CadenceStarts ==
  ASSUME EvenlySpaced(Peak), EvenlySpaced(OffPeak), CadenceInit
  PROVE  CadenceInv
  <1>1. /\ clock = 0 /\ expiry = 0 /\ taken = FALSE /\ skips = {} /\ cron = Plan(0)
    BY DEF CadenceInit
  <1>2. CadenceTypes /\ PlanKept
    <2>1. /\ Plan(0) \in [pc : {"sleep", "round", "dead"}, peak : BOOLEAN, wake : Nat,
                          ttl : Nat, since : Nat]
          /\ Plan(0).wake % DayLength \in Fires(Plan(0).peak)
          /\ Plan(0).ttl = 2 * Spacing(Plan(0).peak)
      BY Planned
    <2> QED
      BY <1>1, <2>1, FS_EmptySet DEF CadenceTypes, PlanKept
  <1>3. SkipsSince(0)
    BY <1>1 DEF SkipsSince
  <1> QED
    BY <1>1, <1>2, <1>3 DEF CadenceInv

LEMMA CadenceStep ==
  ASSUME EvenlySpaced(Peak), EvenlySpaced(OffPeak), CadenceInv, [CadenceNext]_cadenceVars
  PROVE  CadenceInv'
  <1>1. CadenceTypes /\ PlanKept /\ (expiry = 0 \/ expiry > clock)
    BY DEF CadenceInv
  <1>2. PICK T \in Nat : SkipsSince(T)
    BY DEF CadenceInv
  <1>3. /\ clock \in Nat /\ expiry \in Nat /\ taken \in BOOLEAN
        /\ cron.wake \in Nat /\ cron.peak \in BOOLEAN /\ cron.ttl \in Nat
    BY <1>1 DEF CadenceTypes
  <1>4. \A p \in BOOLEAN : EvenlySpaced(Fires(p)) /\ Spacing(p) \in Nat \ {0}
    BY FiresApart DEF Fires
  <1>5. CASE TickFires /\ expiry = 0
    <2>1. /\ cron.pc = "sleep" /\ clock' = clock /\ expiry' = clock + cron.ttl
          /\ cron' = [cron EXCEPT !.pc = "round", !.since = clock]
          /\ taken' = cron.peak /\ skips' = {}
      BY <1>5 DEF TickFires
    <2>2. cron.ttl = 2 * Spacing(cron.peak)
      BY <1>1, <2>1 DEF PlanKept
    <2>3. cron.ttl > 0
      BY <1>3, <1>4, <2>2
    <2>4. /\ cron'.pc = "round"
          /\ cron' \in [pc : {"sleep", "round", "dead"}, peak : BOOLEAN, wake : Nat,
                        ttl : Nat, since : Nat]
      BY <1>1, <1>3, <2>1 DEF CadenceTypes
    <2>5. CadenceTypes' /\ PlanKept'
      BY <1>3, <2>1, <2>4, FS_EmptySet DEF CadenceTypes, PlanKept
    <2>6. SkipsSince(clock)'
      BY <1>3, <2>1, <2>2, <2>4 DEF SkipsSince
    <2>7. clock' \in Nat /\ expiry' > clock'
      BY <1>3, <2>1, <2>3
    <2> QED
      BY <2>5, <2>6, <2>7 DEF CadenceInv
  <1>6. CASE TickFires /\ expiry # 0
    <2> DEFINE s == [at |-> cron.wake, peak |-> cron.peak]
    <2>1. /\ cron.pc = "sleep" /\ clock >= cron.wake /\ cron' = Plan(clock)
          /\ skips' = skips \cup {s} /\ UNCHANGED <<clock, expiry, taken>>
      BY <1>6 DEF TickFires
    <2>2. CadenceTypes' /\ PlanKept'
      <3>1. IsFiniteSet(skips')
        BY <1>1, <2>1, FS_AddElement DEF CadenceTypes
      <3>2. skips' \in SUBSET [at : Nat, peak : BOOLEAN]
        BY <1>1, <1>3, <2>1 DEF CadenceTypes
      <3> QED
        BY <1>3, <2>1, <3>1, <3>2, Planned DEF CadenceTypes, PlanKept
    <2>3. T < cron.wake /\ expiry = T + 2 * Spacing(taken) /\ T <= clock
      BY <1>2, <1>6, <2>1 DEF SkipsSince
    <2>4. cron.wake < T + 2 * Spacing(taken)
      BY <1>1, <1>3, <1>4, <1>6, <2>1, <2>3
    <2>5. cron.wake % DayLength \in Fires(cron.peak)
      BY <1>1, <2>1 DEF PlanKept
    <2>6. T < Plan(clock).wake
      BY <1>3, <2>3, Planned
    <2>7. SkipsSince(T)'
      BY <1>2, <2>1, <2>3, <2>4, <2>5, <2>6 DEF SkipsSince
    <2> QED
      BY <1>1, <1>6, <2>1, <2>2, <2>7 DEF CadenceInv
  <1>7. CASE RoundEnds \/ WorkerStarts
    <2>1. /\ cron' = Plan(clock) /\ UNCHANGED <<clock, taken, skips>>
          /\ expiry' = 0 \/ expiry' = expiry
      BY <1>7 DEF RoundEnds, WorkerStarts
    <2>2. CadenceTypes' /\ PlanKept'
      <3>1. /\ Plan(clock) \in [pc : {"sleep", "round", "dead"}, peak : BOOLEAN, wake : Nat,
                                ttl : Nat, since : Nat]
            /\ Plan(clock).wake % DayLength \in Fires(Plan(clock).peak)
            /\ Plan(clock).ttl = 2 * Spacing(Plan(clock).peak)
        BY <1>3, Planned
      <3>2. PlanKept'
        BY <2>1, <3>1 DEF PlanKept
      <3>3. clock' \in Nat /\ expiry' \in Nat
        BY <1>3, <2>1
      <3> QED
        BY <1>1, <2>1, <3>1, <3>2, <3>3 DEF CadenceTypes
    <2>3. T < Plan(clock).wake
      BY <1>2, <1>3, Planned DEF SkipsSince
    <2>4. SkipsSince(T)'
      BY <1>2, <2>1, <2>3 DEF SkipsSince
    <2> QED
      BY <1>1, <2>1, <2>2, <2>4 DEF CadenceInv
  <1>8. CASE RoundDies
    <2>1. /\ cron' = [cron EXCEPT !.pc = "dead"] /\ UNCHANGED <<clock, expiry, taken, skips>>
      BY <1>8 DEF RoundDies
    <2>2. /\ cron'.pc = "dead"
          /\ cron' \in [pc : {"sleep", "round", "dead"}, peak : BOOLEAN, wake : Nat,
                        ttl : Nat, since : Nat]
      BY <1>1, <2>1 DEF CadenceTypes
    <2> QED
      BY <1>1, <1>2, <2>1, <2>2 DEF CadenceTypes, PlanKept, SkipsSince, CadenceInv
  <1>9. CASE Minute
    <2>1. /\ clock' = clock + 1 /\ UNCHANGED <<cron, taken, skips>>
          /\ expiry' = IF expiry = clock + 1 THEN 0 ELSE expiry
      BY <1>9 DEF Minute
    <2>2. /\ clock' \in Nat /\ expiry' \in Nat /\ (expiry' = 0 \/ expiry' > clock')
          /\ T <= clock => T <= clock'
      BY <1>1, <1>3, <2>1
    <2>3. CadenceTypes' /\ PlanKept'
      BY <1>1, <2>1, <2>2 DEF CadenceTypes, PlanKept
    <2>4. SkipsSince(T)'
      BY <1>2, <2>1, <2>2 DEF SkipsSince
    <2> QED
      BY <2>2, <2>3, <2>4 DEF CadenceInv
  <1>10. CASE UNCHANGED cadenceVars
    BY <1>1, <1>2, <1>10 DEF cadenceVars, CadenceTypes, PlanKept, SkipsSince, CadenceInv
  <1> QED
    BY <1>5, <1>6, <1>7, <1>8, <1>9, <1>10 DEF CadenceNext

LEMMA TwoSkips ==
  ASSUME EvenlySpaced(Peak), EvenlySpaced(OffPeak), CadenceInv
  PROVE  SkipsAreFew
  <1> SUFFICES ASSUME \A s \in skips : s.peak = taken
               PROVE  Cardinality(skips) <= 2
    BY DEF SkipsAreFew
  <1>1. CadenceTypes
    BY DEF CadenceInv
  <1>2. PICK T \in Nat : SkipsSince(T)
    BY DEF CadenceInv
  <1> DEFINE d == Spacing(taken)
  <1>3. taken \in BOOLEAN /\ EvenlySpaced(Fires(taken))
    BY <1>1 DEF CadenceTypes, Fires
  <1>4. /\ d \in Nat
        /\ \A a, b \in Nat : /\ 0 < a /\ a < b
                            /\ a % DayLength \in Fires(taken) /\ b % DayLength \in Fires(taken)
                            => a + d <= b
    BY <1>3, FiresApart
  <1>5. \A s \in skips : /\ s \in [at : Nat, peak : BOOLEAN] /\ s.at \in Nat
                         /\ T < s.at /\ s.at < T + 2 * d /\ s.at % DayLength \in Fires(taken)
    BY <1>1, <1>2 DEF CadenceTypes, SkipsSince
  <1> HIDE DEF d
  <1>6. \A x, y \in skips : x.at < y.at => x.at + d <= y.at
    BY <1>4, <1>5
  <1>7. \A x, y \in skips : x.at = y.at => x = y
    BY <1>5
  <1>8. ASSUME NEW x \in skips, NEW y \in skips, NEW z \in skips
        PROVE  x = y \/ y = z \/ x = z
    <2>1. x.at = y.at \/ y.at = z.at \/ x.at = z.at
      <3>1. /\ x.at \in Nat /\ y.at \in Nat /\ z.at \in Nat
            /\ T < x.at /\ T < y.at /\ T < z.at
            /\ x.at < T + 2 * d /\ y.at < T + 2 * d /\ z.at < T + 2 * d
        BY <1>5
      <3>2. /\ x.at < y.at => x.at + d <= y.at
            /\ y.at < x.at => y.at + d <= x.at
            /\ y.at < z.at => y.at + d <= z.at
            /\ z.at < y.at => z.at + d <= y.at
            /\ x.at < z.at => x.at + d <= z.at
            /\ z.at < x.at => z.at + d <= x.at
        BY <1>6
      <3> QED
        BY <1>4, <3>1, <3>2
    <2> QED
      BY <1>7, <2>1
  <1>9. IsFiniteSet(skips)
    BY <1>1 DEF CadenceTypes
  <1> QED
    BY <1>8, <1>9, AtMostTwo

\* When both expressions fire at even intervals, a lock that was never released
\* holds up at most two fires of the cadence it was taken in, however late the
\* worker took it and however long it was down.
THEOREM FewSkips ==
  EvenlySpaced(Peak) /\ EvenlySpaced(OffPeak) => (CadenceSpec => []SkipsAreFew)
  <1> SUFFICES ASSUME EvenlySpaced(Peak), EvenlySpaced(OffPeak)
               PROVE  CadenceSpec => []SkipsAreFew
    OBVIOUS
  <1>1. CadenceInit => CadenceInv
    BY CadenceStarts
  <1>2. CadenceInv /\ [CadenceNext]_cadenceVars => CadenceInv'
    BY CadenceStep
  <1>3. CadenceInv => SkipsAreFew
    BY TwoSkips
  <1> QED
    BY <1>1, <1>2, <1>3, PTL DEF CadenceSpec

-----------------------------------------------------------------------------
(* Types.                                                                   *)

\* Every key of the throttles has its kind and the counters their bounds; and the log
\* of record_credential_fail has a lifetime just while it has members, whatever
\* handlers do between ZADD and EXPIRE.
THEOREM ThrottleTyped == ThrottleSpec => []ThrottleTypeOK
  <1>1. /\ Window \in Nat /\ Window > 0 /\ HourlyLimit \in Nat /\ MaxDeaths \in Nat
        /\ NoExpiry = Window + 1
    BY ThrottleAssumption DEF NoExpiry
  <1>2. ThrottleInit => ThrottleTypeOK
    <2> SUFFICES ASSUME ThrottleInit PROVE ThrottleTypeOK
      OBVIOUS
    <2>1. log \in [0..Window -> Nat] /\ Entries(log) = 0 /\ refused \in [0..Window -> Nat]
      BY <1>1, NothingLogged DEF ThrottleInit, Logs, Entries
    <2>2. h \in [Attempts -> LoginPcs]
      BY DEF ThrottleInit, LoginPcs
    <2> QED
      BY <1>1, <2>1, <2>2 DEF ThrottleInit, ThrottleTypeOK
  <1>3. ASSUME ThrottleTypeOK, [ThrottleNext]_throttleVars PROVE ThrottleTypeOK'
    <2> USE <1>3 DEF ThrottleTypeOK
    <2>1. log \in Logs /\ refused \in Logs
      BY DEF Logs
    <2>2. /\ Entries(log) = log[0] + AtLeast(log, 1) /\ log[0] \in Nat /\ AtLeast(log, 1) \in Nat
          /\ AtLeast(log, 1) = log[1] + AtLeast(log, 2) /\ log[1] \in Nat /\ AtLeast(log, 2) \in Nat
      <3>1. \A k \in 0..Window : AtLeast(log, k) = log[k] + AtLeast(log, k + 1)
        BY <2>1, Tails
      <3>2. \A k \in 0..(Window + 1) : AtLeast(log, k) \in Nat
        BY <2>1, Tails
      <3> QED
        BY <1>1, <2>1, <3>1, <3>2 DEF Entries, Logs
    <2>3. ASSUME NEW a \in Attempts, NEW pc \in LoginPcs, Move(a, pc)
          PROVE  h' \in [Attempts -> LoginPcs]
      BY <2>3 DEF Move
    <2>4. {"idle", "check", "school", "prune", "add", "expire", "count", "lock"} \subseteq LoginPcs
      BY DEF LoginPcs, Recording
    <2>5. ASSUME NEW a \in Attempts, Hit(a) PROVE ThrottleTypeOK'
      <3>1. h' \in [Attempts -> LoginPcs]
        BY <2>3, <2>4, <2>5 DEF Hit, EndLogin
      <3>2. hits' \in 0..(HourlyLimit + 1) /\ admitted' \in Nat
        BY <1>1, <2>5 DEF Hit, Capped
      <3> QED
        BY <2>5, <3>1, <3>2 DEF Hit
    <2>6. ASSUME NEW a \in Attempts, IsLocked(a) \/ CountFailures(a) PROVE ThrottleTypeOK'
      <3>1. h' \in [Attempts -> LoginPcs]
        BY <2>3, <2>4, <2>6 DEF IsLocked, CountFailures, EndLogin
      <3> QED
        BY <2>6, <3>1 DEF IsLocked, CountFailures
    <2>7. ASSUME NEW a \in Attempts, LoginSso2(a) PROVE ThrottleTypeOK'
      <3>1. h' \in [Attempts -> LoginPcs]
        BY <2>3, <2>4, <2>7 DEF LoginSso2, EndLogin
      <3>2. refused' \in [0..Window -> Nat]
        BY <2>1, <2>7, EntryAdded DEF LoginSso2, Logs
      <3> QED
        BY <2>7, <3>1, <3>2 DEF LoginSso2
    <2>8. ASSUME NEW a \in Attempts, Prune(a) PROVE ThrottleTypeOK'
      <3>1. h' \in [Attempts -> LoginPcs]
        BY <2>3, <2>4, <2>8 DEF Prune
      <3>2. log' = [log EXCEPT ![0] = 0]
        BY <2>8 DEF Prune
      <3>3. log' \in Logs /\ AtLeast(log', 1) = AtLeast(log, 1)
        <4>1. log' \in Logs /\ \A k \in 1..(Window + 1) : AtLeast(log', k) = AtLeast(log, k)
          BY <2>1, <3>2, ExpiredPruned
        <4> QED
          BY <1>1, <4>1
      <3>4. Entries(log') = AtLeast(log, 1)
        <4>1. log'[0] = 0
          BY <1>1, <2>1, <3>2 DEF Logs
        <4> QED
          BY <1>1, <2>2, <3>3, <4>1, Tails DEF Entries
      <3>5. keyTtl' \in 0..NoExpiry /\ (keyTtl' = 0 <=> Entries(log') = 0)
        BY <1>1, <2>2, <2>8, <3>4 DEF Prune
      <3> QED
        BY <2>8, <3>1, <3>3, <3>5 DEF Prune, Logs
    <2>9. ASSUME NEW a \in Attempts, AddFailure(a) PROVE ThrottleTypeOK'
      <3>1. h' \in [Attempts -> LoginPcs]
        BY <2>3, <2>4, <2>9 DEF AddFailure
      <3>2. log' \in Logs /\ Entries(log') = Entries(log) + 1
        <4>1. log' = [log EXCEPT ![Window] = @ + 1]
          BY <2>9 DEF AddFailure
        <4>2. log' \in Logs /\ \A k \in 0..Window : AtLeast(log', k) = AtLeast(log, k) + 1
          BY <2>1, <4>1, EntryAdded
        <4> QED
          BY <1>1, <4>2 DEF Entries
      <3>3. keyTtl' \in 0..NoExpiry /\ (keyTtl' = 0 <=> Entries(log') = 0)
        BY <1>1, <2>2, <2>9, <3>2 DEF AddFailure
      <3> QED
        BY <2>9, <3>1, <3>2, <3>3 DEF AddFailure, Logs
    <2>10. ASSUME NEW a \in Attempts, ExpireKey(a) PROVE ThrottleTypeOK'
      <3>1. h' \in [Attempts -> LoginPcs]
        BY <2>3, <2>4, <2>10 DEF ExpireKey
      <3> QED
        BY <1>1, <2>10, <3>1 DEF ExpireKey
    <2>11. ASSUME NEW a \in Attempts, SetLock(a) PROVE ThrottleTypeOK'
      <3>1. h' \in [Attempts -> LoginPcs]
        BY <2>3, <2>4, <2>11 DEF SetLock, EndLogin
      <3> QED
        BY <1>1, <2>11, <3>1 DEF SetLock
    <2>12. ASSUME NEW a \in Attempts, Dies(a) PROVE ThrottleTypeOK'
      <3>1. h' \in [Attempts -> LoginPcs]
        BY <2>3, <2>4, <2>12 DEF Dies, EndLogin
      <3>2. deaths' \in 0..MaxDeaths
        BY <1>1, <2>12 DEF Dies
      <3> QED
        BY <2>12, <3>1, <3>2 DEF Dies
    <2>13. ASSUME ThrottleTick PROVE ThrottleTypeOK'
      <3>1. refused' \in [0..Window -> Nat]
        BY <2>1, <2>13, EntriesAge DEF ThrottleTick, Logs
      <3>2. log' \in Logs /\ keyTtl' \in 0..NoExpiry /\ (keyTtl' = 0 <=> Entries(log') = 0)
        <4>1. CASE keyTtl = 1
          <5>1. log' = NoEntries /\ keyTtl' = 0
            BY <1>1, <2>13, <4>1 DEF ThrottleTick, Less
          <5> QED
            BY <1>1, <5>1, NothingLogged DEF Entries
        <4>2. CASE keyTtl # 1
          <5>1. log' = Older(log) /\ keyTtl' \in 0..NoExpiry /\ (keyTtl' = 0 <=> keyTtl = 0)
            BY <1>1, <2>13, <4>2 DEF ThrottleTick, Less
          <5>2. log' \in Logs /\ AtLeast(log', 1) = AtLeast(log, 2)
            <6>1. log' \in Logs /\ \A k \in 1..Window : AtLeast(log', k) = AtLeast(log, k + 1)
              BY <2>1, <5>1, EntriesAge
            <6> QED
              BY <1>1, <6>1
          <5>3. log'[0] = log[1] + log[0]
            BY <1>1, <2>1, <5>1 DEF Older, Logs
          <5>4. Entries(log') = log'[0] + AtLeast(log', 1)
            BY <1>1, <5>2, Tails DEF Entries
          <5>5. Entries(log') = Entries(log)
            BY <2>2, <5>2, <5>3, <5>4
          <5> QED
            BY <5>1, <5>2, <5>5
        <4> QED
          BY <4>1, <4>2
      <3>3. lock' \in 0..NoExpiry
        BY <1>1, <2>13 DEF ThrottleTick, Less
      <3> QED
        BY <2>13, <3>1, <3>2, <3>3 DEF ThrottleTick, Logs
    <2>14. CASE NextHour \/ UNCHANGED throttleVars
      BY <1>1, <2>14 DEF NextHour, throttleVars
    <2> QED
      BY <1>3, <2>5, <2>6, <2>7, <2>8, <2>9, <2>10, <2>11, <2>12, <2>13, <2>14
      DEF ThrottleNext, PostLogin, RecordCredentialFail
  <1> QED
    BY <1>2, <1>3, PTL DEF ThrottleSpec

\* The caches hold values of their kinds, and ages up to the bound.
THEOREM CachesTyped == CacheSpec => []CacheTypeOK
  <1>1. CacheInv /\ [CacheNext]_cacheVars => CacheInv'
    BY CacheStep
  <1>2. CacheInv => CacheTypeOK
    BY DEF CacheInv, CacheTypeOK, BlobOK, KeyOK, ReaderRecord
  <1> QED
    BY <1>1, <1>2, CacheStarts, PTL DEF CacheSpec

SyncOps == {"sync", "page", "bills"}

\* A handler is somewhere in its request.
ReadingOK(x) ==
  /\ x.pc \in {"idle", "read", "receipt", "refused", "coherent", "load", "store", "respond"}
  /\ x.op \in SyncOps

\* What SyncTypeOK says, handler by handler.
SyncTypes ==
  /\ record \in Records /\ page \in Pages /\ clean \in BOOLEAN
  /\ ~snap.held => snap.items = <<>>
  /\ \A c \in Syncers : ReadingOK(syncer[c])

\* Wherever a handler goes, with whatever list, it stays a handler.
LEMMA ReadingsTyped ==
  ASSUME SyncInv, SyncTypes, NEW c \in Syncers,
         NEW pc \in {"read", "receipt", "refused", "coherent", "load", "store", "respond"}, NEW list
  PROVE  /\ SyncGoes(c, pc) \/ SyncEnds(c) => \A d \in Syncers : ReadingOK(syncer'[d])
         /\ \/ syncer' = [syncer EXCEPT ![c] = Taking(syncer[c], pc, list)]
            \/ syncer' = [syncer EXCEPT ![c] = Comparing(syncer[c], pc, list)]
            => \A d \in Syncers : ReadingOK(syncer'[d])
  <1>1. syncer = [d \in Syncers |-> syncer[d]] /\ IsReading(syncer[c])
    BY DEF SyncInv, SyncersOK
  <1>2. /\ \A d \in Syncers : ReadingOK(syncer[d])
        /\ ReadingOK(NoReading) /\ IsReading(syncer[c])
    BY <1>1 DEF SyncTypes, NoReading, ReadingOK, SyncOps
  <1>3. ASSUME NEW x, ReadingOK(x), syncer' = [syncer EXCEPT ![c] = x]
        PROVE  \A d \in Syncers : ReadingOK(syncer'[d])
    BY <1>1, <1>2, <1>3
  <1>4. ReadingOK([syncer[c] EXCEPT !.pc = pc])
    BY <1>1, <1>2 DEF IsReading, ReadingOK
  <1>5. ReadingOK(Taking(syncer[c], pc, list)) /\ ReadingOK(Comparing(syncer[c], pc, list))
    <2>1. LET y == Taking(syncer[c], pc, list) IN y.pc = pc /\ y.op = syncer[c].op
      BY <1>1, ReadingTakes
    <2>2. LET y == Comparing(syncer[c], pc, list) IN y.pc = pc /\ y.op = syncer[c].op
      BY <1>1, ReadingTakes
    <2> QED
      BY <1>2, <2>1, <2>2 DEF ReadingOK
  <1> QED
    BY <1>2, <1>3, <1>4, <1>5 DEF SyncGoes, SyncEnds

\* Every step of a sync keeps them.
LEMMA SyncTypesKept ==
  ASSUME SyncInv, SyncTypes, [SyncNext]_syncVars
  PROVE  SyncTypes'
  <1>1. ASSUME NEW c \in Syncers, NEW op \in SyncOps, AdmitRead(c, op) PROVE SyncTypes'
    <2>1. /\ syncer = [d \in Syncers |-> syncer[d]]
          /\ syncer' = [syncer EXCEPT ![c] = [NoReading EXCEPT !.pc = "read", !.op = op]]
      BY <1>1 DEF SyncInv, SyncersOK, AdmitRead
    <2>2. ReadingOK([NoReading EXCEPT !.pc = "read", !.op = op])
      BY DEF NoReading, ReadingOK
    <2>3. \A d \in Syncers : ReadingOK(syncer'[d])
      BY <2>1, <2>2 DEF SyncTypes
    <2> QED
      BY <1>1, <2>3 DEF AdmitRead, Lost, SyncTypes
  <1>2. ASSUME NEW c \in Syncers,
               \/ OpenRelay(c) \/ ParseLivePage(c) \/ FindReceipt(c) \/ ParseRecord(c)
               \/ RecordRefusal(c) \/ RecordAnswer(c) \/ LoadSnapshot(c) \/ StoreRecord(c)
               \/ SyncResponse(c) \/ SyncDies(c)
        PROVE  \A d \in Syncers : ReadingOK(syncer'[d])
    <2>1. CASE ParseRecord(c)
      <3>1. syncer' = [syncer EXCEPT ![c] = Taking(syncer[c], "coherent", Parse(page))]
        BY <2>1 DEF ParseRecord, Taking
      <3> QED
        BY <3>1, ReadingsTyped
    <2>2. CASE LoadSnapshot(c)
      <3>1. syncer' = [syncer EXCEPT ![c] = Comparing(syncer[c], "store", snap.items)]
        BY <2>2 DEF LoadSnapshot, Comparing
      <3> QED
        BY <3>1, ReadingsTyped
    <2>3. CASE RecordAnswer(c)
      <3>1. \/ SyncEnds(c) \/ SyncGoes(c, "load")
            \/ syncer' = [syncer EXCEPT ![c] =
                            Taking(syncer[c], "load", AttachCourseMatches(syncer[c].items))]
        BY <2>3 DEF RecordAnswer, Taking
      <3> QED
        BY <3>1, ReadingsTyped
    <2>4. CASE \/ OpenRelay(c) \/ ParseLivePage(c) \/ FindReceipt(c) \/ RecordRefusal(c)
               \/ StoreRecord(c) \/ SyncResponse(c) \/ SyncDies(c)
      <3>1. SyncEnds(c) \/ \E pc \in {"receipt", "refused", "coherent", "respond"} : SyncGoes(c, pc)
        BY <2>4 DEF OpenRelay, ParseLivePage, FindReceipt, RecordRefusal, StoreRecord,
                    SyncResponse, SyncDies
      <3> QED
        BY <3>1, ReadingsTyped
    <2> QED
      BY <1>2, <2>1, <2>2, <2>3, <2>4
  <1>3. ASSUME NEW c \in Syncers,
               \/ OpenRelay(c) \/ ParseLivePage(c) \/ FindReceipt(c) \/ ParseRecord(c)
               \/ RecordRefusal(c) \/ RecordAnswer(c) \/ LoadSnapshot(c) \/ StoreRecord(c)
               \/ SyncResponse(c) \/ SyncDies(c)
        PROVE  SyncTypes'
    <2>1. UNCHANGED <<record, page>> /\ clean' \in BOOLEAN
      BY <1>3 DEF SyncTypes, OpenRelay, ParseLivePage, FindReceipt, ParseRecord, RecordRefusal,
                  RecordAnswer, LoadSnapshot, StoreRecord, SyncResponse, SyncDies, Lost
    <2>2. UNCHANGED snap \/ snap' = [held |-> TRUE, items |-> syncer[c].items]
      BY <1>3 DEF OpenRelay, ParseLivePage, FindReceipt, ParseRecord, RecordRefusal,
                  RecordAnswer, LoadSnapshot, StoreRecord, SyncResponse, SyncDies
    <2>3. ~snap'.held => snap'.items = <<>>
      BY <2>2 DEF SyncTypes
    <2> QED
      BY <1>2, <1>3, <2>1, <2>3 DEF SyncTypes
  <1>4. CASE GetSelections \/ SnapshotGoes \/ SchoolChangesRecord \/ UNCHANGED syncVars
    <2>1. UNCHANGED <<record, syncer>> /\ page' \in Pages /\ clean' \in BOOLEAN
      BY <1>4 DEF GetSelections, SnapshotGoes, SchoolChangesRecord, syncVars, Lost, SyncTypes
    <2>2. UNCHANGED snap \/ snap' = NoSnapshot
      BY <1>4 DEF GetSelections, SnapshotGoes, SchoolChangesRecord, syncVars
    <2>3. ~snap'.held => snap'.items = <<>>
      BY <2>2 DEF SyncTypes, NoSnapshot
    <2>4. \A c \in Syncers : ReadingOK(syncer'[c])
      BY <2>1 DEF SyncTypes
    <2> QED
      BY <2>1, <2>3, <2>4 DEF SyncTypes
  <1> QED
    BY <1>1, <1>3, <1>4 DEF SyncNext, SyncOps

\* A snapshot that is gone holds no rows, and every handler is where a request can be.
THEOREM SyncTyped == SyncSpec => []SyncTypeOK
  <1>1. SyncInit => SyncTypes
    BY DEF SyncInit, SyncTypes, NoSnapshot, NoReading, ReadingOK, SyncOps
  <1>2. SyncInv /\ SyncTypes /\ [SyncNext]_syncVars => SyncInv' /\ SyncTypes'
    BY SyncStep, SyncTypesKept
  <1>3. SyncInv /\ SyncTypes => SyncTypeOK
    <2> SUFFICES ASSUME SyncInv, SyncTypes PROVE SyncTypeOK
      OBVIOUS
    <2> DEFINE ReadingRecord == [pc : {"idle", "read", "receipt", "refused", "coherent",
                                   "load", "store", "respond"},
                             op : {"sync", "page", "bills"},
                             items : {syncer[c].items : c \in Syncers},
                             previous : {syncer[c].previous : c \in Syncers}]
    <2>1. ASSUME NEW c \in Syncers PROVE syncer[c] \in ReadingRecord
      <3>1. IsReading(syncer[c]) /\ ReadingOK(syncer[c])
        BY DEF SyncInv, SyncersOK, SyncTypes
      <3> QED
        BY <3>1 DEF IsReading, ReadingOK, SyncOps
    <2>2. syncer = [c \in Syncers |-> syncer[c]]
      BY DEF SyncInv, SyncersOK
    <2>3. syncer \in [Syncers -> ReadingRecord]
      BY <2>1, <2>2
    <2> QED
      BY <2>3 DEF SyncTypes, SyncTypeOK
  <1> QED
    BY <1>1, <1>2, <1>3, SyncStarts, PTL DEF SyncSpec

\* Runs, files and ledger rows are of their kinds.
THEOREM ArchiveTyped == ArchiveSpec => []ArchiveTypeOK
  <1>1. ArchiveInv => ArchiveTypeOK
    BY DEF ArchiveInv
  <1> QED
    BY <1>1, ArchiveStarts, ArchiveKeeps, PTL DEF ArchiveSpec

\* A page's slice is a piece of the listing.
LEMMA SliceTyped ==
  ASSUME NEW T, NEW s \in Seq(T), NEW n \in Nat \ {0}
  PROVE  Slice(s, n) \in Seq(T)
  <1> DEFINE o == (n - 1) * PerPage
             m == Min({o + PerPage, Len(s)})
  <1>1. o \in Nat /\ PerPage \in Nat /\ Len(s) \in Nat
    <2>1. n - 1 \in Nat /\ PerPage \in Nat
      BY ListingAssumption
    <2>2. \A i, k \in Nat : i * k \in Nat
      OBVIOUS
    <2> QED
      BY <2>1, <2>2
  <1> HIDE DEF o
  <1>2. m \in Nat /\ m <= Len(s)
    <2> DEFINE least == IF o + PerPage < Len(s) THEN o + PerPage ELSE Len(s)
    <2>1. least \in {o + PerPage, Len(s)} /\ \A y \in {o + PerPage, Len(s)} : least <= y
      BY <1>1
    <2>2. \A x \in {o + PerPage, Len(s)} : (\A y \in {o + PerPage, Len(s)} : x <= y) => x = least
      BY <1>1
    <2>3. m = least
      BY <2>1, <2>2 DEF Min
    <2> QED
      BY <1>1, <2>3
  <1> HIDE DEF m
  <1>3. SubSeq(s, o + 1, m) \in Seq(T)
    BY <1>1, <1>2
  <1> QED
    BY <1>3 DEF Slice, LimitOffset, o, m

\* No statement of a listing, and no ingest, puts a foreign row into it.
LEMMA ListingTypesKept ==
  ASSUME ListingInv, ListingTypeOK, [ListingNext]_listingVars
  PROVE  ListingTypeOK'
  <1>1. IsListing /\ table \in Tables
    BY DEF ListingInv
  <1>2. /\ listing.pc \in {"idle", "newest", "count", "slice", "page"}
        /\ listing.total \in Nat /\ listing.page \in Nat \ {0} /\ listing.got \in Seq(UNION Tables)
    BY DEF ListingTypeOK
  <1>3. CASE CloseListing \/ (NewestSemester /\ listing' = NoListing)
    <2>1. listing' = [pc |-> "idle", raw |-> <<>>, page |-> 1, filter |-> Null, total |-> 0,
                      got |-> <<>>, whole |-> TRUE]
      BY <1>3 DEF CloseListing, NoListing
    <2>2. UNCHANGED table
      BY <1>3 DEF CloseListing, NewestSemester
    <2> QED
      BY <1>1, <2>1, <2>2 DEF ListingTypeOK
  <1>4. ASSUME NEW raw, StartListing(raw) PROVE ListingTypeOK'
    <2>1. listing' = [NoListing EXCEPT !.pc = "newest", !.raw = raw] /\ UNCHANGED table
      BY <1>4 DEF StartListing
    <2>2. NoListing = [f \in {"pc", "raw", "page", "filter", "total", "got", "whole"} |-> NoListing[f]]
      BY DEF NoListing
    <2>3. NoListing.page = 1 /\ NoListing.got = <<>> /\ NoListing.total = 0
      BY DEF NoListing
    <2> HIDE DEF NoListing
    <2>4. listing'.pc = "newest" /\ listing'.page = 1 /\ listing'.got = <<>> /\ listing'.total = 0
      BY <2>1, <2>2, <2>3
    <2>5. <<>> \in Seq(UNION Tables) /\ 1 \in Nat \ {0} /\ 0 \in Nat
      OBVIOUS
    <2>6. table' \in Tables
      BY <1>1, <2>1
    <2> QED
      BY <2>4, <2>5, <2>6 DEF ListingTypeOK
  <1>5. CASE NewestSemester /\ listing' # NoListing
    <2>1. /\ \E f : listing' = [listing EXCEPT !.pc = "count", !.filter = f]
          /\ UNCHANGED table
      BY <1>5 DEF NewestSemester
    <2>2. /\ listing'.pc = "count" /\ listing'.page = listing.page
          /\ listing'.total = listing.total /\ listing'.got = listing.got
      BY <1>1, <2>1 DEF IsListing
    <2> QED
      BY <1>1, <1>2, <2>1, <2>2 DEF ListingTypeOK
  <1>6. CASE FetchCount
    <2>1. /\ listing' = [listing EXCEPT !.pc = "slice",
                                        !.total = Cardinality(Matching(listing.filter))]
          /\ UNCHANGED table
      BY <1>6 DEF FetchCount
    <2>2. /\ listing'.pc = "slice" /\ listing'.page = listing.page
          /\ listing'.total = Cardinality(Matching(listing.filter)) /\ listing'.got = listing.got
      BY <1>1, <2>1 DEF IsListing
    <2>3. Cardinality(Matching(listing.filter)) \in Nat
      <3>1. IsFiniteSet(table) /\ Matching(listing.filter) \in SUBSET table
        BY <1>1, ListingAssumption DEF Matching
      <3> QED
        BY <3>1, FS_Subset, FS_CardinalityType
    <2> QED
      BY <1>1, <1>2, <2>1, <2>2, <2>3 DEF ListingTypeOK
  <1>7. CASE FetchSlice
    <2>1. PICK s \in Ordered(listing.filter) :
            listing' = [listing EXCEPT !.pc = "page", !.got = @ \o Slice(s, listing.page)]
      BY <1>7 DEF FetchSlice
    <2>2. /\ listing'.pc = "page" /\ listing'.page = listing.page
          /\ listing'.total = listing.total
          /\ listing'.got = listing.got \o Slice(s, listing.page)
      BY <1>1, <2>1 DEF IsListing
    <2>3. s \in Seq(UNION Tables)
      <3>1. Matching(listing.filter) \in SUBSET table /\ s \in Lists(Matching(listing.filter))
        BY DEF Matching, Ordered, Lists
      <3>2. s \in Seq(Matching(listing.filter))
        BY <1>1, <3>1, OneListing
      <3>3. Matching(listing.filter) \subseteq UNION Tables
        BY <1>1, <3>1
      <3> QED
        BY <3>2, <3>3
    <2>4. listing'.got \in Seq(UNION Tables)
      BY <1>2, <2>2, <2>3, SliceTyped
    <2> QED
      BY <1>1, <1>2, <1>7, <2>2, <2>4 DEF ListingTypeOK, FetchSlice
  <1>8. CASE TurnOver
    <2>1. /\ listing' = [listing EXCEPT !.pc = "newest", !.page = @ + 1]
          /\ UNCHANGED table
      BY <1>8 DEF TurnOver
    <2>2. /\ listing'.pc = "newest" /\ listing'.page = listing.page + 1
          /\ listing'.total = listing.total /\ listing'.got = listing.got
      BY <1>1, <2>1 DEF IsListing
    <2> QED
      BY <1>1, <1>2, <2>1, <2>2 DEF ListingTypeOK
  <1>9. CASE IngestCommits
    <2>1. /\ listing' = [listing EXCEPT !.whole = listing.pc = "idle"]
          /\ table' \in Tables
      BY <1>9 DEF IngestCommits
    <2>2. /\ listing'.pc = listing.pc /\ listing'.page = listing.page
          /\ listing'.total = listing.total /\ listing'.got = listing.got
      BY <1>1, <2>1 DEF IsListing
    <2> QED
      BY <1>2, <2>1, <2>2 DEF ListingTypeOK
  <1>10. CASE UNCHANGED listingVars
    BY <1>10 DEF listingVars, ListingTypeOK
  <1> QED
    BY <1>3, <1>4, <1>5, <1>6, <1>7, <1>8, <1>9, <1>10 DEF ListingNext

\* A student's pages are rows of some ingest's table, on whichever pages the table
\* changed under them.
THEOREM ListingTyped == ListingSpec => []ListingTypeOK
  <1>1. ListingInit => ListingInv /\ ListingTypeOK
    <2> SUFFICES ASSUME ListingInit PROVE ListingInv /\ ListingTypeOK
      OBVIOUS
    <2>1. /\ table \in Tables
          /\ listing = [pc |-> "idle", raw |-> <<>>, page |-> 1, filter |-> Null, total |-> 0,
                        got |-> <<>>, whole |-> TRUE]
      BY DEF ListingInit, NoListing
    <2> QED
      BY <2>1 DEF ListingInv, IsListing, ListingTypeOK
  <1>2. ListingInv /\ ListingTypeOK /\ [ListingNext]_listingVars => ListingInv' /\ ListingTypeOK'
    BY ListingStep, ListingTypesKept
  <1> QED
    BY <1>1, <1>2, PTL DEF ListingSpec

\* The next fire is ahead and the lock lives, from whatever moment is planned.
LEMMA PlanTyped ==
  ASSUME NEW t \in Nat
  PROVE  /\ Plan(t) = [pc |-> "sleep", peak |-> Plan(t).peak, wake |-> Plan(t).wake,
                       ttl |-> Plan(t).ttl, since |-> t]
         /\ Plan(t).peak \in BOOLEAN /\ Plan(t).wake \in Nat /\ Plan(t).ttl \in Nat \ {0}
  <1> DEFINE F == IF IsPeakDay(t) THEN Peak ELSE OffPeak
             first == NextAfter(F, t)
             second == NextAfter(F, first)
  <1>1. F \in SUBSET (0..(DayLength - 1)) /\ F # {}
    BY CadenceAssumption
  <1>2. Plan(t) = [pc |-> "sleep", peak |-> IsPeakDay(t), wake |-> first,
                   ttl |-> 2 * (second - first), since |-> t]
    BY DEF Plan, LockTtl, IntervalAfter
  <1> HIDE DEF F
  <1>3. first \in Nat
    BY <1>1, NextFire
  <1> HIDE DEF first
  <1>4. second \in Nat /\ second > first
    BY <1>1, <1>3, NextFire
  <1> HIDE DEF second
  <1>5. 2 * (second - first) \in Nat \ {0}
    BY <1>3, <1>4
  <1> QED
    BY <1>2, <1>3, <1>5 DEF IsPeakDay

IsCron == cron = [pc |-> cron.pc, peak |-> cron.peak, wake |-> cron.wake, ttl |-> cron.ttl,
                  since |-> cron.since]

CadenceTypeInv == CadenceTypeOK /\ IsCron /\ cron.peak \in BOOLEAN

\* Unlike FewSkips, for expressions that fire at uneven intervals as well: a lock is
\* never taken without a lifetime, and one that stands has not expired.
THEOREM CadenceTyped == CadenceSpec => []CadenceTypeOK
  <1>1. DayLength \in Nat /\ Days \in Nat /\ Horizon \in Nat
    <2>1. \A i, k \in Nat : i * k \in Nat
      OBVIOUS
    <2> QED
      BY <2>1, CadenceAssumption DEF Horizon
  <1>2. CadenceInit => CadenceTypeInv
    <2> SUFFICES ASSUME CadenceInit PROVE CadenceTypeInv
      OBVIOUS
    <2>1. clock = 0 /\ cron = Plan(0) /\ expiry = 0 /\ taken = FALSE
      BY DEF CadenceInit
    <2>2. /\ Plan(0) = [pc |-> "sleep", peak |-> Plan(0).peak, wake |-> Plan(0).wake,
                        ttl |-> Plan(0).ttl, since |-> 0]
          /\ Plan(0).peak \in BOOLEAN /\ Plan(0).wake \in Nat /\ Plan(0).ttl \in Nat \ {0}
      BY PlanTyped
    <2>3. /\ cron.pc = "sleep" /\ cron.wake \in Nat /\ cron.ttl \in Nat \ {0}
          /\ IsCron /\ cron.peak \in BOOLEAN
      BY <2>1, <2>2 DEF IsCron
    <2>4. clock \in 0..Horizon /\ expiry \in Nat /\ expiry = 0
      BY <1>1, <2>1
    <2>5. taken \in BOOLEAN
      BY <2>1
    <2> QED
      BY <2>3, <2>4, <2>5 DEF CadenceTypeInv, CadenceTypeOK
  <1>3. ASSUME CadenceTypeInv, [CadenceNext]_cadenceVars PROVE CadenceTypeInv'
    <2>1. /\ clock \in 0..Horizon /\ cron.pc \in {"sleep", "round", "dead"} /\ cron.wake \in Nat
          /\ cron.ttl \in Nat \ {0} /\ expiry \in Nat /\ (expiry = 0 \/ expiry > clock)
          /\ taken \in BOOLEAN /\ IsCron /\ cron.peak \in BOOLEAN
      BY <1>3 DEF CadenceTypeInv, CadenceTypeOK
    <2>2. ASSUME cron' = Plan(clock)
          PROVE  /\ IsCron' /\ cron'.pc = "sleep" /\ cron'.wake \in Nat
                 /\ cron'.ttl \in Nat \ {0} /\ cron'.peak \in BOOLEAN
      <3>1. clock \in Nat
        BY <1>1, <2>1
      <3> QED
        BY <2>2, <3>1, PlanTyped DEF IsCron
    <2>3. CASE TickFires /\ expiry = 0
      <3>1. /\ cron' = [cron EXCEPT !.pc = "round", !.since = clock] /\ clock' = clock
            /\ expiry' = clock + cron.ttl /\ taken' = cron.peak
        BY <2>3 DEF TickFires
      <3>2. /\ IsCron' /\ cron'.pc = "round" /\ cron'.wake = cron.wake
            /\ cron'.ttl = cron.ttl /\ cron'.peak = cron.peak
        BY <2>1, <3>1 DEF IsCron
      <3>3. expiry' \in Nat /\ expiry' > clock
        BY <1>1, <2>1, <3>1
      <3> QED
        BY <2>1, <3>1, <3>2, <3>3 DEF CadenceTypeInv, CadenceTypeOK
    <2>4. CASE TickFires /\ expiry # 0
      <3>1. cron' = Plan(clock) /\ UNCHANGED <<clock, expiry, taken>>
        BY <2>4 DEF TickFires
      <3> QED
        BY <2>1, <2>2, <3>1 DEF CadenceTypeInv, CadenceTypeOK
    <2>5. CASE RoundEnds \/ WorkerStarts
      <3>1. cron' = Plan(clock) /\ UNCHANGED <<clock, taken>> /\ expiry' \in {0, expiry}
        BY <2>5 DEF RoundEnds, WorkerStarts
      <3> QED
        BY <2>1, <2>2, <3>1 DEF CadenceTypeInv, CadenceTypeOK
    <2>6. CASE RoundDies
      <3>1. cron' = [cron EXCEPT !.pc = "dead"] /\ UNCHANGED <<clock, expiry, taken>>
        BY <2>6 DEF RoundDies
      <3>2. /\ IsCron' /\ cron'.pc = "dead" /\ cron'.wake = cron.wake
            /\ cron'.ttl = cron.ttl /\ cron'.peak = cron.peak
        BY <2>1, <3>1 DEF IsCron
      <3> QED
        BY <2>1, <3>1, <3>2 DEF CadenceTypeInv, CadenceTypeOK
    <2>7. CASE Minute
      <3>1. /\ clock < Horizon /\ clock' = clock + 1 /\ UNCHANGED <<cron, taken>>
            /\ expiry' = IF expiry = clock + 1 THEN 0 ELSE expiry
        BY <2>7 DEF Minute
      <3>2. clock' \in 0..Horizon /\ expiry' \in Nat /\ (expiry' = 0 \/ expiry' > clock')
        BY <1>1, <2>1, <3>1
      <3> QED
        BY <2>1, <3>1, <3>2 DEF CadenceTypeInv, CadenceTypeOK, IsCron
    <2>8. CASE UNCHANGED cadenceVars
      BY <2>1, <2>8 DEF cadenceVars, CadenceTypeInv, CadenceTypeOK, IsCron
    <2> QED
      BY <1>3, <2>3, <2>4, <2>5, <2>6, <2>7, <2>8 DEF CadenceNext
  <1>4. CadenceTypeInv => CadenceTypeOK
    BY DEF CadenceTypeInv
  <1> QED
    BY <1>2, <1>3, <1>4, PTL DEF CadenceSpec

\* An export that is given out has events, and one that is refused has none.
THEOREM CalendarTyped == CalendarSpec => []CalendarTypeOK
  <1>1. CalendarInit => CalendarOK
    BY DEF CalendarInit, CalendarOK
  <1>2. CalendarOK /\ [CalendarNext]_calendar => CalendarOK'
    BY DEF CalendarOK, CalendarNext, AskExport, TakeCalendar
  <1>3. CalendarOK => CalendarTypeOK
    <2>1. CASE calendar = NoCalendar
      BY <2>1 DEF NoCalendar, CalendarTypeOK
    <2>2. ASSUME NEW plan \in Plans, calendar = ExportPlanIcs(plan) PROVE CalendarTypeOK
      <3>1. \A code : NoExport(code, plan).code = code /\ NoExport(code, plan).events = <<>>
        BY DEF NoExport
      <3>2. CASE \/ calendar = NoExport(422, plan) \/ calendar = NoExport(409, plan)
                 \/ calendar = NoExport(404, plan)
        <4>1. calendar.code \in {404, 409, 422} /\ calendar.events = <<>>
          BY <3>1, <3>2
        <4> QED
          BY <4>1 DEF CalendarTypeOK
      <3>3. CASE plan # <<>> /\ calendar = [code |-> 200, plan |-> plan, events |-> BuildPlanIcs(plan)]
        <4>1. plan = [i \in DOMAIN plan |-> plan[i]] /\ \E n \in Nat : DOMAIN plan = 1..n
          BY CalendarAssumption DEF Plans
        <4>2. DOMAIN plan # {}
          BY <3>3, <4>1
        <4>3. DOMAIN BuildPlanIcs(plan) = DOMAIN plan
          BY DEF BuildPlanIcs
        <4>4. BuildPlanIcs(plan) # <<>>
          BY <4>2, <4>3
        <4> QED
          BY <3>3, <4>4 DEF CalendarTypeOK
      <3>4. \/ calendar = NoExport(422, plan) \/ calendar = NoExport(409, plan)
            \/ calendar = NoExport(404, plan)
            \/ plan # <<>> /\ calendar = [code |-> 200, plan |-> plan, events |-> BuildPlanIcs(plan)]
        BY <2>2 DEF ExportPlanIcs
      <3> QED
        BY <3>2, <3>3, <3>4
    <2> QED
      BY <2>1, <2>2 DEF CalendarOK
  <1> QED
    BY <1>1, <1>2, <1>3, PTL DEF CalendarSpec

\* Whatever page the school sends, an operation of the batch gets one outcome, and the
\* piece it is read from is on the page.
THEOREM RepliesTyped == ReplySpec => []ReplyTypeOK
  <1>1. ReplyInit => AnswerOK
    BY DEF ReplyInit, AnswerOK
  <1>2. AnswerOK /\ [ReplyNext]_answer => AnswerOK'
    <2> SUFFICES ASSUME AnswerOK, [ReplyNext]_answer PROVE AnswerOK'
      OBVIOUS
    <2>1. CASE SchoolReplies
      BY <2>1 DEF SchoolReplies, AnswerOK
    <2>2. CASE OutcomesTaken \/ UNCHANGED answer
      BY <2>2 DEF OutcomesTaken, AnswerOK
    <2> QED
      BY <2>1, <2>2 DEF ReplyNext
  <1>3. AnswerOK => ReplyTypeOK
    <2>1. CASE answer = NoReply
      BY <2>1 DEF NoReply, ReplyTypeOK
    <2>2. ASSUME NEW html \in HtmlsOf(MaxPieces), NEW batch \in SUBSET CourseCodes,
                 answer = [html |-> html, batch |-> batch, parsed |-> ParseSubmitResponse(html, batch)]
          PROVE  ReplyTypeOK
      <3>1. /\ answer.html = html /\ answer.batch = batch
            /\ answer.parsed = ParseSubmitResponse(html, batch)
        BY <2>2
      <3>2. /\ DOMAIN html = 1..Len(html) /\ Len(html) \in Nat
            /\ DOMAIN html \in SUBSET (Nat \ {0})
        <4>1. PICK n \in 0..MaxPieces : html \in [1..n -> Pieces]
          BY ReplyAssumption DEF HtmlsOf
        <4>2. n \in Nat /\ html \in Seq(Pieces)
          BY <4>1, ReplyAssumption
        <4> QED
          BY <4>1, <4>2
      <3>3. ASSUME NEW S \in SUBSET DOMAIN html, NEW code
            PROVE  FragmentForCode(html, S, code) \in 0..Len(html)
        BY <3>2, FragmentMentions
      <3> DEFINE Verdict == [outcome : {"success", "failed", "parse_failed"},
                             from : 0..Len(html), duplicate_like : BOOLEAN]
      <3>4. \A outcome \in {"success", "failed", "parse_failed"}, from \in 0..Len(html),
               again \in BOOLEAN : Parsed(outcome, from, again) \in Verdict
        BY DEF Parsed
      <3>5. ASSUME NEW code PROVE ParseOp(html, code) \in Verdict
        <4>1. FailureSection(html) \in SUBSET DOMAIN html
          BY DEF FailureSection
        <4>2. CASE Headers(html) # {}
          <5> DEFINE at == FragmentForCode(html, FailureSection(html), code)
                     again == at # 0 /\ DuplicateLike(html[at].words)
          <5>1. at \in 0..Len(html)
            BY <3>3, <4>1
          <5>2. ParseOp(html, code) = Parsed("failed", at, again)
            BY <4>2 DEF ParseOp
          <5>3. again \in BOOLEAN
            OBVIOUS
          <5> HIDE DEF again, at, Verdict
          <5> QED
            BY <3>4, <5>1, <5>2, <5>3
        <4>3. CASE Headers(html) = {}
          <5> DEFINE at == FragmentForCode(html, DOMAIN html, code)
          <5>1. at \in 0..Len(html) /\ 0 \in 0..Len(html)
            BY <3>2, <3>3
          <5>2. ParseOp(html, code) = IF at = 0 THEN Parsed("parse_failed", 0, FALSE)
                                                ELSE ClassifyFragment(at, html[at].words)
            BY <4>3 DEF ParseOp
          <5> HIDE DEF at, Verdict
          <5>3. ASSUME NEW words PROVE ClassifyFragment(at, words) \in Verdict
            <6> DEFINE again == DuplicateLike(words)
            <6>1. again \in BOOLEAN
              BY DEF DuplicateLike
            <6>2. \/ ClassifyFragment(at, words) = Parsed("parse_failed", at, FALSE)
                  \/ ClassifyFragment(at, words) = Parsed("failed", at, again)
                  \/ ClassifyFragment(at, words) = Parsed("success", at, FALSE)
              BY DEF ClassifyFragment
            <6> HIDE DEF again
            <6> QED
              BY <3>4, <5>1, <6>1, <6>2
          <5> QED
            BY <3>4, <5>1, <5>2, <5>3
        <4> QED
          BY <4>2, <4>3
      <3>6. /\ DOMAIN answer.parsed \in {{}, batch}
            /\ \A code \in DOMAIN answer.parsed : answer.parsed[code] = ParseOp(html, code)
        BY <3>1 DEF ParseSubmitResponse
      <3> QED
        BY <3>1, <3>5, <3>6 DEF ReplyTypeOK
    <2> QED
      BY <2>1, <2>2 DEF AnswerOK
  <1> QED
    BY <1>1, <1>2, <1>3, PTL DEF ReplySpec

-----------------------------------------------------------------------------
(* The composition.                                                         *)

\* The breaker without its fairness, which the composition grants it only in the focus.
BreakerSafety == Init /\ [][Next]_vars

ComponentsAlone ==
  /\ BreakerSafety /\ ThrottleSpec /\ CacheSpec /\ SyncSpec /\ ArchiveSpec /\ ListingSpec
  /\ CadenceSpec /\ ViewsSpec /\ CalendarSpec /\ ReplySpec

\* A step of the composition is one of each component, or leaves that one alone.
LEMMA ComponentsSteps ==
  ASSUME [ComponentsNext]_componentVars
  PROVE  /\ [Next]_vars /\ [ThrottleNext]_throttleVars /\ [CacheNext]_cacheVars
         /\ [SyncNext]_syncVars /\ [ArchiveNext]_archiveVars /\ [ListingNext]_listingVars
         /\ [CadenceNext]_cadenceVars /\ [ViewsNext]_viewsVars /\ [CalendarNext]_calendar
         /\ [ReplyNext]_answer
  <1>1. CASE UNCHANGED componentVars
    BY <1>1 DEF componentVars
  <1>2. CASE focus = "breaker" /\ Next /\ OthersRest
    BY <1>2 DEF OthersRest, Rests
  <1>3. CASE focus = "throttle" /\ ThrottleNext /\ OthersRest
    BY <1>3 DEF OthersRest, Rests
  <1>4. CASE focus = "caches" /\ CacheNext /\ OthersRest
    BY <1>4 DEF OthersRest, Rests
  <1>5. CASE focus = "sync" /\ SyncNext /\ OthersRest
    BY <1>5 DEF OthersRest, Rests
  <1>6. CASE focus = "archive" /\ ArchiveNext /\ OthersRest
    BY <1>6 DEF OthersRest, Rests
  <1>7. CASE focus = "listing" /\ ListingNext /\ OthersRest
    BY <1>7 DEF OthersRest, Rests
  <1>8. CASE focus = "cadence" /\ CadenceNext /\ OthersRest
    BY <1>8 DEF OthersRest, Rests
  <1>9. CASE focus = "views" /\ ViewsNext /\ OthersRest
    BY <1>9 DEF OthersRest, Rests
  <1>10. CASE focus = "calendar" /\ CalendarNext /\ OthersRest
    BY <1>10 DEF OthersRest, Rests
  <1>11. CASE focus = "reply" /\ ReplyNext /\ OthersRest
    BY <1>11 DEF OthersRest, Rests
  <1> QED
    BY <1>1, <1>2, <1>3, <1>4, <1>5, <1>6, <1>7, <1>8, <1>9, <1>10, <1>11 DEF ComponentsNext

\* In the composition every component behaves as one of its own: what is proved of a
\* component alone holds of it there.
THEOREM EachAsAlone == ComponentsSpec => ComponentsAlone
  <1>1. ComponentsInit => /\ Init /\ ThrottleInit /\ CacheInit /\ SyncInit /\ ArchiveInit
                          /\ ListingInit /\ CadenceInit /\ ViewsInit /\ CalendarInit /\ ReplyInit
    BY DEF ComponentsInit
  <1>2. [ComponentsNext]_componentVars
          => /\ [Next]_vars /\ [ThrottleNext]_throttleVars /\ [CacheNext]_cacheVars
             /\ [SyncNext]_syncVars /\ [ArchiveNext]_archiveVars /\ [ListingNext]_listingVars
             /\ [CadenceNext]_cadenceVars /\ [ViewsNext]_viewsVars /\ [CalendarNext]_calendar
             /\ [ReplyNext]_answer
    BY ComponentsSteps
  <1> QED
    BY <1>1, <1>2, PTL
    DEF ComponentsSpec, ComponentsAlone, BreakerSafety, ThrottleSpec, CacheSpec, SyncSpec,
        ArchiveSpec, ListingSpec, CadenceSpec, ViewsSpec, CalendarSpec, ReplySpec

\* The types of all components, each from what strengthens its own.
THEOREM ComponentsTyped == ComponentsSpec => []ComponentsTypeOK
  <1>1. BreakerSafety => []TypeOK
    <2>1. BreakerInv => TypeOK
      BY DEF BreakerInv
    <2> QED
      BY <2>1, BreakerInit, BreakerStep, PTL DEF BreakerSafety
  <1>2. /\ TypeOK /\ ThrottleTypeOK /\ CacheTypeOK /\ SyncTypeOK /\ ArchiveTypeOK
        /\ ListingTypeOK /\ CadenceTypeOK /\ ViewsTypeOK /\ CalendarTypeOK /\ ReplyTypeOK
        => ComponentsTypeOK
    BY DEF ComponentsTypeOK
  <1> QED
    BY <1>1, <1>2, EachAsAlone, ThrottleTyped, CachesTyped, SyncTyped, ArchiveTyped, ListingTyped,
       CadenceTyped, ViewsTyped, CalendarTyped, RepliesTyped, PTL
    DEF ComponentsAlone

=============================================================================
