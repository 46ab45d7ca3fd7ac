---------------------------- MODULE IngestCadence ----------------------------
(***************************************************************************)
(* When the catalog is ingested: the scheduler picks the expression of the *)
(* day it wakes in, computes its next fire and the lifetime of the lock    *)
(* from it, sleeps, and takes the lock only then.  A round in progress     *)
(* keeps the loop from its next fire; a held lock coalesces a tick.  The   *)
(* round may die with the lock held, and the worker is started again.      *)
(*                                                                         *)
(* A cron expression is the set of the minutes (ticks) of a day in which   *)
(* it fires.  What a round does, and other holders of the lock, are in     *)
(* CatalogIngest.                                                          *)
(***************************************************************************)
EXTENDS Integers, FiniteSets

CONSTANTS
  DayLength,  \* ticks of a day
  Days,       \* bound: days
  PeakDays,   \* CATALOG_PEAK_DATES
  OffPeak,    \* CATALOG_CRON_OFFPEAK
  Peak,       \* CATALOG_CRON_PEAK
  Lateness,   \* bound: ticks from a fire to the command that takes the lock
  MaxRound    \* bound: ticks of a round

ASSUME CadenceAssumption ==
  /\ DayLength \in Nat \ {0} /\ Days \in Nat \ {0} /\ PeakDays \subseteq Nat
  /\ OffPeak \subseteq 0..(DayLength - 1) /\ OffPeak # {}
  /\ Peak \subseteq 0..(DayLength - 1) /\ Peak # {}
  /\ Lateness \in Nat /\ MaxRound \in Nat

VARIABLES
  clock,    \* ticks since the first midnight
  cron,     \* the scheduler: sleeping, in a round, or dead; what it computed
  expiry,   \* when ingest:lock expires; 0 when it is not there
  taken,    \* ghost: the lock was last taken in a peak cadence
  skips     \* ghost: the fires coalesced since then

cadenceVars == <<clock, cron, expiry, taken, skips>>

Horizon == Days * DayLength

IsPeakDay(t) == t \div DayLength \in PeakDays

\* croniter: the first fire strictly after t.
NextAfter(fires, t) ==
  CHOOSE n \in (t + 1)..(t + DayLength) :
    /\ n % DayLength \in fires
    /\ \A k \in (t + 1)..(n - 1) : k % DayLength \notin fires

IntervalAfter(fires, t) ==
  LET first == NextAfter(fires, t) IN NextAfter(fires, first) - first

\* Wrong variant of LockTtl: three intervals.
LockTtlThrice(fires, t) == 3 * IntervalAfter(fires, t)

LockTtl(fires, t) == 2 * IntervalAfter(fires, t)

\* The top of the loop: everything is decided from the moment before the sleep.
Plan(t) ==
  LET fires == IF IsPeakDay(t) THEN Peak ELSE OffPeak
  IN [pc |-> "sleep", peak |-> IsPeakDay(t), wake |-> NextAfter(fires, t),
      ttl |-> LockTtl(fires, t), since |-> t]

CadenceInit ==
  /\ clock = 0 /\ cron = Plan(0) /\ expiry = 0 /\ taken = FALSE /\ skips = {}

\* The sleep is over: SET NX EX.  A held lock coalesces this fire.
TickFires ==
  /\ cron.pc = "sleep" /\ clock >= cron.wake
  /\ IF expiry = 0
       THEN /\ cron' = [cron EXCEPT !.pc = "round", !.since = clock]
            /\ expiry' = clock + cron.ttl
            /\ taken' = cron.peak /\ skips' = {}
       ELSE /\ cron' = Plan(clock)
            /\ skips' = skips \cup {[at |-> cron.wake, peak |-> cron.peak]}
            /\ UNCHANGED <<expiry, taken>>
  /\ UNCHANGED clock

\* Compare-and-delete; a lock that expired meanwhile is nobody's here.
RoundEnds ==
  /\ cron.pc = "round"
  /\ cron' = Plan(clock)
  /\ expiry' = 0
  /\ UNCHANGED <<clock, taken, skips>>

\* The worker is killed in the round, and starts again.
RoundDies ==
  /\ cron.pc = "round"
  /\ cron' = [cron EXCEPT !.pc = "dead"]
  /\ UNCHANGED <<clock, expiry, taken, skips>>

WorkerStarts ==
  /\ cron.pc = "dead"
  /\ cron' = Plan(clock)
  /\ UNCHANGED <<clock, expiry, taken, skips>>

\* Bounds: no fire is later than Lateness, no round longer than MaxRound.
Minute ==
  /\ clock < Horizon
  /\ cron.pc = "sleep" => clock < cron.wake + Lateness
  /\ cron.pc = "round" => clock < cron.since + MaxRound
  /\ clock' = clock + 1
  /\ expiry' = IF expiry = clock + 1 THEN 0 ELSE expiry
  /\ UNCHANGED <<cron, taken, skips>>

CadenceNext == TickFires \/ RoundEnds \/ RoundDies \/ WorkerStarts \/ Minute

CadenceSpec == CadenceInit /\ [][CadenceNext]_cadenceVars

-----------------------------------------------------------------------------
(* Properties.                                                              *)

CadenceTypeOK ==
  /\ clock \in 0..Horizon
  /\ cron.pc \in {"sleep", "round", "dead"} /\ cron.wake \in Nat /\ cron.ttl \in Nat \ {0}
  /\ expiry \in Nat /\ (expiry = 0 \/ expiry > clock)
  /\ taken \in BOOLEAN

\* A round that died costs at most two fires as long as the cadence is the one its
\* lock was taken in: the lock outlives two intervals only by what the command that
\* took it was late.  (The documentation says one; and a lock taken off-peak holds
\* up every fire of the peak cadence that begins meanwhile.  An expression that
\* fires at uneven intervals has no such bound: the interval is asked for once.)
SkipsAreFew == (\A s \in skips : s.peak = taken) => Cardinality(skips) <= 2

=============================================================================
