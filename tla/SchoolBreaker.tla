---------------------------- MODULE SchoolBreaker ----------------------------
(***************************************************************************)
(* The circuit breaker in front of the school: three Redis keys (streak,   *)
(* opened_at, probe) that every request handler reads and writes with      *)
(* single commands, and nothing but the clock between them.  One action    *)
(* is one Redis command, so the handlers interleave between them.          *)
(*                                                                         *)
(* Time advances in ticks; a key's lifetime and the age of the open-stamp  *)
(* are counted down or up, saturating where the code only compares.        *)
(***************************************************************************)
EXTENDS Naturals

CONSTANTS
  Callers,           \* handlers of login, preview and submit, fan-out tasks
  FailureThreshold,  \* BREAKER_FAILURE_THRESHOLD
  RecoveryAfter,     \* BREAKER_RECOVERY_AFTER, in ticks
  ProbeGate          \* PROBE_GATE_SECONDS, in ticks

ASSUME BreakerAssumption ==
  FailureThreshold \in Nat \ {0} /\ RecoveryAfter \in Nat \ {0} /\ ProbeGate \in Nat \ {0}

VARIABLES
  streak,     \* value of the streak key, 0 when absent, saturated at the threshold
  streakTtl,  \* ticks until it expires; Forever when it was never given one
  open,       \* the opened_at key exists
  age,        \* ticks since it was written, saturated at RecoveryAfter
  probe,      \* ticks until the probe key expires, 0 when absent
  caller,     \* the handlers: where they are, what they read
  calm,       \* the school answers coherently from now on and no process dies
  unknowns    \* ghost: unknowns fed since the last reset, saturated

keys == <<streak, streakTtl, open, age, probe>>
vars == <<keys, caller, calm, unknowns>>

Forever == 2 * RecoveryAfter + 1

Sooner(a, b) == IF a < b THEN a ELSE b

Pcs == {"idle", "gate", "call", "reset", "incr", "expire", "stamp", "ungate"}

Idle == [pc |-> "idle", n |-> 0]

Init ==
  /\ streak = 0 /\ streakTtl = 0 /\ open = FALSE /\ age = 0 /\ probe = 0
  /\ caller = [c \in Callers |-> Idle]
  /\ calm = FALSE
  /\ unknowns = 0

Goto(c, pc) == caller' = [caller EXCEPT ![c].pc = pc]

Leave(c) == caller' = [caller EXCEPT ![c] = Idle]

-----------------------------------------------------------------------------
(* admit: read the stamp; closed lets through, fresh refuses, old tries the *)
(* gate.                                                                    *)

Admit(c) ==
  /\ caller[c].pc = "idle"
  /\ caller' = [caller EXCEPT ![c].pc =
       IF ~open THEN "call" ELSE IF age < RecoveryAfter THEN "idle" ELSE "gate"]
  /\ UNCHANGED <<keys, calm, unknowns>>

\* SET NX EX on the probe key.
TryProbe(c) ==
  /\ caller[c].pc = "gate"
  /\ IF probe = 0
       THEN /\ probe' = ProbeGate
            /\ caller' = [caller EXCEPT ![c].pc = "call"]
       ELSE Leave(c) /\ UNCHANGED probe
  /\ UNCHANGED <<streak, streakTtl, open, age, calm, unknowns>>

\* The login fan-out contacts the school without asking the breaker and
\* feeds it all the same.
FanOut(c) ==
  /\ caller[c].pc = "idle"
  /\ Goto(c, "call")
  /\ UNCHANGED <<keys, calm, unknowns>>

\* A coherent answer; no classifiable answer; or neither, when a failure on
\* our side (captcha budget, deadline) records nothing.
SchoolAnswers(c) ==
  /\ caller[c].pc = "call"
  /\ \/ Goto(c, "reset")
     \/ ~calm /\ Goto(c, "incr")
     \/ ~calm /\ Leave(c)
  /\ UNCHANGED <<keys, calm, unknowns>>

-----------------------------------------------------------------------------
(* record_classified and record_unknown.                                    *)

\* Wrong variants of RecordClassified: a key is left out of the DEL.
RecordClassifiedKeepsStreak(c) ==
  /\ caller[c].pc = "reset"
  /\ open' = FALSE /\ age' = 0 /\ probe' = 0
  /\ unknowns' = 0
  /\ Leave(c)
  /\ UNCHANGED <<streak, streakTtl, calm>>

RecordClassifiedKeepsStamp(c) ==
  /\ caller[c].pc = "reset"
  /\ streak' = 0 /\ streakTtl' = 0 /\ probe' = 0
  /\ unknowns' = 0
  /\ Leave(c)
  /\ UNCHANGED <<open, age, calm>>

RecordClassified(c) ==
  /\ caller[c].pc = "reset"
  /\ streak' = 0 /\ streakTtl' = 0 /\ open' = FALSE /\ age' = 0 /\ probe' = 0
  /\ unknowns' = 0
  /\ Leave(c)
  /\ UNCHANGED calm

\* INCR keeps the expiry of an existing key; a new one has none yet.
IncrStreak(c) ==
  /\ caller[c].pc = "incr"
  /\ streak' = Sooner(streak + 1, FailureThreshold)
  /\ streakTtl' = IF streak = 0 THEN Forever ELSE streakTtl
  /\ unknowns' = Sooner(unknowns + 1, FailureThreshold)
  /\ caller' = [caller EXCEPT ![c].pc = "expire", ![c].n = streak']
  /\ UNCHANGED <<open, age, probe, calm>>

\* Wrong variant of ExpireStreak: the key is written again with its lifetime,
\* deleted meanwhile or not.
ExpireStreakRewrites(c) ==
  /\ caller[c].pc = "expire"
  /\ streakTtl' = 2 * RecoveryAfter
  /\ IF caller[c].n >= FailureThreshold THEN Goto(c, "stamp") ELSE Leave(c)
  /\ UNCHANGED <<streak, open, age, probe, calm, unknowns>>

\* EXPIRE has no effect on a key that was deleted meanwhile.
ExpireStreak(c) ==
  /\ caller[c].pc = "expire"
  /\ streakTtl' = IF streak = 0 THEN 0 ELSE 2 * RecoveryAfter
  /\ IF caller[c].n >= FailureThreshold THEN Goto(c, "stamp") ELSE Leave(c)
  /\ UNCHANGED <<streak, open, age, probe, calm, unknowns>>

StampOpen(c) ==
  /\ caller[c].pc = "stamp"
  /\ open' = TRUE /\ age' = 0
  /\ Goto(c, "ungate")
  /\ UNCHANGED <<streak, streakTtl, probe, calm, unknowns>>

DeleteProbe(c) ==
  /\ caller[c].pc = "ungate"
  /\ probe' = 0
  /\ Leave(c)
  /\ UNCHANGED <<streak, streakTtl, open, age, calm, unknowns>>

\* The process serving the request dies, or Redis fails it, between commands.
CallerDies(c) ==
  /\ caller[c].pc # "idle" /\ ~calm
  /\ Leave(c)
  /\ UNCHANGED <<keys, calm, unknowns>>

-----------------------------------------------------------------------------
Tick ==
  /\ streakTtl' = IF streakTtl \in {0, Forever} THEN streakTtl ELSE streakTtl - 1
  /\ streak' = IF streakTtl = 1 THEN 0 ELSE streak
  /\ age' = IF open THEN Sooner(age + 1, RecoveryAfter) ELSE age
  /\ probe' = IF probe \in {0, Forever} THEN probe ELSE probe - 1
  /\ UNCHANGED <<open, caller, calm, unknowns>>

SchoolCalms == ~calm /\ calm' = TRUE /\ UNCHANGED <<keys, caller, unknowns>>

RecordUnknown(c) == IncrStreak(c) \/ ExpireStreak(c) \/ StampOpen(c) \/ DeleteProbe(c)

Handle(c) == Admit(c) \/ TryProbe(c) \/ SchoolAnswers(c) \/ RecordClassified(c) \/ RecordUnknown(c)

Next ==
  \/ \E c \in Callers : Handle(c) \/ FanOut(c) \/ CallerDies(c)
  \/ Tick \/ SchoolCalms

Spec == Init /\ [][Next]_vars

\* Time passes, requests are served to their end, and students keep trying.
FairSpec ==
  /\ Spec /\ WF_vars(Tick)
  /\ \A c \in Callers : WF_vars(Handle(c))

-----------------------------------------------------------------------------
(* Properties.                                                              *)

\* Values of their kinds; only a key that exists has a lifetime.
TypeOK ==
  /\ streak \in 0..FailureThreshold
  /\ streakTtl \in 0..Forever
  /\ streak = 0 <=> streakTtl = 0
  /\ open \in BOOLEAN
  /\ age \in 0..RecoveryAfter
  /\ probe \in 0..ProbeGate \cup {Forever}
  /\ caller \in [Callers -> [pc : Pcs, n : 0..FailureThreshold]]
  /\ calm \in BOOLEAN
  /\ unknowns \in 0..FailureThreshold

\* Streak hygiene: whatever handlers interleave with a reset, the streak
\* never counts an unknown from before the last coherent answer.
StreakIsConsecutive == streak <= unknowns

\* Once the school answers coherently for good, the breaker ends up closed
\* for good, whatever late failures are still being recorded.
Recovers == <>[]calm => <>[]~open

=============================================================================
