---------------------------- MODULE SchoolTraffic ----------------------------
(***************************************************************************)
(* Everything one process sends to the school.  In the API process the two *)
(* legs of a login's fan-out share the gate with other handlers.  In the   *)
(* worker a catalog run spends captcha answers page by page in its own     *)
(* lane, beside the write queue.  The semaphores are variables of a        *)
(* process, so the two never share a slot.                                 *)
(***************************************************************************)
EXTENDS EnrollLogin

CONSTANTS
  Catalog,        \* the task of a catalog run, among Tasks
  Others,         \* handlers, or the write queue
  SolveAttempts   \* MAX_SOLVE_ATTEMPTS

ASSUME TrafficAssumption ==
  /\ Catalog \in Tasks \ Legs /\ Others \subseteq Tasks \ (Legs \cup {Catalog})
  /\ SolveAttempts \in Nat \ {0}

VARIABLES
  process,  \* which process this is
  run       \* locals of run_page: where it is, which attempt

trafficVars == <<enrollVars, process, run>>

TrafficInit ==
  /\ EnrollInit
  /\ process \in {"api", "worker"}
  /\ run = [pc |-> "idle", attempt |-> 0]

-----------------------------------------------------------------------------
(* CaptchaLoop.run_page; `got` is what the page fetch gave.                 *)

RunAsks(pc, attempt) ==
  /\ net' = Ask(net, Catalog, TRUE)
  /\ run' = [pc |-> pc, attempt |-> attempt]

RunEnds ==
  /\ net' = [net EXCEPT !.call[Catalog] = NoRequest]
  /\ run' = [pc |-> "idle", attempt |-> 0]

RunStarts == run.pc = "idle" /\ RunAsks("validcode", 1) /\ UNCHANGED fresh

RunImage ==
  /\ run.pc = "validcode" /\ net.call[Catalog].stage = "answered"
  /\ \/ RunEnds
     \/ /\ net' = [net EXCEPT !.call[Catalog] = NoRequest]
        /\ run' = [run EXCEPT !.pc = "ocr"]
  /\ UNCHANGED fresh

RunOcr ==
  /\ run.pc = "ocr"
  /\ \/ RunAsks("dplycourse", run.attempt) /\ fresh' = fresh \cup {Catalog}
     \/ RunEnds /\ UNCHANGED fresh

\* The page is accepted or is not one at all; or the code was wrong, and the next
\* attempt begins with a fresh image until the budget is spent.
RunPage ==
  /\ run.pc = "dplycourse" /\ net.call[Catalog].stage = "answered"
  /\ fresh' = fresh \ {Catalog}
  /\ \/ RunEnds
     \/ run.attempt < SolveAttempts /\ RunAsks("validcode", run.attempt + 1)

RunFails ==
  /\ net.call[Catalog].stage \in {"unavailable", "broken"}
  /\ RunEnds
  /\ fresh' = fresh \ {Catalog}

RunOnTheWire ==
  /\ OnTheWire(Catalog)
  /\ fresh' = IF run.pc = "validcode" THEN fresh \ {Catalog} ELSE fresh
  /\ UNCHANGED run

RunPageStep == RunStarts \/ RunImage \/ RunOcr \/ RunPage \/ RunFails \/ RunOnTheWire

-----------------------------------------------------------------------------
OtherStep(c) == OtherAsks(c) \/ OnTheWire(c) \/ OtherEnds(c)

Backoff(c) == BackoffEnds(c) /\ UNCHANGED <<enroll, fresh, run>>

ApiNext ==
  /\ process = "api"
  /\ \/ FanOutStep
     \/ \E l \in Legs : Leg(l) \/ LegOnTheWire(l)
  /\ UNCHANGED <<process, run>>

WorkerNext ==
  /\ process = "worker"
  /\ RunPageStep
  /\ UNCHANGED <<process, enroll>>

TrafficNext ==
  \/ ApiNext \/ WorkerNext
  \/ \E c \in Others : OtherStep(c) /\ UNCHANGED <<process, enroll, fresh, run>>
  \/ \E c \in Tasks : Backoff(c) /\ UNCHANGED process

TrafficSpec == TrafficInit /\ [][TrafficNext]_trafficVars

\* Every wait is bounded: the client's timeouts, the back-off, the OCR thread and
\* the deadline; a task whose await is over goes on.
TaskGoesOn(c) ==
  \/ Backoff(c) /\ UNCHANGED process
  \/ c \in Others /\ (OnTheWire(c) \/ OtherEnds(c)) /\ UNCHANGED <<process, enroll, fresh, run>>
  \/ c \in Legs /\ process = "api" /\ (Leg(c) \/ LegOnTheWire(c) \/ CutOff(c))
       /\ UNCHANGED <<process, run>>
  \/ c = Catalog /\ WorkerNext

FanOutGoesOn == process = "api" /\ (Deadline \/ Join \/ Store) /\ UNCHANGED <<process, run>>

TrafficFairSpec ==
  /\ TrafficSpec /\ WF_trafficVars(FanOutGoesOn)
  /\ \A c \in Tasks : WF_trafficVars(TaskGoesOn(c))

-----------------------------------------------------------------------------
(* Properties.                                                              *)

TrafficTypeOK ==
  /\ EnrollTypeOK
  /\ net.gate \in 0..Capacity /\ net.lane \in 0..1
  /\ \A c \in Tasks : net.call[c].tries \in 0..MaxSends
  /\ process \in {"api", "worker"}
  /\ run \in [pc : {"idle", "validcode", "ocr", "dplycourse"}, attempt : 0..SolveAttempts]

\* A posted code was read from the last image the school issued on this jar, also
\* after resends, and no code is posted again after it was judged.
CodeIsFresh ==
  /\ \A l \in Legs : leg[l].pc = "post" /\ leg[l].image => l \in fresh
  /\ run.pc = "dplycourse" => Catalog \in fresh

\* A handler that asks the school is answered or refused: it does not wait for ever
\* behind the back-off of others, nor for the slot of a task that was cancelled.
EveryRequestEnds ==
  \A c \in Others :
    net.call[c].stage \in Waiting \cup Inside ~> net.call[c].stage \in Ended

=============================================================================
