----------------------------- MODULE SchoolGate -----------------------------
(***************************************************************************)
(* request_school: every request of one process to the school takes a slot *)
(* of the school semaphore, captcha traffic takes the captcha semaphore    *)
(* first, and both are held through all attempts and their back-off.  The  *)
(* waiting lines are those of anyio: first come, first served, a slot that *)
(* is given back is handed to the head of its line, and a task that is     *)
(* cancelled while it waits is taken out of it.                            *)
(*                                                                         *)
(* The state of the two semaphores and of the requests is one record, so   *)
(* that taking, handing over and giving back are operators on it that the  *)
(* modules of the callers compose with their own steps.                    *)
(***************************************************************************)
EXTENDS Naturals, FiniteSets, Sequences, SequencesExt

CONSTANTS
  Tasks,   \* tasks of one process that talk to the school
  Capacity,  \* of _SCHOOL_SEMAPHORE
  MaxSends   \* MAX_ATTEMPTS of _request_with_backoff

ASSUME GateAssumption == Capacity \in Nat \ {0} /\ MaxSends \in Nat \ {0}

VARIABLE net  \* free slots and lines of both semaphores; each caller's request

Waiting == {"lane", "gate"}
Inside == {"wire", "backoff"}
Ended == {"answered", "unavailable", "broken"}

NoRequest == [stage |-> "none", tries |-> 0, laned |-> FALSE]

GateInit ==
  net = [gate |-> Capacity, gateLine |-> <<>>, lane |-> 1, laneLine |-> <<>>,
         call |-> [c \in Tasks |-> NoRequest]]

-----------------------------------------------------------------------------
(* Taking and giving back.                                                  *)

OnWire(n, c) == [n EXCEPT !.call[c].stage = "wire", !.call[c].tries = 1]

EnterGate(n, c) ==
  IF n.gate > 0
    THEN OnWire([n EXCEPT !.gate = @ - 1], c)
    ELSE [n EXCEPT !.gateLine = Append(@, c), !.call[c].stage = "gate"]

EnterLane(n, c) ==
  IF n.lane > 0
    THEN EnterGate([n EXCEPT !.lane = @ - 1], c)
    ELSE [n EXCEPT !.laneLine = Append(@, c), !.call[c].stage = "lane"]

\* request_school(captcha_parented=laned): the lane is taken on top of the gate.
Ask(n, c, laned) ==
  LET m == [n EXCEPT !.call[c] = [NoRequest EXCEPT !.laned = laned]]
  IN  IF laned THEN EnterLane(m, c) ELSE EnterGate(m, c)

LeaveGate(n) ==
  IF n.gateLine = <<>>
    THEN [n EXCEPT !.gate = @ + 1]
    ELSE OnWire([n EXCEPT !.gateLine = Tail(@)], Head(n.gateLine))

LeaveLane(n) ==
  IF n.laneLine = <<>>
    THEN [n EXCEPT !.lane = @ + 1]
    ELSE EnterGate([n EXCEPT !.laneLine = Tail(@)], Head(n.laneLine))

\* The exits of `async with`, the inner semaphore first.
GiveBack(n, c, verdict) ==
  LET m == LeaveGate([n EXCEPT !.call[c].stage = verdict])
  IN  IF n.call[c].laned THEN LeaveLane(m) ELSE m

\* Wrong variant of Cancel: who waits is not taken out of the line.
CancelInLine(n, c) ==
  CASE n.call[c].stage \in Inside -> GiveBack(n, c, "none")
    [] OTHER -> [n EXCEPT !.call[c].stage = "none"]

\* The task is cancelled at its await: in a line, on the wire or backing off.
Cancel(n, c) ==
  CASE n.call[c].stage \in Inside -> GiveBack(n, c, "none")
    [] n.call[c].stage = "lane" ->
         [n EXCEPT !.laneLine = RemoveFirst(@, c), !.call[c].stage = "none"]
    [] n.call[c].stage = "gate" ->
         LET m == [n EXCEPT !.gateLine = RemoveFirst(@, c), !.call[c].stage = "none"]
         IN  IF n.call[c].laned THEN LeaveLane(m) ELSE m
    [] OTHER -> [n EXCEPT !.call[c].stage = "none"]

-----------------------------------------------------------------------------
(* _request_with_backoff.                                                   *)

\* Any HTTP response, whatever its status.
Answers(c) ==
  /\ net.call[c].stage = "wire"
  /\ net' = GiveBack(net, c, "answered")

\* DNS, connect, TLS, timeout or pool.
TransportFails(c) ==
  /\ net.call[c].stage = "wire"
  /\ net' = [net EXCEPT !.call[c].stage = "backoff"]

\* Wrong variant of BackoffEnds: the attempts are not counted.
BackoffEndsUncounted(c) ==
  /\ net.call[c].stage = "backoff"
  /\ net' = [net EXCEPT !.call[c].stage = "wire"]

\* The wait is also served after the last attempt; then SelcrsUnavailable.
BackoffEnds(c) ==
  /\ net.call[c].stage = "backoff"
  /\ net' = IF net.call[c].tries < MaxSends
              THEN [net EXCEPT !.call[c].stage = "wire", !.call[c].tries = @ + 1]
              ELSE GiveBack(net, c, "unavailable")

\* Anything else the client raises leaves the loop and both semaphores.
ClientBreaks(c) ==
  /\ net.call[c].stage = "wire"
  /\ net' = GiveBack(net, c, "broken")

OnTheWire(c) == Answers(c) \/ TransportFails(c) \/ ClientBreaks(c)

RequestStep(c) == OnTheWire(c) \/ BackoffEnds(c)

-----------------------------------------------------------------------------
(* A caller of no further interest: a page handler, the write queue.        *)

OtherAsks(c) ==
  /\ net.call[c].stage = "none"
  /\ net' = Ask(net, c, FALSE)

OtherEnds(c) ==
  /\ net.call[c].stage \in Ended
  /\ net' = [net EXCEPT !.call[c] = NoRequest]

-----------------------------------------------------------------------------
(* Properties.                                                              *)

InStage(S) == {c \in Tasks : net.call[c].stage \in S}

Laned(S) == {c \in S : net.call[c].laned}

\* What is free and what is held is the capacity, of both semaphores; nobody
\* waits beside a free slot; and the lines hold who waits, each once.  So no
\* way out of a request, by answer, by exhausted attempts, by an exception or by
\* cancellation while waiting or backing off, leaks or doubles a slot.
GateHolds ==
  /\ net.gate + Cardinality(InStage(Inside)) = Capacity
  /\ net.lane + Cardinality(Laned(InStage(Inside \cup {"gate"}))) = 1
  /\ net.gateLine # <<>> => net.gate = 0
  /\ net.laneLine # <<>> => net.lane = 0
  /\ IsInjective(net.gateLine) /\ ToSet(net.gateLine) = InStage({"gate"})
  /\ IsInjective(net.laneLine) /\ ToSet(net.laneLine) = InStage({"lane"})

=============================================================================
