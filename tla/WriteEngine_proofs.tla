-------------------------- MODULE WriteEngine_proofs --------------------------
(***************************************************************************)
(* Proofs about WriteEngine, for any number of students, sessions, batches *)
(* and jobs: its types; the safety of the write path by one inductive      *)
(* invariant that relates the rows of the ledger to what the worker, the   *)
(* tickets and the handlers know of them; that it implements WriteLedger;  *)
(* how often a job is posted; and that what a student is shown while it    *)
(* runs hangs together.                                                    *)
(***************************************************************************)
EXTENDS WriteEngine, SequenceTheorems, TLAPS

-----------------------------------------------------------------------------
(* Types.                                                                   *)

LEMMA RestingType == Resting \in WorkerState /\ Resting.pc = "pop"
  BY ConstantsAssumption DEF Resting, WorkerState, WorkerPcs, NoAudit

LEMMA IdleRequestType == IdleRequest \in RequestState /\ IdleRequest.pc = "idle"
  BY ConstantsAssumption DEF IdleRequest, RequestState, RequestPcs

LEMMA SameType ==
  ASSUME NEW j \in Jobs, NEW outcome \in Outcomes
  PROVE  Same(j, outcome) \in [Ops -> Outcomes \cup {"none"}]
  BY DEF Same

LEMMA ConcludeType ==
  ASSUME w \in WorkerState, w.job \in Jobs,
         NEW out \in [Ops -> Outcomes \cup {"none"}],
         NEW final \in {"none", "done", "failed"}, Conclude(out, final)
  PROVE  /\ w' \in WorkerState /\ w'.job = w.job /\ w'.session = w.session
         /\ w'.pc = "finalize" /\ w'.out = out /\ w'.final = final
  BY DEF Conclude, WorkerState, WorkerPcs

LEMMA FinishJobType ==
  ASSUME status \in [Jobs -> Active \cup Terminal \cup {"absent"}],
         NEW j \in Jobs, NEW s \in Terminal, FinishJob(j, s)
  PROVE  status' \in [Jobs -> Active \cup Terminal \cup {"absent"}]
  BY DEF FinishJob

LEMMA InitType == Init => TypeOK
  <1> SUFFICES ASSUME Init PROVE TypeOK
    OBVIOUS
  <1>1. queue \in Seq(Ticket)
    BY DEF Init
  <1> QED
    BY <1>1, RestingType, IdleRequestType, ConstantsAssumption
    DEF Init, TypeOK, WorkerTyped, NoAudit, Active, Terminal
LEMMA SessionStepType ==
  ASSUME TypeOK, NEW s \in Sessions, SessionStep(s)
  PROVE  TypeOK'
  <1>1. CASE LoginSupersede(s)
    BY <1>1 DEF TypeOK, WorkerTyped, LoginSupersede, school, Active, Terminal
  <1>2. CASE LoginOpen(s)
    BY <1>2 DEF TypeOK, WorkerTyped, LoginOpen, ledger, school
  <1>3. CASE Logout(s)
    BY <1>3 DEF TypeOK, WorkerTyped, Logout, ledger, school
  <1>4. CASE JarLapses(s)
    BY <1>4 DEF TypeOK, WorkerTyped, JarLapses, ledger, school
  <1>5. CASE \E p \in Payloads : Preview(s, p)
    BY <1>5 DEF TypeOK, WorkerTyped, Preview, ledger, school
  <1> QED
    BY <1>1, <1>2, <1>3, <1>4, <1>5 DEF SessionStep

LEMMA SubmitStepType ==
  ASSUME TypeOK, NEW r \in Requests, SubmitStep(r)
  PROVE  TypeOK'
  <1>1. CASE \E s \in Sessions, p \in Payloads : ConsumeConfirm(r, s, p)
    <2> PICK s \in Sessions, p \in Payloads : ConsumeConfirm(r, s, p)
      BY <1>1
    <2> DEFINE taken == [pc |-> "reauth", session |-> s, payload |-> p, job |-> NoJob]
    <2>1. taken \in RequestState /\ taken.pc # "enqueue"
      BY DEF RequestState, RequestPcs
    <2>2. /\ req' \in [Requests -> RequestState]
          /\ \A q \in Requests : req'[q].pc = "enqueue" => req'[q].job \in Jobs
      BY <2>1 DEF TypeOK, ConsumeConfirm
    <2> QED
      BY <2>2 DEF TypeOK, WorkerTyped, ConsumeConfirm, ledger, school
  <1>2. CASE Reauth(r)
    BY <1>2 DEF TypeOK, WorkerTyped, Reauth, ledger, school, RequestState, RequestPcs
  <1>3. CASE FindActiveJob(r)
    BY <1>3, IdleRequestType
    DEF TypeOK, WorkerTyped, FindActiveJob, ledger, school, RequestState, RequestPcs
  <1>4. CASE \E j \in Jobs : CreateQueuedJob(r, j)
    <2> PICK j \in Jobs : CreateQueuedJob(r, j)
      BY <1>4
    <2>1. status' \in [Jobs -> Active \cup Terminal \cup {"absent"}]
      BY DEF TypeOK, CreateQueuedJob, Active
    <2> DEFINE made == [req[r] EXCEPT !.pc = "enqueue", !.job = j]
    <2>a. made \in RequestState /\ made.job \in Jobs
      BY DEF TypeOK, RequestState, RequestPcs
    <2>b. req' = [req EXCEPT ![r] = made]
      BY DEF CreateQueuedJob
    <2>2. /\ req' \in [Requests -> RequestState]
          /\ \A q \in Requests : req'[q].pc = "enqueue" => req'[q].job \in Jobs
      BY <2>a, <2>b DEF TypeOK
    <2>3. payload' \in [Jobs -> Payloads]
      BY DEF TypeOK, CreateQueuedJob, RequestState
    <2> QED
      BY <2>1, <2>2, <2>3 DEF TypeOK, WorkerTyped, CreateQueuedJob, school
  <1>5. CASE DuplicateActiveJob(r)
    BY <1>5, IdleRequestType DEF TypeOK, WorkerTyped, DuplicateActiveJob, ledger, school
  <1>6. CASE EnqueueTicket(r)
    <2>1. [job |-> req[r].job, session |-> req[r].session] \in Ticket
      BY <1>6 DEF TypeOK, EnqueueTicket, Ticket, RequestState
    <2>2. queue' \in Seq(Ticket)
      BY <1>6, <2>1 DEF TypeOK, EnqueueTicket
    <2> QED
      BY <1>6, <2>2, IdleRequestType DEF TypeOK, WorkerTyped, EnqueueTicket, ledger, school
  <1>7. CASE RequestEnds(r)
    BY <1>7, IdleRequestType DEF TypeOK, WorkerTyped, RequestEnds, ledger, school
  <1> QED
    BY <1>1, <1>2, <1>3, <1>4, <1>5, <1>6, <1>7 DEF SubmitStep

LEMMA FrontType ==
  ASSUME NEW S, NEW q \in Seq(S), q # <<>>
  PROVE  /\ Front(q) \in Seq(S) /\ Len(Front(q)) = Len(q) - 1
         /\ \A i \in 1..Len(Front(q)) : Front(q)[i] = q[i]
  <1>1. Len(q) \in Nat /\ Len(q) > 0
    OBVIOUS
  <1> DEFINE n == Len(q) - 1
  <1>2. n \in Int /\ 1 \in Int /\ n \in Nat
    BY <1>1
  <1>3. \A i \in 1..n : q[i] \in S
    BY <1>1
  <1>4. Front(q) = SubSeq(q, 1, n)
    BY DEF Front
  <1> HIDE DEF n
  <1>5. /\ SubSeq(q, 1, n) \in Seq(S)
        /\ Len(SubSeq(q, 1, n)) = IF 1 <= n THEN n - 1 + 1 ELSE 0
        /\ \A i \in 1..(n - 1 + 1) : SubSeq(q, 1, n)[i] = q[1 + i - 1]
    BY <1>2, <1>3, SubSeqProperties
  <1>6. Len(Front(q)) = n /\ n - 1 + 1 = n
    BY <1>2, <1>4, <1>5
  <1>7. \A i \in 1..n : Front(q)[i] = q[i]
    BY <1>2, <1>4, <1>5, <1>6
  <1> QED
    BY <1>4, <1>5, <1>6, <1>7 DEF n

LEMMA PopTicketType ==
  ASSUME TypeOK, PopTicket
  PROVE  TypeOK' /\ w'.pc = "claim" /\ queue' \in Seq(Ticket)
         /\ w'.job = queue[Len(queue)].job /\ w'.session = queue[Len(queue)].session
         /\ Len(queue') = Len(queue) - 1 /\ Len(queue) > 0
         /\ \A i \in 1..Len(queue') : queue'[i] = queue[i]
  <1>1. queue \in Seq(Ticket) /\ Len(queue) \in Nat /\ Len(queue) > 0
    BY DEF TypeOK, PopTicket
  <1>2. Last(queue) = queue[Len(queue)] /\ Last(queue) \in Ticket
    BY <1>1 DEF Last
  <1>3. /\ queue' \in Seq(Ticket) /\ Len(queue') = Len(queue) - 1
        /\ \A i \in 1..Len(queue') : queue'[i] = queue[i]
    <2>1. queue # <<>> /\ queue' = Front(queue)
      BY DEF PopTicket
    <2> QED
      BY <1>1, <2>1, FrontType
  <1>4. w' \in WorkerState /\ w'.pc = "claim"
        /\ w'.job = Last(queue).job /\ w'.session = Last(queue).session
    BY <1>2, RestingType DEF PopTicket, WorkerState, WorkerPcs, Ticket
  <1> QED
    BY <1>1, <1>2, <1>3, <1>4 DEF PopTicket, TypeOK, WorkerTyped, ledger, web, school, Ticket

LEMMA ConcludeAllType ==
  ASSUME TypeOK, w.pc # "pop", NEW outcome \in Outcomes, ConcludeAll(outcome)
  PROVE  /\ w' \in WorkerState /\ w'.job = w.job /\ w'.session = w.session
         /\ w'.pc = "finalize" /\ w'.out = Same(w.job, outcome) /\ w'.final = "failed"
  <1>1. w \in WorkerState /\ w.job \in Jobs
    BY DEF TypeOK, WorkerTyped
  <1>2. Same(w.job, outcome) \in [Ops -> Outcomes \cup {"none"}]
    BY <1>1, SameType
  <1> QED
    BY <1>1, <1>2, ConcludeType DEF ConcludeAll

LEMMA MoveOnType ==
  ASSUME TypeOK, w.pc # "pop", NEW pc \in WorkerPcs, w' = [w EXCEPT !.pc = pc]
  PROVE  /\ w' \in WorkerState /\ w'.pc = pc /\ w'.job = w.job /\ w'.job \in Jobs
         /\ w'.session = w.session /\ w'.out = w.out /\ w'.final = w.final
  BY DEF TypeOK, WorkerTyped, WorkerState

LEMMA SchoolAppliesType ==
  ASSUME TypeOK, w.pc = "post", NEW now, SchoolApplies(now)
  PROVE  applied' \in [Jobs -> SUBSET Ops] /\ posted' \subseteq Jobs
  BY ConstantsAssumption DEF TypeOK, WorkerTyped, SchoolApplies

LEMMA VerdictType ==
  ASSUME NEW reply \in [Ops -> Answers \cup {"none"}], NEW section \in BOOLEAN,
         NEW retried
  PROVE  /\ VerdictOf(reply, section, retried) \in [Ops -> Outcomes \cup {"none"}]
         /\ \A o \in Ops : reply[o] = "none" =>
              VerdictOf(reply, section, retried)[o] = "none"
         /\ \A o \in Ops : reply[o] # "none" =>
              VerdictOf(reply, section, retried)[o]
                \in {"success", "failed", "parse_failed", "unknown_reconciled"}
  <1>1. \A o \in Ops : /\ reply[o] = "none" => ParsedOutcome(reply, section, o) = "none"
                       /\ reply[o] # "none" => ParsedOutcome(reply, section, o)
                                                 \in {"success", "failed", "parse_failed"}
    BY DEF ParsedOutcome, Answers
  <1> QED
    BY <1>1 DEF VerdictOf, Outcomes

LEMMA ReconcileType ==
  ASSUME NEW out \in [Ops -> Outcomes \cup {"none"}], NEW listed
  PROVE  /\ ReconcileUpdates(out, listed) \in [Ops -> Outcomes \cup {"none"}]
         /\ \A o \in Ops : ReconcileUpdates(out, listed)[o]
              \in {out[o]} \cup (IF out[o] = "unknown_reconciled"
                                   THEN {"success", "failed"} ELSE {})
  BY DEF ReconcileUpdates, Outcomes

LEMMA ExecuteTicketType ==
  ASSUME TypeOK, ExecuteTicket
  PROVE  TypeOK'
  <1> USE DEF school, web
  <1> DEFINE Statuses == Active \cup Terminal \cup {"absent"}
             OutcomeMap == [Ops -> Outcomes \cup {"none"}]
  <1>0. w.pc # "pop" /\ w \in WorkerState /\ w.job \in Jobs
    BY DEF TypeOK, WorkerTyped, ExecuteTicket, ClaimJob, ReadUnclaimed, DwellCancel,
           InsertPendingAudits, AuditDown, LoadJar, CheckBeforeForm, CheckBeforePost,
           CheckRunning, GetForm, PostLost, PostBounced, PostAnswered,
           MaybeReconcile, Finalize
  <1>a. {"transport_failed", "stage_expired", "parse_failed", "session_superseded",
         "pending"} \subseteq Outcomes
    BY DEF Outcomes
  <1>b. \A pc \in WorkerPcs \ {"pop", "reconcile", "finalize"} :
          w' = [w EXCEPT !.pc = pc] => WorkerTyped'
    BY <1>0, MoveOnType DEF WorkerTyped
  <1>c. \A outcome \in Outcomes : ConcludeAll(outcome) => WorkerTyped'
    BY <1>0, ConcludeAllType DEF WorkerTyped
  <1>d. w' = Resting => WorkerTyped'
    BY RestingType DEF WorkerTyped
  <1>1. CASE ClaimJob
    <2>1. WorkerTyped'
      BY <1>1, <1>b DEF ClaimJob, WorkerPcs
    <2>2. status' \in [Jobs -> Statuses] /\ started' \in [Jobs -> BOOLEAN]
      BY <1>0, <1>1 DEF ClaimJob, TypeOK, Active
    <2> QED
      BY <1>1, <2>1, <2>2 DEF ClaimJob, TypeOK
  <1>2. CASE ReadUnclaimed
    <2>1. WorkerTyped'
      BY <1>2, <1>b, <1>d DEF ReadUnclaimed, WorkerPcs
    <2> QED
      BY <1>2, <2>1 DEF ReadUnclaimed, TypeOK, ledger
  <1>3. CASE DwellCancel
    <2>1. status' \in [Jobs -> Statuses]
      BY <1>0, <1>3, FinishJobType DEF DwellCancel, TypeOK, Terminal
    <2> QED
      BY <1>3, <2>1, <1>d DEF DwellCancel, TypeOK
  <1>4. CASE InsertPendingAudits
    <2>1. WorkerTyped'
      BY <1>4, <1>b DEF InsertPendingAudits, WorkerPcs
    <2>2. Same(w.job, "pending") \in OutcomeMap
      BY <1>0, <1>a, SameType
    <2>3. audit' \in [Jobs -> OutcomeMap]
      BY <1>0, <1>4, <2>2 DEF InsertPendingAudits, TypeOK
    <2> QED
      BY <1>4, <2>1, <2>3 DEF InsertPendingAudits, TypeOK, ledger
  <1>5. CASE AuditDown
    <2>1. status' \in [Jobs -> Statuses]
      BY <1>0, <1>5, FinishJobType DEF AuditDown, TypeOK, Terminal
    <2> QED
      BY <1>5, <2>1, <1>d DEF AuditDown, TypeOK
  <1>6. CASE LoadJar
    <2>1. WorkerTyped'
      BY <1>6, <1>a, <1>b, <1>c DEF LoadJar, WorkerPcs
    <2> QED
      BY <1>6, <2>1 DEF LoadJar, TypeOK, ledger
  <1>7. CASE CheckBeforeForm
    <2>1. WorkerTyped'
      BY <1>7, <1>a, <1>b, <1>c DEF CheckBeforeForm, CheckRunning, WorkerPcs
    <2> QED
      BY <1>7, <2>1 DEF CheckBeforeForm, CheckRunning, TypeOK, ledger
  <1>8. CASE GetForm
    <2>1. WorkerTyped'
      BY <1>8, <1>a, <1>b, <1>c DEF GetForm, WorkerPcs
    <2> QED
      BY <1>8, <2>1 DEF GetForm, TypeOK, ledger
  <1>9. CASE CheckBeforePost
    <2>1. WorkerTyped'
      <3>1. CASE w' = [w EXCEPT !.pc = "post", !.attempt = 1, !.wire = 1]
        BY <1>0, <3>1 DEF WorkerTyped, WorkerState, WorkerPcs
      <3>2. CASE ConcludeAll("session_superseded")
        BY <1>a, <1>c, <3>2
      <3> QED
        BY <1>9, <3>1, <3>2 DEF CheckBeforePost, CheckRunning
    <2> QED
      BY <1>9, <2>1 DEF CheckBeforePost, CheckRunning, TypeOK, ledger
  <1>10. CASE PostLost
    <2>1. applied' \in [Jobs -> SUBSET Ops] /\ posted' \subseteq Jobs
      BY <1>10, SchoolAppliesType DEF PostLost
    <2>2. WorkerTyped'
      <3>0. w.attempt + 1 \in Nat /\ w.wire + 1 \in Nat /\ w.pc = "post"
        BY <1>0, <1>10 DEF PostLost, WorkerState
      <3>1. CASE w' = [w EXCEPT !.wire = @ + 1]
        BY <1>0, <3>0, <3>1 DEF WorkerTyped, WorkerState, WorkerPcs
      <3>2. CASE w' = [w EXCEPT !.attempt = @ + 1, !.wire = 1]
        BY <1>0, <3>0, <3>2 DEF WorkerTyped, WorkerState, WorkerPcs
      <3>3. CASE ConcludeAll("transport_failed")
        BY <1>a, <1>c, <3>3
      <3> QED
        BY <1>10, <3>1, <3>2, <3>3 DEF PostLost
    <2> QED
      BY <1>10, <2>1, <2>2 DEF PostLost, TypeOK, ledger
  <1>11. CASE PostBounced
    <2>1. applied' \in [Jobs -> SUBSET Ops] /\ posted' \subseteq Jobs
      BY <1>11, SchoolAppliesType DEF PostBounced
    <2>2. WorkerTyped'
      BY <1>11, <1>a, <1>c DEF PostBounced
    <2> QED
      BY <1>11, <2>1, <2>2 DEF PostBounced, TypeOK, ledger
  <1>12. CASE PostAnswered
    <2> PICK now \in SUBSET Ops, reply \in [Ops -> Answers \cup {"none"}],
             section \in BOOLEAN :
          /\ SchoolApplies(now)
          /\ LET out == VerdictOf(reply, section, w.attempt > 1)
             IN  w' = [w EXCEPT !.pc = IF Unsettled(out) # {} THEN "reconcile" ELSE "finalize",
                                !.reply = reply, !.out = out, !.final = "done"]
      BY <1>12 DEF PostAnswered
    <2>1. applied' \in [Jobs -> SUBSET Ops] /\ posted' \subseteq Jobs
      BY <1>12, SchoolAppliesType DEF PostAnswered
    <2> DEFINE out == VerdictOf(reply, section, w.attempt > 1)
    <2>2. out \in OutcomeMap
      BY VerdictType
    <2>3. w' = [w EXCEPT !.pc = IF Unsettled(out) # {} THEN "reconcile" ELSE "finalize",
                         !.reply = reply, !.out = out, !.final = "done"]
      OBVIOUS
    <2> HIDE DEF out
    <2>4. WorkerTyped'
      BY <1>0, <2>2, <2>3 DEF WorkerTyped, WorkerState, WorkerPcs
    <2> QED
      BY <1>12, <2>1, <2>4 DEF PostAnswered, TypeOK, ledger
  <1>13. CASE MaybeReconcile
    <2>1. w.pc = "reconcile" /\ w.final \in {"done", "failed"} /\ w.out \in OutcomeMap
      BY <1>0, <1>13 DEF MaybeReconcile, TypeOK, WorkerTyped, WorkerState
    <2>2. WorkerTyped'
      <3>1. CASE w' = [w EXCEPT !.pc = "finalize"]
        BY <1>0, <2>1, <3>1, MoveOnType DEF WorkerTyped, WorkerPcs
      <3>2. ASSUME NEW listed,
                   w' = [w EXCEPT !.pc = "finalize", !.out = ReconcileUpdates(@, listed)]
            PROVE  WorkerTyped'
        <4>1. ReconcileUpdates(w.out, listed) \in OutcomeMap
          BY <2>1, ReconcileType
        <4> QED
          BY <1>0, <2>1, <3>2, <4>1 DEF WorkerTyped, WorkerState, WorkerPcs
      <3> QED
        BY <1>13, <3>1, <3>2 DEF MaybeReconcile
    <2> QED
      BY <1>13, <2>2 DEF MaybeReconcile, TypeOK, ledger
  <1>14. CASE Finalize
    <2>1. w.out \in OutcomeMap /\ w.final \in Terminal
      BY <1>0, <1>14 DEF Finalize, TypeOK, WorkerTyped, WorkerState, Terminal
    <2>2. status' \in [Jobs -> Statuses]
      BY <1>0, <1>14, <2>1, FinishJobType DEF Finalize, TypeOK
    <2> QED
      BY <1>0, <1>14, <2>1, <2>2, <1>d DEF Finalize, TypeOK
  <1> QED
    BY <1>1, <1>2, <1>3, <1>4, <1>5, <1>6, <1>7, <1>8, <1>9, <1>10, <1>11, <1>12,
       <1>13, <1>14 DEF ExecuteTicket

LEMMA TypeStep == TypeOK /\ [Next]_vars => TypeOK'
  <1>1. ASSUME TypeOK, [Next]_vars PROVE TypeOK'
    <2>1. CASE \E s \in Sessions : SessionStep(s)
      BY <1>1, <2>1, SessionStepType
    <2>2. CASE \E p \in Payloads : TokenLapses(p)
      BY <1>1, <2>2 DEF TypeOK, WorkerTyped, TokenLapses, ledger, school
    <2>3. CASE \E r \in Requests : SubmitStep(r)
      BY <1>1, <2>3, SubmitStepType
    <2>4. CASE PopTicket
      BY <1>1, <2>4, PopTicketType
    <2>5. CASE ExecuteTicket
      BY <1>1, <2>5, ExecuteTicketType
    <2>6. CASE WorkerCrash
      BY <1>1, <2>6, RestingType DEF TypeOK, WorkerTyped, WorkerCrash, ledger, web, school
    <2>7. CASE \E j \in Jobs : JobAges(j)
      BY <1>1, <2>7 DEF TypeOK, WorkerTyped, JobAges, web, school
    <2>8. CASE SweepOnce
      BY <1>1, <2>8 DEF TypeOK, WorkerTyped, SweepOnce, web, school, Active, Terminal
    <2>9. CASE UNCHANGED vars
      BY <1>1, <2>9 DEF TypeOK, WorkerTyped, vars, ledger, web, school
    <2> QED
      BY <1>1, <2>1, <2>2, <2>3, <2>4, <2>5, <2>6, <2>7, <2>8, <2>9 DEF Next
  <1> QED
    BY <1>1

(***************************************************************************)
(* Type correctness: every reachable state of the write path, for every    *)
(* value of the constants, is well typed; in particular a handler that is  *)
(* about to push a ticket knows its job, and a worker that is about to     *)
(* write a terminal status has one.                                        *)
(***************************************************************************)
THEOREM TypeCorrect == Spec => []TypeOK
  BY InitType, TypeStep, PTL DEF Spec

-----------------------------------------------------------------------------
(* The inductive invariant.                                                 *)

\* The phases in which the worker owns the job it claimed.
Executing == {"insert_audits", "audit_down", "load_jar", "before_form", "form",
              "before_post", "post", "reconcile", "finalize"}
Unaudited == {"insert_audits", "audit_down"}
BeforePost == {"insert_audits", "audit_down", "load_jar", "before_form", "form",
               "before_post"}

Verdicts == {"success", "failed", "parse_failed", "unknown_reconciled"}
Abandoned == {"transport_failed", "stage_expired", "parse_failed", "session_superseded"}

\* A row that was not claimed has left no trace; a posted one is audited.
RowsOK ==
  \A j \in Jobs :
    /\ status[j] \in {"absent", "queued"} => audit[j] = NoAudit /\ j \notin posted
    /\ j \in posted => \A o \in OpsOf[payload[j]] : audit[j][o] # "none"

\* What the worker is about to record is a full set of verdicts of a posted
\* job, or one reason for all operations; that reason is session_superseded
\* only for a job that was superseded and never posted.
OutcomeOK ==
  /\ w.final = "done" =>
       /\ w.job \in posted
       /\ \A o \in Ops :
            w.out[o] \in IF o \in OpsOf[payload[w.job]] THEN Verdicts ELSE {"none"}
  /\ w.final = "failed" =>
       \E outcome \in Abandoned :
         /\ w.out = Same(w.job, outcome)
         /\ outcome = "session_superseded" =>
              w.job \notin posted /\ status[w.job] = "session_superseded"

WorkerOK ==
  w.pc # "pop" =>
    /\ status[w.job] # "absent"
    /\ OwnerOf[w.session] = BatchOwner[payload[w.job]]
    /\ w.pc \in Executing =>
         status[w.job] \in {"running", "session_superseded"} /\ started[w.job]
    /\ w.pc \in Unaudited => audit[w.job] = NoAudit
    /\ w.pc \in Executing \ Unaudited => audit[w.job] = Same(w.job, "pending")
    /\ w.pc \in BeforePost => w.job \notin posted
    /\ w.pc = "reconcile" => w.final = "done"
    /\ w.pc \in {"reconcile", "finalize"} => OutcomeOK

TicketsOK ==
  \A i \in 1..Len(queue) :
    /\ status[queue[i].job] # "absent"
    /\ OwnerOf[queue[i].session] = BatchOwner[payload[queue[i].job]]

RequestsOK ==
  \A r \in Requests :
    /\ req[r].pc # "idle" => OwnerOf[req[r].session] = BatchOwner[req[r].payload]
    /\ req[r].pc = "enqueue" =>
         status[req[r].job] # "absent" /\ payload[req[r].job] = req[r].payload

IInv ==
  /\ TypeOK
  /\ RowsOK /\ WorkerOK /\ TicketsOK /\ RequestsOK
  /\ OneActivePerPayload /\ SupersededNeverPosted /\ SettledTogether

-----------------------------------------------------------------------------
(* What does not disturb which part of the invariant.                       *)

RowsKept ==
  \A j \in Jobs : status[j] # "absent" => status'[j] # "absent" /\ payload'[j] = payload[j]

\* A step that ends any active jobs, by a login, the dwell time or a failure
\* before the audit, and writes nothing else to the ledger.
EndsJobs ==
  /\ UNCHANGED <<payload, audit, posted>>
  /\ \A j \in Jobs :
       \/ status'[j] = status[j]
       \/ /\ status[j] \in Active
          /\ \/ status'[j] \in {"cancelled", "session_superseded"}
             \/ status'[j] = "failed" /\ audit[j] = NoAudit

LEMMA EndsJobsKeepsRows ==
  ASSUME IInv, EndsJobs
  PROVE  RowsOK' /\ OneActivePerPayload' /\ SupersededNeverPosted' /\ SettledTogether'
         /\ RowsKept
  <1>1. RowsOK' /\ RowsKept
    BY DEF IInv, EndsJobs, RowsOK, RowsKept, Active
  <1>a. \A j \in Jobs : status'[j] \in Active => status[j] \in Active
    BY DEF EndsJobs, Active
  <1>b. payload' = payload
    BY DEF EndsJobs
  <1>2. OneActivePerPayload'
    BY <1>a, <1>b DEF IInv, OneActivePerPayload
  <1>3. SupersededNeverPosted'
    BY DEF IInv, EndsJobs, SupersededNeverPosted, Active
  <1>4. SettledTogether'
    BY DEF IInv, EndsJobs, SettledTogether, Active, NoAudit
  <1> QED
    BY <1>1, <1>2, <1>3, <1>4

LEMMA TicketsKept ==
  ASSUME IInv, RowsKept, queue' = queue
  PROVE  TicketsOK'
  <1> SUFFICES ASSUME NEW i \in 1..Len(queue)
               PROVE  /\ status'[queue[i].job] # "absent"
                      /\ OwnerOf[queue[i].session] = BatchOwner[payload'[queue[i].job]]
    BY DEF TicketsOK
  <1>1. queue[i] \in Ticket
    BY DEF IInv, TypeOK
  <1>2. queue[i].job \in Jobs
    BY <1>1 DEF Ticket
  <1> QED
    BY <1>2 DEF IInv, TicketsOK, RowsKept

LEMMA RequestsKept ==
  ASSUME IInv, RowsKept, req' = req
  PROVE  RequestsOK'
  BY DEF IInv, TypeOK, RequestsOK, RowsKept

LEMMA WorkerKept ==
  ASSUME IInv, UNCHANGED <<started, audit, posted, w>>, RowsKept,
         \A j \in Jobs : status[j] \in {"running", "session_superseded"} =>
           status'[j] = status[j] \/ w.pc = "pop" \/ status'[j] = "session_superseded"
  PROVE  WorkerOK'
  <1> SUFFICES ASSUME w.pc # "pop" PROVE WorkerOK'
    BY DEF WorkerOK
  <1>1. w.job \in Jobs /\ status[w.job] # "absent"
    BY DEF IInv, TypeOK, WorkerTyped, WorkerOK
  <1>2. payload'[w.job] = payload[w.job] /\ status'[w.job] # "absent"
    BY <1>1 DEF RowsKept
  <1>3. \A outcome : Same(w.job, outcome)' = Same(w.job, outcome)
    BY <1>1, <1>2 DEF Same
  <1>4. w.pc \in Executing => status[w.job] \in {"running", "session_superseded"}
                              /\ status'[w.job] \in {"running", "session_superseded"}
    BY <1>1 DEF IInv, WorkerOK
  <1>5. w.pc \in {"reconcile", "finalize"} => OutcomeOK'
    <2> SUFFICES ASSUME w.pc \in {"reconcile", "finalize"} PROVE OutcomeOK'
      OBVIOUS
    <2>1. OutcomeOK
      BY DEF IInv, WorkerOK
    <2>2. status[w.job] = "session_superseded" => status'[w.job] = "session_superseded"
      BY <1>1
    <2> QED
      BY <1>2, <1>3, <2>1, <2>2 DEF OutcomeOK
  <1> QED
    BY <1>2, <1>3, <1>4, <1>5 DEF IInv, WorkerOK

LEMMA NothingWritten ==
  ASSUME IInv, UNCHANGED <<status, payload, audit, posted>>
  PROVE  EndsJobs /\ RowsKept
  BY DEF EndsJobs, RowsKept

-----------------------------------------------------------------------------
(* The steps of sessions, of the clock and of the sweep.                    *)

\* A step that at most ends jobs, and is taken beside tickets, handlers and
\* a worker that goes on with what it knows.
LEMMA AsideSafe ==
  ASSUME IInv, TypeOK', EndsJobs, UNCHANGED <<started, queue, req, w>>,
         \A j \in Jobs : status[j] \in {"running", "session_superseded"} =>
           status'[j] = status[j] \/ w.pc = "pop" \/ status'[j] = "session_superseded"
  PROVE  IInv'
  <1>1. RowsOK' /\ OneActivePerPayload' /\ SupersededNeverPosted' /\ SettledTogether'
        /\ RowsKept
    BY EndsJobsKeepsRows
  <1>2. TicketsOK' /\ RequestsOK'
    BY <1>1, TicketsKept, RequestsKept
  <1>3. UNCHANGED <<started, audit, posted, w>>
    BY DEF EndsJobs
  <1>4. WorkerOK'
    BY <1>1, <1>3, WorkerKept
  <1> QED
    BY <1>1, <1>2, <1>4 DEF IInv

LEMMA IdleSafe ==
  ASSUME IInv, TypeOK',
         UNCHANGED <<status, payload, started, audit, queue, req, w, posted>>
  PROVE  IInv'
  <1>1. EndsJobs
    BY NothingWritten
  <1> QED
    BY <1>1, AsideSafe

LEMMA SessionStepSafe ==
  ASSUME IInv, NEW s \in Sessions, SessionStep(s)
  PROVE  IInv'
  <1>0. TypeOK'
    BY SessionStepType DEF IInv
  <1>1. CASE LoginSupersede(s)
    <2>1. EndsJobs
      BY <1>1 DEF EndsJobs, LoginSupersede, school
    <2>2. \A j \in Jobs : status'[j] = status[j] \/ status'[j] = "session_superseded"
      BY <1>1 DEF LoginSupersede
    <2>3. UNCHANGED <<started, queue, req, w>>
      BY <1>1 DEF LoginSupersede
    <2> QED
      BY <1>0, <2>1, <2>2, <2>3, AsideSafe
  <1>2. CASE LoginOpen(s)
    BY <1>0, <1>2, IdleSafe DEF LoginOpen, ledger, school
  <1>3. CASE Logout(s)
    BY <1>0, <1>3, IdleSafe DEF Logout, ledger, school
  <1>4. CASE JarLapses(s)
    BY <1>0, <1>4, IdleSafe DEF JarLapses, ledger, school
  <1>5. CASE \E p \in Payloads : Preview(s, p)
    BY <1>0, <1>5, IdleSafe DEF Preview, ledger, school
  <1> QED
    BY <1>1, <1>2, <1>3, <1>4, <1>5 DEF SessionStep

LEMMA SweepOnceSafe ==
  ASSUME IInv, TypeOK', SweepOnce
  PROVE  IInv'
  <1>1. EndsJobs
    BY DEF SweepOnce, EndsJobs, school
  <1>2. w.pc = "pop" /\ UNCHANGED <<started, queue, req, w>>
    BY DEF SweepOnce, web
  <1> QED
    BY <1>1, <1>2, AsideSafe

-----------------------------------------------------------------------------
(* The steps of a submit handler.                                           *)

LEMMA RequestOnlySafe ==
  ASSUME IInv, TypeOK', RequestsOK',
         UNCHANGED <<status, payload, started, audit, queue, w, posted>>
  PROVE  IInv'
  <1>1. EndsJobs /\ RowsKept
    BY NothingWritten
  <1>2. RowsOK' /\ OneActivePerPayload' /\ SupersededNeverPosted' /\ SettledTogether'
    BY <1>1, EndsJobsKeepsRows
  <1>3. TicketsOK' /\ WorkerOK'
    BY <1>1, TicketsKept, WorkerKept
  <1> QED
    BY <1>2, <1>3 DEF IInv

LEMMA CreateQueuedJobSafe ==
  ASSUME IInv, TypeOK', NEW r \in Requests, NEW j \in Jobs, CreateQueuedJob(r, j)
  PROVE  IInv'
  <1> DEFINE p == req[r].payload
  <1>1. /\ status[j] = "absent" /\ audit[j] = NoAudit /\ j \notin posted
        /\ status' = [status EXCEPT ![j] = "queued"]
        /\ payload' = [payload EXCEPT ![j] = p]
        /\ UNCHANGED <<started, audit, queue, w, posted>>
    BY DEF CreateQueuedJob, IInv, RowsOK, school
  <1>2. status'[j] = "queued" /\ payload'[j] = p
        /\ \A k \in Jobs \ {j} : status'[k] = status[k] /\ payload'[k] = payload[k]
    BY <1>1 DEF IInv, TypeOK
  <1>3. RowsKept
    BY <1>1, <1>2 DEF RowsKept
  <1>4. RowsOK'
    BY <1>1, <1>2 DEF IInv, RowsOK
  <1>5. OneActivePerPayload'
    <2>1. \A k \in Jobs : status[k] \in Active => payload[k] # p
      BY DEF CreateQueuedJob, ActiveWith
    <2> QED
      BY <1>2, <2>1 DEF IInv, OneActivePerPayload
  <1>6. SupersededNeverPosted'
    BY <1>1, <1>2 DEF IInv, SupersededNeverPosted, NoAudit
  <1>7. SettledTogether'
    BY <1>1, <1>2 DEF IInv, SettledTogether
  <1>8. TicketsOK' /\ WorkerOK'
    BY <1>1, <1>2, <1>3, TicketsKept, WorkerKept
  <1>9. RequestsOK'
    <2> DEFINE made == [req[r] EXCEPT !.pc = "enqueue", !.job = j]
    <2>1. /\ req' = [req EXCEPT ![r] = made]
          /\ req[r].pc = "insert" /\ req[r] \in RequestState
      BY DEF CreateQueuedJob, IInv, TypeOK
    <2>2. made.job = j /\ made.session = req[r].session /\ made.payload = p
      BY <2>1 DEF RequestState
    <2>3. OwnerOf[made.session] = BatchOwner[made.payload]
      BY <2>1, <2>2 DEF IInv, RequestsOK
    <2>4. req'[r] = made /\ \A q \in Requests \ {r} : req'[q] = req[q]
      BY <2>1 DEF IInv, TypeOK
    <2>5. \A q \in Requests \ {r} : req[q].pc = "enqueue" => req[q].job \in Jobs
      BY DEF IInv, TypeOK
    <2> HIDE DEF made
    <2> QED
      BY <1>2, <1>3, <2>2, <2>3, <2>4, <2>5 DEF IInv, RequestsOK, RowsKept
  <1> QED
    BY <1>4, <1>5, <1>6, <1>7, <1>8, <1>9 DEF IInv

LEMMA EnqueueTicketSafe ==
  ASSUME IInv, TypeOK', NEW r \in Requests, EnqueueTicket(r)
  PROVE  IInv'
  <1> DEFINE ticket == [job |-> req[r].job, session |-> req[r].session]
  <1>1. /\ UNCHANGED <<status, payload, started, audit, w, posted>>
        /\ req' = [req EXCEPT ![r] = IdleRequest] /\ queue' = Append(queue, ticket)
    BY DEF EnqueueTicket, ledger, school
  <1>2. EndsJobs /\ RowsKept
    BY <1>1, NothingWritten
  <1>3. RowsOK' /\ OneActivePerPayload' /\ SupersededNeverPosted' /\ SettledTogether'
    BY <1>2, EndsJobsKeepsRows
  <1>4. WorkerOK'
    BY <1>1, <1>2, WorkerKept
  <1>5. status[ticket.job] # "absent"
        /\ OwnerOf[ticket.session] = BatchOwner[payload[ticket.job]]
    BY DEF EnqueueTicket, IInv, RequestsOK
  <1>6. TicketsOK'
    <2>1. queue \in Seq(Ticket)
      BY DEF IInv, TypeOK
    <2> HIDE DEF ticket
    <2>2. \A i \in 1..Len(queue') :
            \/ queue'[i] = ticket
            \/ i \in 1..Len(queue) /\ queue'[i] = queue[i]
      BY <1>1, <2>1
    <2> QED
      BY <1>1, <1>5, <2>2 DEF IInv, TicketsOK
  <1>7. RequestsOK'
    BY <1>1, IdleRequestType DEF IInv, TypeOK, RequestsOK
  <1> QED
    BY <1>3, <1>4, <1>6, <1>7 DEF IInv

LEMMA SubmitStepSafe ==
  ASSUME IInv, NEW r \in Requests, SubmitStep(r)
  PROVE  IInv'
  <1>0. TypeOK'
    BY SubmitStepType DEF IInv
  <1>1. CASE \E s \in Sessions, p \in Payloads : ConsumeConfirm(r, s, p)
    <2>1. RequestsOK'
      BY <1>1 DEF ConsumeConfirm, ledger, IInv, TypeOK, RequestsOK
    <2> QED
      BY <1>0, <1>1, <2>1, RequestOnlySafe DEF ConsumeConfirm, ledger, school
  <1>2. CASE Reauth(r)
    <2>1. RequestsOK'
      BY <1>2 DEF Reauth, ledger, IInv, TypeOK, RequestsOK, RequestState
    <2> QED
      BY <1>0, <1>2, <2>1, RequestOnlySafe DEF Reauth, ledger, school
  <1>3. CASE FindActiveJob(r)
    <2>1. RequestsOK'
      BY <1>3, IdleRequestType
      DEF FindActiveJob, ledger, IInv, TypeOK, RequestsOK, RequestState
    <2> QED
      BY <1>0, <1>3, <2>1, RequestOnlySafe DEF FindActiveJob, ledger, school
  <1>4. CASE \E j \in Jobs : CreateQueuedJob(r, j)
    BY <1>0, <1>4, CreateQueuedJobSafe
  <1>5. CASE DuplicateActiveJob(r)
    <2>1. RequestsOK'
      BY <1>5, IdleRequestType DEF DuplicateActiveJob, ledger, IInv, TypeOK, RequestsOK
    <2> QED
      BY <1>0, <1>5, <2>1, RequestOnlySafe DEF DuplicateActiveJob, ledger, school
  <1>6. CASE EnqueueTicket(r)
    BY <1>0, <1>6, EnqueueTicketSafe
  <1>7. CASE RequestEnds(r)
    <2>1. RequestsOK'
      BY <1>7, IdleRequestType DEF RequestEnds, ledger, IInv, TypeOK, RequestsOK
    <2> QED
      BY <1>0, <1>7, <2>1, RequestOnlySafe DEF RequestEnds, ledger, school
  <1> QED
    BY <1>1, <1>2, <1>3, <1>4, <1>5, <1>6, <1>7 DEF SubmitStep

-----------------------------------------------------------------------------
(* The steps of the worker.                                                 *)

\* A step of the worker that leaves handlers and tickets alone and changes
\* at most its own job.
LEMMA WorkerStepSafe ==
  ASSUME IInv, TypeOK', RowsKept, WorkerOK', UNCHANGED <<queue, req>>,
         RowsOK', OneActivePerPayload', SupersededNeverPosted', SettledTogether'
  PROVE  IInv'
  BY TicketsKept, RequestsKept DEF IInv

\* One that writes nothing shared.
LEMMA WorkerThinksSafe ==
  ASSUME IInv, TypeOK', WorkerOK',
         UNCHANGED <<status, payload, audit, posted, queue, req>>
  PROVE  IInv'
  BY NothingWritten, EndsJobsKeepsRows, WorkerStepSafe

LEMMA RestingSafe == w' = Resting => WorkerOK'
  BY RestingType DEF WorkerOK

\* Every outcome the worker gives up with, for all operations of its job.
LEMMA ConcludeAllSafe ==
  ASSUME IInv, w.pc \in Executing \ Unaudited, NEW outcome \in Abandoned,
         ConcludeAll(outcome),
         UNCHANGED <<status, payload, started, audit>>,
         outcome = "session_superseded" =>
           w.job \notin posted' /\ status[w.job] = "session_superseded"
  PROVE  WorkerOK'
  <1>0. w.pc # "pop" /\ outcome \in Outcomes
    BY DEF Executing, Abandoned, Outcomes
  <1>1. /\ w'.job = w.job /\ w'.session = w.session /\ w'.pc = "finalize"
        /\ w'.out = Same(w.job, outcome) /\ w'.final = "failed"
    BY <1>0, ConcludeAllType DEF IInv
  <1>2. \A any : Same(w.job, any)' = Same(w.job, any)
    BY <1>1 DEF Same
  <1>3. OutcomeOK'
    BY <1>1, <1>2 DEF OutcomeOK
  <1> QED
    BY <1>0, <1>1, <1>2, <1>3 DEF IInv, WorkerOK, Executing, Unaudited, BeforePost

\* The worker moves on to the next phase before the POST.
LEMMA MoveOnSafe ==
  ASSUME IInv, w.pc \in BeforePost \ Unaudited, NEW pc \in WorkerPcs,
         pc \in {"before_form", "form", "before_post"},
         w' = [w EXCEPT !.pc = pc],
         UNCHANGED <<status, payload, started, audit, posted>>
  PROVE  WorkerOK'
  <1>0. w.pc # "pop" /\ w.pc \in Executing
    BY DEF BeforePost, Executing
  <1>1. w'.job = w.job /\ w'.session = w.session /\ w'.pc = pc
    BY <1>0, MoveOnType DEF IInv
  <1>2. Same(w.job, "pending")' = Same(w.job, "pending")
    BY <1>1 DEF Same
  <1> QED
    BY <1>0, <1>1, <1>2 DEF IInv, WorkerOK, Executing, Unaudited, BeforePost

LEMMA PopTicketSafe ==
  ASSUME IInv, PopTicket
  PROVE  IInv'
  <1>1. /\ TypeOK' /\ w'.pc = "claim"
        /\ w'.job = queue[Len(queue)].job /\ w'.session = queue[Len(queue)].session
        /\ Len(queue') = Len(queue) - 1 /\ Len(queue) > 0
        /\ \A i \in 1..Len(queue') : queue'[i] = queue[i]
    BY PopTicketType DEF IInv
  <1>2. UNCHANGED <<status, payload, started, audit, req, posted>>
    BY DEF PopTicket, ledger, web, school
  <1>3. EndsJobs /\ RowsKept
    BY <1>2, NothingWritten
  <1>4. RowsOK' /\ OneActivePerPayload' /\ SupersededNeverPosted' /\ SettledTogether'
    BY <1>3, EndsJobsKeepsRows
  <1>5. RequestsOK'
    BY <1>2, <1>3, RequestsKept
  <1>6. Len(queue) \in Nat /\ Len(queue) \in 1..Len(queue)
        /\ \A i \in 1..Len(queue') : i \in 1..Len(queue)
    <2>1. Len(queue) \in Nat
      BY DEF IInv, TypeOK
    <2> QED
      BY <1>1, <2>1
  <1>7. TicketsOK'
    BY <1>1, <1>2, <1>6 DEF IInv, TicketsOK
  <1>8. WorkerOK'
    BY <1>1, <1>2, <1>6
    DEF IInv, TicketsOK, WorkerOK, Executing, Unaudited, BeforePost
  <1> QED
    BY <1>1, <1>4, <1>5, <1>7, <1>8 DEF IInv

LEMMA ClaimJobSafe ==
  ASSUME IInv, TypeOK', ClaimJob
  PROVE  IInv'
  <1>0. w.pc = "claim" /\ w.job \in Jobs /\ w \in WorkerState
        /\ status[w.job] # "absent" /\ OwnerOf[w.session] = BatchOwner[payload[w.job]]
    BY DEF ClaimJob, IInv, TypeOK, WorkerTyped, WorkerOK
  <1>1. CASE UNCHANGED <<status, started>>
    <2>1. w' = [w EXCEPT !.pc = "unclaimed"]
      BY <1>0, <1>1 DEF ClaimJob, IInv, TypeOK
    <2>2. WorkerOK'
      BY <1>0, <1>1, <2>1
      DEF ClaimJob, WorkerOK, WorkerState, Executing, Unaudited, BeforePost
    <2> QED
      BY <1>1, <2>2, WorkerThinksSafe DEF ClaimJob, web, school
  <1>2. CASE ~ UNCHANGED <<status, started>>
    <2>1. /\ status[w.job] = "queued"
          /\ status' = [status EXCEPT ![w.job] = "running"]
          /\ started' = [started EXCEPT ![w.job] = TRUE]
          /\ w' = [w EXCEPT !.pc = "insert_audits"]
          /\ UNCHANGED <<payload, audit, queue, req, posted>>
      BY <1>2 DEF ClaimJob, web, school
    <2>2. /\ status'[w.job] = "running" /\ started'[w.job]
          /\ \A j \in Jobs \ {w.job} : status'[j] = status[j]
      BY <1>0, <2>1 DEF IInv, TypeOK
    <2>3. audit[w.job] = NoAudit /\ w.job \notin posted
      BY <1>0, <2>1 DEF IInv, RowsOK
    <2>4. w'.pc = "insert_audits" /\ w'.job = w.job /\ w'.session = w.session
      BY <1>0, <2>1 DEF WorkerState
    <2>5. RowsKept /\ RowsOK'
      BY <2>1, <2>2 DEF RowsKept, IInv, RowsOK
    <2>6. \A j \in Jobs : status'[j] \in Active => status[j] \in Active
      BY <2>1, <2>2 DEF Active
    <2>7. OneActivePerPayload'
      BY <2>1, <2>6 DEF IInv, OneActivePerPayload
    <2>8. SupersededNeverPosted' /\ SettledTogether'
      BY <2>1, <2>2, <2>3 DEF IInv, SupersededNeverPosted, SettledTogether, NoAudit
    <2>9. WorkerOK'
      BY <1>0, <2>1, <2>2, <2>3, <2>4
      DEF WorkerOK, Executing, Unaudited, BeforePost
    <2> QED
      BY <2>1, <2>5, <2>7, <2>8, <2>9, WorkerStepSafe
  <1> QED
    BY <1>1, <1>2

\* DwellCancel and AuditDown: the worker ends its job and rests.
LEMMA EndsAndRestsSafe ==
  ASSUME IInv, TypeOK', w.job \in Jobs, NEW s \in {"cancelled", "failed"},
         s = "failed" => audit[w.job] = NoAudit,
         FinishJob(w.job, s), w' = Resting,
         UNCHANGED <<payload, audit, queue, req, posted>>
  PROVE  IInv'
  <1>1. EndsJobs
    BY DEF EndsJobs, FinishJob, IInv, TypeOK
  <1>2. RowsOK' /\ OneActivePerPayload' /\ SupersededNeverPosted' /\ SettledTogether'
        /\ RowsKept
    BY <1>1, EndsJobsKeepsRows
  <1> QED
    BY <1>2, RestingSafe, WorkerStepSafe

LEMMA ReadUnclaimedSafe ==
  ASSUME IInv, TypeOK', ReadUnclaimed
  PROVE  IInv'
  <1>0. w.pc = "unclaimed" /\ w \in WorkerState
        /\ status[w.job] # "absent" /\ OwnerOf[w.session] = BatchOwner[payload[w.job]]
    BY DEF ReadUnclaimed, IInv, TypeOK, WorkerTyped, WorkerOK
  <1>1. UNCHANGED <<status, payload, started, audit, posted, queue, req>>
    BY DEF ReadUnclaimed, ledger, web, school
  <1>2. CASE w' = [w EXCEPT !.pc = "dwell_cancel"]
    <2>1. WorkerOK'
      BY <1>0, <1>1, <1>2
      DEF WorkerOK, WorkerState, Executing, Unaudited, BeforePost
    <2> QED
      BY <1>1, <2>1, WorkerThinksSafe
  <1>3. CASE w' = Resting
    BY <1>1, <1>3, RestingSafe, WorkerThinksSafe
  <1> QED
    BY <1>2, <1>3 DEF ReadUnclaimed

LEMMA InsertPendingAuditsSafe ==
  ASSUME IInv, TypeOK', InsertPendingAudits
  PROVE  IInv'
  <1>0. /\ w.pc = "insert_audits" /\ w.job \in Jobs /\ w \in WorkerState
        /\ status[w.job] \in {"running", "session_superseded"} /\ started[w.job]
        /\ OwnerOf[w.session] = BatchOwner[payload[w.job]]
        /\ audit[w.job] = NoAudit /\ w.job \notin posted
    BY DEF InsertPendingAudits, IInv, TypeOK, WorkerTyped, WorkerOK, Executing,
           Unaudited, BeforePost
  <1>1. UNCHANGED <<status, payload, started, posted, queue, req>>
    BY DEF InsertPendingAudits, ledger, web, school
  <1>2. CASE /\ audit' = [audit EXCEPT ![w.job] = Same(w.job, "pending")]
             /\ w' = [w EXCEPT !.pc = "load_jar"]
    <2>1. /\ audit'[w.job] = Same(w.job, "pending")
          /\ \A j \in Jobs \ {w.job} : audit'[j] = audit[j]
      BY <1>0, <1>2 DEF IInv, TypeOK
    <2>2. w'.pc = "load_jar" /\ w'.job = w.job /\ w'.session = w.session
      BY <1>0, <1>2 DEF WorkerState
    <2>3. Same(w.job, "pending")' = Same(w.job, "pending")
      BY <1>1, <2>2 DEF Same
    <2>4. \A o \in Ops : Same(w.job, "pending")[o] \in {"pending", "none"}
      BY DEF Same
    <2>5. RowsKept /\ RowsOK'
      BY <1>0, <1>1, <2>1 DEF RowsKept, IInv, RowsOK
    <2>6. OneActivePerPayload' /\ SupersededNeverPosted' /\ SettledTogether'
      BY <1>0, <1>1, <2>1, <2>4
      DEF IInv, OneActivePerPayload, SupersededNeverPosted, SettledTogether
    <2>7. WorkerOK'
      BY <1>0, <1>1, <2>1, <2>2, <2>3
      DEF WorkerOK, Executing, Unaudited, BeforePost
    <2> QED
      BY <1>1, <2>5, <2>6, <2>7, WorkerStepSafe
  <1>3. CASE audit' = audit /\ w' = [w EXCEPT !.pc = "audit_down"]
    <2>1. WorkerOK'
      BY <1>0, <1>1, <1>3
      DEF WorkerOK, WorkerState, Executing, Unaudited, BeforePost
    <2> QED
      BY <1>1, <1>3, <2>1, WorkerThinksSafe
  <1> QED
    BY <1>2, <1>3 DEF InsertPendingAudits

\* The phases from the jar to the form.
LEMMA PreparesSafe ==
  ASSUME IInv, TypeOK', LoadJar \/ CheckBeforeForm \/ GetForm
  PROVE  IInv'
  <1>1. /\ UNCHANGED <<status, payload, started, audit, posted, queue, req>>
        /\ w.pc \in BeforePost \ Unaudited /\ w.pc \in Executing \ Unaudited
        /\ w.pc # "pop"
    BY DEF LoadJar, CheckBeforeForm, CheckRunning, GetForm, ledger, web, school,
           BeforePost, Unaudited, Executing
  <1>2. w.job \notin posted /\ status[w.job] \in {"running", "session_superseded"}
    BY <1>1 DEF IInv, WorkerOK
  <1>3. \/ \E pc \in {"before_form", "form", "before_post"} : w' = [w EXCEPT !.pc = pc]
        \/ \E outcome \in {"transport_failed", "stage_expired", "parse_failed"} :
             ConcludeAll(outcome)
        \/ status[w.job] # "running" /\ ConcludeAll("session_superseded")
    BY DEF LoadJar, CheckBeforeForm, CheckRunning, GetForm
  <1>4. WorkerOK'
    <2>1. ASSUME NEW pc \in {"before_form", "form", "before_post"}, w' = [w EXCEPT !.pc = pc]
          PROVE  WorkerOK'
      BY <1>1, <2>1, MoveOnSafe DEF WorkerPcs
    <2>2. ASSUME NEW outcome \in {"transport_failed", "stage_expired", "parse_failed"},
                 ConcludeAll(outcome)
          PROVE  WorkerOK'
      BY <1>1, <2>2, ConcludeAllSafe DEF Abandoned
    <2>3. CASE status[w.job] # "running" /\ ConcludeAll("session_superseded")
      BY <1>1, <1>2, <2>3, ConcludeAllSafe DEF Abandoned
    <2> QED
      BY <1>3, <2>1, <2>2, <2>3
  <1> QED
    BY <1>1, <1>4, WorkerThinksSafe

LEMMA CheckBeforePostSafe ==
  ASSUME IInv, TypeOK', CheckBeforePost
  PROVE  IInv'
  <1>1. /\ UNCHANGED <<status, payload, started, audit, posted, queue, req>>
        /\ w.pc = "before_post" /\ w \in WorkerState
    BY DEF CheckBeforePost, CheckRunning, ledger, web, school, IInv, TypeOK, WorkerTyped
  <1>2. /\ w.job \notin posted /\ status[w.job] \in {"running", "session_superseded"}
        /\ w.pc \in Executing \ Unaudited /\ w.pc # "pop"
    BY <1>1 DEF IInv, WorkerOK, Executing, Unaudited, BeforePost
  <1>3. CASE w' = [w EXCEPT !.pc = "post", !.attempt = 1, !.wire = 1]
    <2>1. w'.pc = "post" /\ w'.job = w.job /\ w'.session = w.session
      BY <1>1, <1>3 DEF WorkerState
    <2>2. Same(w.job, "pending")' = Same(w.job, "pending")
      BY <1>1, <2>1 DEF Same
    <2>3. WorkerOK'
      BY <1>1, <1>2, <2>1, <2>2 DEF IInv, WorkerOK, Executing, Unaudited, BeforePost
    <2> QED
      BY <1>1, <2>3, WorkerThinksSafe
  <1>4. CASE status[w.job] # "running" /\ ConcludeAll("session_superseded")
    <2>1. WorkerOK'
      BY <1>1, <1>2, <1>4, ConcludeAllSafe DEF Abandoned
    <2> QED
      BY <1>1, <2>1, WorkerThinksSafe
  <1> QED
    BY <1>3, <1>4 DEF CheckBeforePost, CheckRunning

\* The request on the wire: the job was audited, claimed and is its worker's.
LEMMA PostSafe ==
  ASSUME IInv, TypeOK', WorkerOK', w.pc = "post", NEW now, SchoolApplies(now),
         UNCHANGED <<status, payload, started, audit, queue, req>>
  PROVE  IInv'
  <1>0. w.job \in Jobs
    BY DEF IInv, TypeOK, WorkerTyped
  <1>1. /\ audit[w.job] = Same(w.job, "pending")
        /\ status[w.job] \in {"running", "session_superseded"}
    BY DEF IInv, WorkerOK, Executing, Unaudited
  <1>2. posted' = posted \cup {w.job}
    BY DEF SchoolApplies
  <1>3. \A o \in Ops : /\ audit[w.job][o] # "session_superseded"
                       /\ o \in OpsOf[payload[w.job]] => audit[w.job][o] # "none"
    BY <1>1 DEF Same
  <1>4. OpsOf[payload[w.job]] \subseteq Ops
    BY <1>0, ConstantsAssumption DEF IInv, TypeOK
  <1>5. RowsKept /\ RowsOK'
    BY <1>0, <1>1, <1>2, <1>3, <1>4 DEF RowsKept, IInv, RowsOK
  <1>6. OneActivePerPayload' /\ SupersededNeverPosted' /\ SettledTogether'
    BY <1>2, <1>3
    DEF IInv, OneActivePerPayload, SupersededNeverPosted, SettledTogether
  <1> QED
    BY <1>5, <1>6, WorkerStepSafe

LEMMA PostLostSafe ==
  ASSUME IInv, TypeOK', PostLost
  PROVE  IInv'
  <1>1. /\ UNCHANGED <<status, payload, started, audit, queue, req>>
        /\ w.pc = "post" /\ w \in WorkerState /\ w.pc # "pop"
    BY DEF PostLost, ledger, web, IInv, TypeOK, WorkerTyped
  <1>2. PICK now : SchoolApplies(now)
    BY DEF PostLost
  <1>3. CASE \/ w' = [w EXCEPT !.wire = @ + 1]
             \/ w' = [w EXCEPT !.attempt = @ + 1, !.wire = 1]
    <2>1. w'.pc = "post" /\ w'.job = w.job /\ w'.session = w.session
      BY <1>1, <1>3 DEF WorkerState
    <2>2. Same(w.job, "pending")' = Same(w.job, "pending")
      BY <1>1, <2>1 DEF Same
    <2>3. WorkerOK'
      BY <1>1, <2>1, <2>2 DEF IInv, WorkerOK, Executing, Unaudited, BeforePost
    <2> QED
      BY <1>1, <1>2, <2>3, PostSafe
  <1>4. CASE ConcludeAll("transport_failed")
    <2>1. WorkerOK'
      BY <1>1, <1>4, ConcludeAllSafe DEF Abandoned, Executing, Unaudited
    <2> QED
      BY <1>1, <1>2, <2>1, PostSafe
  <1> QED
    BY <1>3, <1>4 DEF PostLost

LEMMA PostBouncedSafe ==
  ASSUME IInv, TypeOK', PostBounced
  PROVE  IInv'
  <1>1. /\ UNCHANGED <<status, payload, started, audit, queue, req>>
        /\ w.pc = "post" /\ SchoolApplies({}) /\ ConcludeAll("stage_expired")
    BY DEF PostBounced, ledger, web
  <1>2. WorkerOK'
    BY <1>1, ConcludeAllSafe DEF Abandoned, Executing, Unaudited
  <1> QED
    BY <1>1, <1>2, PostSafe

LEMMA PostAnsweredSafe ==
  ASSUME IInv, TypeOK', PostAnswered
  PROVE  IInv'
  <1>1. /\ UNCHANGED <<status, payload, started, audit, queue, req>>
        /\ w.pc = "post" /\ w \in WorkerState /\ w.pc # "pop"
    BY DEF PostAnswered, ledger, web, IInv, TypeOK, WorkerTyped
  <1> PICK now \in SUBSET Ops, reply \in [Ops -> Answers \cup {"none"}], section \in BOOLEAN :
        /\ SchoolApplies(now)
        /\ HonestReply(reply, applied[w.job], now)
        /\ LET out == VerdictOf(reply, section, w.attempt > 1)
           IN  w' = [w EXCEPT !.pc = IF Unsettled(out) # {} THEN "reconcile" ELSE "finalize",
                              !.reply = reply, !.out = out, !.final = "done"]
    BY DEF PostAnswered
  <1> DEFINE out == VerdictOf(reply, section, w.attempt > 1)
  <1>2. \A o \in Ops :
          out[o] \in IF o \in OpsOf[payload[w.job]] THEN Verdicts ELSE {"none"}
    <2>1. \A o \in Ops : reply[o] # "none" <=> o \in OpsOf[payload[w.job]]
      BY DEF HonestReply
    <2> QED
      BY <2>1, VerdictType DEF Verdicts
  <1>3. w' = [w EXCEPT !.pc = IF Unsettled(out) # {} THEN "reconcile" ELSE "finalize",
                       !.reply = reply, !.out = out, !.final = "done"]
    OBVIOUS
  <1> HIDE DEF out
  <1>4. /\ w'.pc \in {"reconcile", "finalize"} /\ w'.job = w.job
        /\ w'.session = w.session /\ w'.out = out /\ w'.final = "done"
    BY <1>1, <1>3 DEF WorkerState
  <1>5. Same(w.job, "pending")' = Same(w.job, "pending")
    BY <1>1, <1>4 DEF Same
  <1>6. OutcomeOK'
    <2>1. w.job \in posted'
      BY DEF SchoolApplies
    <2> QED
      BY <1>1, <1>2, <1>4, <2>1 DEF OutcomeOK
  <1>7. WorkerOK'
    BY <1>1, <1>4, <1>5, <1>6 DEF IInv, WorkerOK, Executing, Unaudited, BeforePost
  <1> QED
    BY <1>1, <1>7, PostSafe

LEMMA MaybeReconcileSafe ==
  ASSUME IInv, TypeOK', MaybeReconcile
  PROVE  IInv'
  <1>1. /\ UNCHANGED <<status, payload, started, audit, posted, queue, req>>
        /\ w.pc = "reconcile" /\ w \in WorkerState /\ w.pc # "pop"
    BY DEF MaybeReconcile, ledger, web, school, IInv, TypeOK, WorkerTyped
  <1>2. OutcomeOK /\ w.final = "done"
    BY <1>1 DEF IInv, WorkerOK
  <1> DEFINE Upgraded(out) ==
          /\ w' = [w EXCEPT !.pc = "finalize", !.out = out]
          /\ \A o \in Ops : out[o] = w.out[o]
                            \/ (w.out[o] = "unknown_reconciled" /\ out[o] \in Verdicts)
  <1>3. \E out : Upgraded(out)
    <2>1. CASE w' = [w EXCEPT !.pc = "finalize"]
      <3>1. w' = [w EXCEPT !.pc = "finalize", !.out = w.out]
        BY <1>1, <2>1 DEF WorkerState
      <3> QED
        BY <3>1
    <2>2. ASSUME NEW listed,
                 w' = [w EXCEPT !.pc = "finalize", !.out = ReconcileUpdates(@, listed)]
          PROVE  \E out : Upgraded(out)
      <3>1. w.out \in [Ops -> Outcomes \cup {"none"}]
        BY <1>1 DEF WorkerState
      <3>2. \A o \in Ops :
              ReconcileUpdates(w.out, listed)[o]
                \in {w.out[o]} \cup (IF w.out[o] = "unknown_reconciled"
                                       THEN {"success", "failed"} ELSE {})
        BY <3>1, ReconcileType
      <3> QED
        BY <2>2, <3>2 DEF Verdicts
    <2> QED
      BY <2>1, <2>2 DEF MaybeReconcile
  <1>4. PICK out : Upgraded(out)
    BY <1>3
  <1>5. /\ w'.pc = "finalize" /\ w'.job = w.job /\ w'.session = w.session
        /\ w'.out = out /\ w'.final = "done"
    BY <1>1, <1>2, <1>4 DEF WorkerState
  <1>6. OutcomeOK'
    <2>1. \A o \in Ops :
            out[o] \in IF o \in OpsOf[payload[w.job]] THEN Verdicts ELSE {"none"}
      BY <1>2, <1>4 DEF OutcomeOK, Verdicts
    <2> QED
      BY <1>1, <1>2, <1>5, <2>1 DEF OutcomeOK
  <1>7. Same(w.job, "pending")' = Same(w.job, "pending")
    BY <1>1, <1>5 DEF Same
  <1>8. WorkerOK'
    BY <1>1, <1>5, <1>6, <1>7 DEF IInv, WorkerOK, Executing, Unaudited, BeforePost
  <1> QED
    BY <1>1, <1>8, WorkerThinksSafe

\* The settling transaction: outcomes and guarded status at once.
LEMMA FinalizeSafe ==
  ASSUME IInv, TypeOK', Finalize
  PROVE  IInv'
  <1>1. /\ w.pc = "finalize" /\ w.job \in Jobs /\ w.final \in {"done", "failed"}
        /\ OutcomeOK /\ status[w.job] \in {"running", "session_superseded"}
    BY DEF Finalize, IInv, TypeOK, WorkerTyped, WorkerOK, Executing
  <1>2. UNCHANGED <<payload, started, queue, req, posted>> /\ w' = Resting
    BY DEF Finalize, web, school
  <1>3. /\ audit'[w.job] = w.out
        /\ status'[w.job] = IF status[w.job] = "running" THEN w.final
                                                         ELSE "session_superseded"
        /\ \A j \in Jobs \ {w.job} : audit'[j] = audit[j] /\ status'[j] = status[j]
    BY <1>1 DEF Finalize, FinishJob, Active, IInv, TypeOK
  <1>4. \A o \in Ops :
          /\ w.final = "done" =>
               w.out[o] \in IF o \in OpsOf[payload[w.job]] THEN Verdicts ELSE {"none"}
          /\ w.final = "failed" =>
               w.out[o] \in IF o \in OpsOf[payload[w.job]] THEN Abandoned ELSE {"none"}
          /\ w.out[o] = "session_superseded" =>
               w.job \notin posted /\ status[w.job] = "session_superseded"
    BY <1>1 DEF OutcomeOK, Verdicts, Abandoned, Same
  <1>5. OpsOf[payload[w.job]] \subseteq Ops
    BY <1>1, ConstantsAssumption DEF IInv, TypeOK
  <1>6. RowsKept
    BY <1>1, <1>2, <1>3 DEF RowsKept
  <1>7. RowsOK'
    BY <1>1, <1>2, <1>3, <1>4, <1>5 DEF IInv, RowsOK, Verdicts, Abandoned
  <1>8. OneActivePerPayload'
    <2>1. \A j \in Jobs : status'[j] \in Active => status[j] \in Active
      BY <1>1, <1>3 DEF Active
    <2> QED
      BY <1>2, <2>1 DEF IInv, OneActivePerPayload
  <1>9. SupersededNeverPosted'
    BY <1>1, <1>2, <1>3, <1>4 DEF IInv, SupersededNeverPosted
  <1>10. SettledTogether'
    BY <1>1, <1>2, <1>3, <1>4, <1>5 DEF IInv, SettledTogether, Verdicts, Abandoned
  <1> QED
    BY <1>2, <1>6, <1>7, <1>8, <1>9, <1>10, RestingSafe, WorkerStepSafe

LEMMA ExecuteTicketSafe ==
  ASSUME IInv, ExecuteTicket
  PROVE  IInv'
  <1>0. TypeOK' /\ TypeOK
    BY ExecuteTicketType DEF IInv
  <1>1. CASE DwellCancel
    <2>1. w.job \in Jobs
      BY <1>0, <1>1 DEF DwellCancel, TypeOK, WorkerTyped
    <2> QED
      BY <1>0, <1>1, <2>1, EndsAndRestsSafe DEF DwellCancel, web, school
  <1>2. CASE AuditDown
    <2>1. w.job \in Jobs /\ audit[w.job] = NoAudit
      BY <1>0, <1>2 DEF AuditDown, TypeOK, WorkerTyped, IInv, WorkerOK, Unaudited
    <2> QED
      BY <1>0, <1>2, <2>1, EndsAndRestsSafe DEF AuditDown, web, school
  <1> QED
    BY <1>0, <1>1, <1>2, ClaimJobSafe, ReadUnclaimedSafe, InsertPendingAuditsSafe,
       PreparesSafe, CheckBeforePostSafe, PostLostSafe, PostBouncedSafe,
       PostAnsweredSafe, MaybeReconcileSafe, FinalizeSafe
    DEF ExecuteTicket

-----------------------------------------------------------------------------
(* The invariant and what follows from it.                                  *)

LEMMA InitSafe == Init => IInv
  <1> SUFFICES ASSUME Init PROVE IInv
    OBVIOUS
  <1>1. TypeOK
    BY InitType
  <1>2. RowsOK /\ OneActivePerPayload /\ SupersededNeverPosted /\ SettledTogether
    BY DEF Init, RowsOK, OneActivePerPayload, SupersededNeverPosted, SettledTogether,
           Active, NoAudit
  <1>3. WorkerOK /\ RequestsOK
    BY RestingType, IdleRequestType DEF Init, WorkerOK, RequestsOK
  <1>4. TicketsOK
    BY DEF Init, TicketsOK
  <1> QED
    BY <1>1, <1>2, <1>3, <1>4 DEF IInv

LEMMA NextSafe == IInv /\ [Next]_vars => IInv'
  <1> SUFFICES ASSUME IInv, [Next]_vars PROVE IInv'
    OBVIOUS
  <1>0. TypeOK'
    BY TypeStep DEF IInv
  <1>1. CASE \E s \in Sessions : SessionStep(s)
    BY <1>1, SessionStepSafe
  <1>2. CASE \E p \in Payloads : TokenLapses(p)
    BY <1>0, <1>2, IdleSafe DEF TokenLapses, ledger, school
  <1>3. CASE \E r \in Requests : SubmitStep(r)
    BY <1>3, SubmitStepSafe
  <1>4. CASE PopTicket
    BY <1>4, PopTicketSafe
  <1>5. CASE ExecuteTicket
    BY <1>5, ExecuteTicketSafe
  <1>6. CASE WorkerCrash
    BY <1>0, <1>6, RestingSafe, WorkerThinksSafe DEF WorkerCrash, ledger, web, school
  <1>7. CASE \E j \in Jobs : JobAges(j)
    BY <1>0, <1>7, IdleSafe DEF JobAges, web, school
  <1>8. CASE SweepOnce
    BY <1>0, <1>8, SweepOnceSafe
  <1>9. CASE UNCHANGED vars
    BY <1>0, <1>9, IdleSafe DEF vars, ledger, web, school
  <1> QED
    BY <1>1, <1>2, <1>3, <1>4, <1>5, <1>6, <1>7, <1>8, <1>9 DEF Next

\* The invariant holds in every reachable state.
THEOREM InvariantHolds == Spec => []IInv
  BY InitSafe, NextSafe, PTL DEF Spec

\* Fail-closed audit: a batch that reached the school has a write_audit row
\* for each operation, whatever crashed, was retried or superseded since.
THEOREM AuditSafe == Spec => []AuditedBeforePosted
  <1>1. IInv => AuditedBeforePosted
    BY DEF IInv, TypeOK, RowsOK, AuditedBeforePosted
  <1> QED
    BY <1>1, InvariantHolds, PTL

\* The word session_superseded is recorded only for batches that were never
\* posted, for any number of logins around the worker's two status reads.
THEOREM SupersedeSafe == Spec => []SupersededNeverPosted
  <1>1. IInv => SupersededNeverPosted
    BY DEF IInv
  <1> QED
    BY <1>1, InvariantHolds, PTL

\* Any number of concurrent submits of one batch leave one active job.
THEOREM UniqueSafe == Spec => []OneActivePerPayload
  <1>1. IInv => OneActivePerPayload
    BY DEF IInv
  <1> QED
    BY <1>1, InvariantHolds, PTL

\* Terminal statuses and the recorded outcomes agree.
THEOREM SettleSafe == Spec => []SettledTogether
  <1>1. IInv => SettledTogether
    BY DEF IInv
  <1> QED
    BY <1>1, InvariantHolds, PTL

\* A batch is only ever executed under a session of the student it is for.
THEOREM OwnerSafe == Spec => []OwnJarOnly
  <1>1. IInv => OwnJarOnly
    BY DEF IInv, WorkerOK, OwnJarOnly
  <1> QED
    BY <1>1, InvariantHolds, PTL

\* Every ticket, in the list or in execution, is for a committed row.
THEOREM TicketSafe == Spec => []TicketFindsRow
  <1>1. IInv => TicketFindsRow
    BY DEF IInv, TicketsOK, WorkerOK, TicketFindsRow
  <1> QED
    BY <1>1, InvariantHolds, PTL

-----------------------------------------------------------------------------
(* Successes.                                                               *)

\* A batch and slt_result name courses in vocabularies that share no identifier.
VocabulariesDiffer == \A o, p \in Ops : NoOf[o] # CodeOf[p]

\* What is about to be recorded is as real as what is.
RealInv ==
  /\ SuccessIsReal
  /\ w.pc \in {"reconcile", "finalize"} =>
       \A o \in Adds : w.out[o] = "success" => o \in applied[w.job]

\* What the school applied stays applied, so nothing recorded becomes unreal.
LEMMA RecordedStaysReal ==
  ASSUME TypeOK, RealInv, UNCHANGED audit,
         \/ UNCHANGED applied
         \/ w.job \in Jobs /\ \E now : SchoolApplies(now)
  PROVE  SuccessIsReal'
  <1>1. \A j \in Jobs : applied[j] \subseteq applied'[j]
    BY DEF TypeOK, SchoolApplies
  <1> QED
    BY <1>1 DEF RealInv, SuccessIsReal

\* No reason for giving a batch up is a success.
LEMMA GivingUpIsReal ==
  ASSUME TypeOK, RealInv, w.job \in Jobs, NEW outcome \in Outcomes \ {"success"},
         ConcludeAll(outcome), UNCHANGED audit,
         UNCHANGED applied \/ \E now : SchoolApplies(now)
  PROVE  RealInv'
  <1>1. w' = [w EXCEPT !.pc = "finalize", !.out = Same(w.job, outcome), !.final = "failed"]
    BY DEF ConcludeAll, Conclude
  <1>2. w'.out = Same(w.job, outcome)
    BY <1>1 DEF TypeOK, WorkerTyped, WorkerState
  <1>3. \A o \in Adds : w'.out[o] # "success"
    BY <1>2, ConstantsAssumption DEF Same
  <1> QED
    BY <1>3, RecordedStaysReal DEF RealInv

\* A step that records nothing and leaves the worker before its conclusion.
LEMMA BeforeConclusionIsReal ==
  ASSUME TypeOK, RealInv, UNCHANGED <<audit, applied>>,
         w' = w \/ w'.pc \notin {"reconcile", "finalize"}
  PROVE  RealInv'
  BY RecordedStaysReal DEF RealInv

\* The school calls an operation done only if it applied it, by then or by now.
LEMMA PostAnsweredIsReal ==
  ASSUME TypeOK, RealInv, PostAnswered
  PROVE  RealInv'
  <1>1. PICK now \in SUBSET Ops, reply \in [Ops -> Answers \cup {"none"}], section \in BOOLEAN :
          /\ SchoolApplies(now)
          /\ HonestReply(reply, applied[w.job], now)
          /\ LET out == VerdictOf(reply, section, w.attempt > 1)
             IN  w' = [w EXCEPT !.pc = IF Unsettled(out) # {} THEN "reconcile" ELSE "finalize",
                                !.reply = reply, !.out = out, !.final = "done"]
    BY DEF PostAnswered
  <1>2. w.job \in Jobs /\ UNCHANGED audit
    BY DEF PostAnswered, TypeOK, WorkerTyped
  <1>3. w'.job = w.job /\ w'.out = VerdictOf(reply, section, w.attempt > 1)
    BY <1>1 DEF TypeOK, WorkerTyped, WorkerState
  <1>4. applied'[w.job] = applied[w.job] \cup now
    BY <1>1, <1>2 DEF SchoolApplies, TypeOK
  <1>5. ASSUME NEW o \in Adds, w'.out[o] = "success" PROVE o \in applied'[w'.job]
    <2>1. o \in Ops
      BY ConstantsAssumption
    <2>2. reply[o] = "ok"
      BY <1>3, <1>5, <2>1 DEF VerdictOf, ParsedOutcome
    <2>3. o \in now \cup applied[w.job]
      BY <1>1, <2>1, <2>2 DEF HonestReply
    <2> QED
      BY <1>3, <1>4, <2>3
  <1>6. SuccessIsReal'
    BY <1>1, <1>2, RecordedStaysReal
  <1> QED
    BY <1>5, <1>6 DEF RealInv

\* Looking a course up in the other vocabulary finds nothing: no add is settled as
\* a success.
LEMMA MaybeReconcileIsReal ==
  ASSUME VocabulariesDiffer, TypeOK, RealInv, MaybeReconcile
  PROVE  RealInv'
  <1>1. w.pc = "reconcile" /\ UNCHANGED <<audit, applied>>
    BY DEF MaybeReconcile, school
  <1>2. SuccessIsReal'
    BY <1>1, RecordedStaysReal
  <1>3. CASE w' = [w EXCEPT !.pc = "finalize"]
    <2>1. w'.out = w.out /\ w'.job = w.job
      BY <1>3 DEF TypeOK, WorkerTyped, WorkerState
    <2> QED
      BY <1>1, <1>2, <2>1 DEF RealInv
  <1>4. ASSUME NEW selected \in SUBSET OpsOf[payload[w.job]],
               w' = [w EXCEPT !.pc = "finalize",
                              !.out = ReconcileUpdates(@, {CodeOf[o] : o \in selected})]
        PROVE  RealInv'
    <2>1. w'.out = ReconcileUpdates(w.out, {CodeOf[o] : o \in selected}) /\ w'.job = w.job
      BY <1>4 DEF TypeOK, WorkerTyped, WorkerState
    <2>2. selected \subseteq Ops
      BY <1>1, ConstantsAssumption DEF TypeOK, WorkerTyped
    <2>3. ASSUME NEW o \in Adds, w'.out[o] = "success" PROVE w.out[o] = "success"
      <3>1. o \in Ops /\ NoOf[o] \notin {CodeOf[p] : p \in selected}
        BY <2>2, ConstantsAssumption DEF VocabulariesDiffer
      <3> QED
        BY <2>1, <2>3, <3>1 DEF ReconcileUpdates
    <2> QED
      BY <1>1, <1>2, <2>1, <2>3 DEF RealInv
  <1> QED
    BY <1>3, <1>4 DEF MaybeReconcile

\* What is recorded is what the worker concluded.
LEMMA FinalizeIsReal ==
  ASSUME TypeOK, RealInv, Finalize
  PROVE  RealInv'
  <1>1. w.pc = "finalize" /\ w.job \in Jobs
    BY DEF Finalize, TypeOK, WorkerTyped
  <1>2. audit' = [audit EXCEPT ![w.job] = w.out] /\ w' = Resting /\ UNCHANGED applied
    BY DEF Finalize, school
  <1>3. SuccessIsReal'
    BY <1>1, <1>2 DEF TypeOK, RealInv, SuccessIsReal
  <1> QED
    BY <1>2, <1>3, RestingType DEF RealInv

\* One case per step of the worker.
LEMMA ExecuteTicketIsReal ==
  ASSUME VocabulariesDiffer, TypeOK, RealInv, ExecuteTicket
  PROVE  RealInv'
  <1>1. CASE ClaimJob \/ ReadUnclaimed \/ DwellCancel \/ AuditDown
    <2>1. UNCHANGED <<audit, applied>> /\ w'.pc \notin {"reconcile", "finalize"}
      BY <1>1, RestingType DEF ClaimJob, ReadUnclaimed, DwellCancel, AuditDown, school,
                               TypeOK, WorkerTyped, WorkerState
    <2> QED
      BY <2>1, BeforeConclusionIsReal
  <1>2. CASE InsertPendingAudits
    <2>1. UNCHANGED applied /\ w'.pc \notin {"reconcile", "finalize"}
      BY <1>2 DEF InsertPendingAudits, school, TypeOK, WorkerTyped, WorkerState
    <2>2. \A j \in Jobs, o \in Ops : audit'[j][o] = "success" => audit[j][o] = "success"
      <3>1. CASE audit' = [audit EXCEPT ![w.job] = Same(w.job, "pending")]
        <4>1. \A o \in Ops : Same(w.job, "pending")[o] # "success"
          BY DEF Same
        <4> QED
          BY <3>1, <4>1 DEF TypeOK
      <3>2. CASE UNCHANGED audit
        BY <3>2
      <3> QED
        BY <1>2, <3>1, <3>2 DEF InsertPendingAudits
    <2>3. SuccessIsReal'
      BY <2>1, <2>2, ConstantsAssumption DEF RealInv, SuccessIsReal
    <2> QED
      BY <2>1, <2>3 DEF RealInv
  <1>3. CASE LoadJar \/ CheckBeforeForm \/ GetForm \/ CheckBeforePost
    <2>1. UNCHANGED <<audit, applied>> /\ w.job \in Jobs
      BY <1>3 DEF LoadJar, CheckBeforeForm, GetForm, CheckBeforePost, CheckRunning, school,
                  TypeOK, WorkerTyped
    <2>2. CASE \E outcome \in {"transport_failed", "stage_expired", "parse_failed",
                               "session_superseded"} : ConcludeAll(outcome)
      BY <2>1, <2>2, GivingUpIsReal DEF Outcomes
    <2>3. CASE w'.pc \notin {"reconcile", "finalize"}
      BY <2>1, <2>3, BeforeConclusionIsReal
    <2>4. \/ \E outcome \in {"transport_failed", "stage_expired", "parse_failed",
                               "session_superseded"} : ConcludeAll(outcome)
          \/ w'.pc \notin {"reconcile", "finalize"}
      BY <1>3 DEF LoadJar, CheckBeforeForm, GetForm, CheckBeforePost, CheckRunning,
                  TypeOK, WorkerTyped, WorkerState
    <2> QED
      BY <2>2, <2>3, <2>4
  <1>4. CASE PostLost
    <2>1. w.pc = "post" /\ w.job \in Jobs /\ UNCHANGED audit /\ \E now : SchoolApplies(now)
      BY <1>4 DEF PostLost, TypeOK, WorkerTyped
    <2>2. CASE ConcludeAll("transport_failed")
      BY <2>1, <2>2, GivingUpIsReal DEF Outcomes
    <2>3. CASE w'.pc = "post"
      BY <2>1, <2>3, RecordedStaysReal DEF RealInv
    <2>4. w'.pc = "post" \/ ConcludeAll("transport_failed")
      BY <1>4, <2>1 DEF PostLost, TypeOK, WorkerTyped, WorkerState
    <2> QED
      BY <2>2, <2>3, <2>4
  <1>5. CASE PostBounced
    <2>1. w.job \in Jobs /\ UNCHANGED audit /\ SchoolApplies({}) /\ ConcludeAll("stage_expired")
      BY <1>5 DEF PostBounced, TypeOK, WorkerTyped
    <2> QED
      BY <2>1, GivingUpIsReal DEF Outcomes
  <1> QED
    BY <1>1, <1>2, <1>3, <1>4, <1>5, PostAnsweredIsReal, MaybeReconcileIsReal, FinalizeIsReal
       DEF ExecuteTicket

\* The others record nothing.
LEMMA RealStep ==
  ASSUME VocabulariesDiffer, TypeOK, RealInv, [Next]_vars
  PROVE  RealInv'
  <1>1. CASE ExecuteTicket
    BY <1>1, ExecuteTicketIsReal
  <1>2. CASE PopTicket \/ WorkerCrash
    <2>1. UNCHANGED <<audit, applied>> /\ w'.pc \notin {"reconcile", "finalize"}
      BY <1>2, RestingType DEF PopTicket, WorkerCrash, school, WorkerState
    <2> QED
      BY <2>1, BeforeConclusionIsReal
  <1>3. CASE \/ \E s \in Sessions : SessionStep(s)
             \/ \E p \in Payloads : TokenLapses(p)
             \/ \E r \in Requests : SubmitStep(r)
             \/ \E j \in Jobs : JobAges(j)
             \/ SweepOnce
             \/ UNCHANGED vars
    <2>1. UNCHANGED <<audit, applied, w>>
      BY <1>3 DEF SessionStep, LoginSupersede, LoginOpen, Logout, JarLapses, Preview, TokenLapses,
                  SubmitStep, ConsumeConfirm, Reauth, FindActiveJob, CreateQueuedJob,
                  DuplicateActiveJob, EnqueueTicket, RequestEnds, JobAges, SweepOnce, vars, school
    <2> QED
      BY <2>1, BeforeConclusionIsReal
  <1> QED
    BY <1>1, <1>2, <1>3 DEF Next

\* An add is recorded as a success only if the school applied it for this job,
\* through any number of retries of both layers, lost answers and crashes.  It needs
\* that the reconcile finds nothing: an add that the student had selected before
\* would be settled as a success of this job, if the vocabularies were one.
THEOREM SuccessReal == VocabulariesDiffer => (Spec => []SuccessIsReal)
  <1> SUFFICES ASSUME VocabulariesDiffer PROVE Spec => []SuccessIsReal
    OBVIOUS
  <1>1. Init => RealInv
    BY ConstantsAssumption DEF Init, RealInv, SuccessIsReal, NoAudit, Resting
  <1>2. TypeOK /\ RealInv /\ [Next]_vars => RealInv'
    BY RealStep
  <1>3. RealInv => SuccessIsReal
    BY DEF RealInv
  <1> QED
    BY <1>1, <1>2, <1>3, TypeCorrect, PTL DEF Spec

-----------------------------------------------------------------------------
(* The steps: nothing settled is overwritten, and every step is a step of   *)
(* the abstract ledger or changes nothing that it sees.                     *)

Quiet == UNCHANGED <<status, payload, started, audit, posted>>

\* Any set of active jobs is ended in one statement.
Withdraws(s) ==
  /\ UNCHANGED <<payload, started, audit, posted>>
  /\ \A j \in Jobs : \/ status'[j] = status[j]
                     \/ status[j] \in Active /\ status'[j] = s

Posts ==
  /\ w.pc = "post" /\ posted' = posted \cup {w.job}
  /\ UNCHANGED <<status, payload, started, audit>>

\* What a step may do to the ledger.
Kinds ==
  \/ Quiet
  \/ \E s \in {"cancelled", "session_superseded"} : Withdraws(s)
  \/ \E r \in Requests, j \in Jobs : CreateQueuedJob(r, j)
  \/ ClaimJob \/ InsertPendingAudits \/ AuditDown \/ Posts \/ Finalize

LEMMA StepKinds == IInv /\ [Next]_vars => Kinds
  <1> SUFFICES ASSUME IInv, [Next]_vars PROVE Kinds
    OBVIOUS
  <1> USE DEF ledger, web, school
  <1>1. ASSUME NEW s \in Sessions, SessionStep(s) PROVE Kinds
    <2>1. CASE LoginSupersede(s)
      BY <2>1 DEF LoginSupersede, Kinds, Withdraws
    <2>2. CASE LoginOpen(s) \/ Logout(s) \/ JarLapses(s)
               \/ \E p \in Payloads : Preview(s, p)
      BY <2>2 DEF LoginOpen, Logout, JarLapses, Preview, Kinds, Quiet
    <2> QED
      BY <1>1, <2>1, <2>2 DEF SessionStep
  <1>2. ASSUME NEW r \in Requests, SubmitStep(r) PROVE Kinds
    <2>1. CASE \E j \in Jobs : CreateQueuedJob(r, j)
      BY <2>1 DEF Kinds
    <2>2. CASE \/ \E s \in Sessions, p \in Payloads : ConsumeConfirm(r, s, p)
               \/ Reauth(r) \/ FindActiveJob(r) \/ DuplicateActiveJob(r)
               \/ EnqueueTicket(r) \/ RequestEnds(r)
      BY <2>2 DEF ConsumeConfirm, Reauth, FindActiveJob, DuplicateActiveJob,
                  EnqueueTicket, RequestEnds, Kinds, Quiet
    <2> QED
      BY <1>2, <2>1, <2>2 DEF SubmitStep
  <1>3. ASSUME ExecuteTicket PROVE Kinds
    <2>1. CASE ClaimJob \/ InsertPendingAudits \/ AuditDown \/ Finalize
      BY <2>1 DEF Kinds
    <2>2. CASE DwellCancel
      BY <2>2 DEF DwellCancel, FinishJob, Kinds, Withdraws, IInv, TypeOK
    <2>3. CASE ReadUnclaimed \/ LoadJar \/ CheckBeforeForm \/ GetForm
               \/ CheckBeforePost \/ MaybeReconcile
      BY <2>3 DEF ReadUnclaimed, LoadJar, CheckBeforeForm, GetForm, CheckBeforePost,
                  CheckRunning, MaybeReconcile, Kinds, Quiet
    <2>4. CASE PostLost \/ PostBounced \/ PostAnswered
      <3>1. Posts
        BY <2>4 DEF PostLost, PostBounced, PostAnswered, SchoolApplies, Posts
      <3> QED
        BY <3>1 DEF Kinds
    <2> QED
      BY <1>3, <2>1, <2>2, <2>3, <2>4 DEF ExecuteTicket
  <1>4. CASE SweepOnce
    BY <1>4 DEF SweepOnce, Kinds, Withdraws
  <1>5. CASE PopTicket \/ WorkerCrash \/ (\E p \in Payloads : TokenLapses(p))
             \/ (\E j \in Jobs : JobAges(j)) \/ UNCHANGED vars
    BY <1>5 DEF PopTicket, WorkerCrash, TokenLapses, JobAges, vars, Kinds, Quiet
  <1> QED
    BY <1>1, <1>2, <1>3, <1>4, <1>5 DEF Next

\* What is known of the job whose worker takes a step.
LEMMA OwnJob ==
  ASSUME IInv, w.pc \in Executing
  PROVE  /\ w.job \in Jobs /\ started[w.job]
         /\ status[w.job] \in {"running", "session_superseded"}
         /\ w.pc \in Unaudited => audit[w.job] = NoAudit /\ w.job \notin posted
         /\ w.pc \notin Unaudited =>
              /\ audit[w.job] = Same(w.job, "pending")
              /\ audit[w.job] # NoAudit
  <1>1. w.pc # "pop" /\ w.job \in Jobs
    BY DEF Executing, IInv, TypeOK, WorkerTyped
  <1>2. /\ status[w.job] \in {"running", "session_superseded"} /\ started[w.job]
        /\ w.pc \in Unaudited => audit[w.job] = NoAudit /\ w.job \notin posted
        /\ w.pc \notin Unaudited => audit[w.job] = Same(w.job, "pending")
    BY <1>1 DEF IInv, WorkerOK, Unaudited, BeforePost
  <1>3. PICK o \in Ops : o \in OpsOf[payload[w.job]]
    BY <1>1, ConstantsAssumption DEF IInv, TypeOK
  <1>4. Same(w.job, "pending")[o] = "pending" /\ NoAudit[o] = "none"
    BY <1>3 DEF Same, NoAudit
  <1> QED
    BY <1>1, <1>2, <1>4

-----------------------------------------------------------------------------
(* Nothing settled is overwritten.                                          *)

Final ==
  \A j \in Jobs :
    /\ status[j] \in Terminal => status'[j] = status[j]
    /\ \A o \in Ops : audit[j][o] \notin {"none", "pending"} =>
                        audit'[j][o] = audit[j][o]

LEMMA StepFinal == IInv /\ [Next]_vars => Final
  <1> SUFFICES ASSUME IInv, Kinds PROVE Final
    BY StepKinds
  <1> USE DEF Active, Terminal
  <1>1. CASE Quiet \/ Posts
    BY <1>1 DEF Quiet, Posts, Final
  <1>2. ASSUME NEW s \in {"cancelled", "session_superseded"}, Withdraws(s) PROVE Final
    BY <1>2 DEF Withdraws, Final
  <1>3. ASSUME NEW r \in Requests, NEW j \in Jobs, CreateQueuedJob(r, j) PROVE Final
    BY <1>3 DEF CreateQueuedJob, Final, IInv, TypeOK
  <1>4. CASE ClaimJob
    <2>1. w.job \in Jobs
      BY <1>4 DEF ClaimJob, IInv, TypeOK, WorkerTyped
    <2> QED
      BY <1>4, <2>1 DEF ClaimJob, Final, IInv, TypeOK
  <1>5. CASE InsertPendingAudits
    <2>1. w.job \in Jobs /\ audit[w.job] = NoAudit
      BY <1>5, OwnJob DEF InsertPendingAudits, Executing, Unaudited
    <2>2. \A j \in Jobs \ {w.job} : audit'[j] = audit[j]
      BY <1>5, <2>1 DEF InsertPendingAudits, IInv, TypeOK
    <2>3. status' = status
      BY <1>5 DEF InsertPendingAudits, ledger
    <2> QED
      BY <2>1, <2>2, <2>3 DEF Final, NoAudit
  <1>6. CASE AuditDown
    <2>1. w.job \in Jobs
      BY <1>6, OwnJob DEF AuditDown, Executing
    <2> QED
      BY <1>6, <2>1 DEF AuditDown, FinishJob, Final, IInv, TypeOK
  <1>7. CASE Finalize
    <2>1. w.job \in Jobs /\ audit[w.job] = Same(w.job, "pending")
      BY <1>7, OwnJob DEF Finalize, Executing, Unaudited
    <2>2. \A o \in Ops : audit[w.job][o] \in {"none", "pending"}
      BY <2>1 DEF Same
    <2>3. /\ \A j \in Jobs \ {w.job} : audit'[j] = audit[j]
          /\ \A j \in Jobs : status[j] \in Terminal => status'[j] = status[j]
      BY <1>7, <2>1 DEF Finalize, FinishJob, IInv, TypeOK
    <2> QED
      BY <2>2, <2>3 DEF Final
  <1> QED
    BY <1>1, <1>2, <1>3, <1>4, <1>5, <1>6, <1>7 DEF Kinds

\* No terminal status and no recorded verdict is ever overwritten: not by the
\* worker finishing a job that a login superseded, nor by a second execution.
THEOREM LedgerFinal == Spec => LedgerIsFinal
  <1>1. IInv /\ [Next]_vars =>
          [\A j \in Jobs :
             /\ status[j] \in Terminal => status'[j] = status[j]
             /\ \A o \in Ops : audit[j][o] \notin {"none", "pending"} =>
                                 audit'[j][o] = audit[j][o]]_vars
    BY StepFinal DEF Final
  <1> QED
    BY <1>1, InvariantHolds, PTL DEF Spec, LedgerIsFinal

-----------------------------------------------------------------------------
(* The refinement.                                                          *)

LEMMA RefinesInit == Init => Ledger!Init
  BY ConstantsAssumption DEF Init, Ledger!Init

\* What a step does to the ledger and its rows, as WriteLedger has it.
LedgerMoves ==
  \/ /\ UNCHANGED audit
     /\ \/ UNCHANGED Ledger!vars
        \/ \E j \in Jobs, p \in Payloads : Ledger!Accept(j, p)
        \/ \E j \in Jobs : Ledger!Begin(j) \/ Ledger!Send(j)
        \/ \E S \in SUBSET Jobs, s \in {"cancelled", "session_superseded"} :
             Ledger!Withdraw(S, s)
  \/ /\ w.job \in Jobs
     /\ \/ /\ InsertPendingAudits /\ Ledger!Audit(w.job)
           /\ audit' = [audit EXCEPT ![w.job] = Same(w.job, "pending")]
        \/ AuditDown /\ Ledger!Fail(w.job)
        \/ Finalize /\ (Ledger!Complete(w.job) \/ Ledger!Fail(w.job))
        \/ /\ Finalize /\ status[w.job] = "session_superseded"
           /\ UNCHANGED Ledger!vars

LEMMA LedgerSteps ==
  ASSUME IInv, [Next]_vars
  PROVE  LedgerMoves
  <1>k. Kinds /\ TypeOK'
    BY StepKinds, TypeStep DEF IInv
  <1> DEFINE Begun == {j \in Jobs : started[j]}
             Audited == {j \in Jobs : audit[j] # NoAudit}
  <1>0. /\ status \in [Jobs -> Active \cup Terminal \cup {"absent"}]
        /\ started \in [Jobs -> BOOLEAN]
        /\ DOMAIN audit = Jobs
    BY DEF IInv, TypeOK
  <1>1. CASE Quiet
    BY <1>1 DEF Quiet, Ledger!vars, LedgerMoves
  <1>2. ASSUME NEW s \in {"cancelled", "session_superseded"}, Withdraws(s)
        PROVE  LedgerMoves
    <2> DEFINE S == {j \in Jobs : status'[j] # status[j]}
    <2>0. status' \in [Jobs -> Active \cup Terminal \cup {"absent"}]
      BY <1>k DEF TypeOK
    <2>1. UNCHANGED <<payload, Begun, Audited, posted, audit>>
      BY <1>2 DEF Withdraws
    <2>2. CASE S = {}
      <3>1. status' = status
        BY <1>0, <2>0, <2>2
      <3> QED
        BY <2>1, <3>1 DEF Ledger!vars, LedgerMoves
    <2>3. CASE S # {}
      <3>1. status' = [j \in Jobs |-> IF j \in S THEN s ELSE status[j]]
        BY <1>2, <2>0 DEF Withdraws
      <3>2. \A j \in S : status[j] \in Active
        BY <1>2 DEF Withdraws
      <3>3. S \in SUBSET Jobs
        OBVIOUS
      <3> HIDE DEF S
      <3>4. Ledger!Withdraw(S, s)
        BY <2>1, <2>3, <3>1, <3>2 DEF Ledger!Withdraw, Ledger!Active, Active
      <3> QED
        BY <2>1, <3>3, <3>4 DEF LedgerMoves
    <2> QED
      BY <2>2, <2>3
  <1>3. ASSUME NEW r \in Requests, NEW j \in Jobs, CreateQueuedJob(r, j)
        PROVE  LedgerMoves
    <2> DEFINE p == req[r].payload
    <2>1. UNCHANGED <<Begun, Audited, posted, audit>> /\ p \in Payloads
      BY <1>3 DEF CreateQueuedJob, school, IInv, TypeOK, RequestState
    <2>2. \A k \in Jobs : status[k] \in Active => payload[k] # p
      BY <1>3 DEF CreateQueuedJob, ActiveWith
    <2>3. /\ status[j] = "absent"
          /\ status' = [status EXCEPT ![j] = "queued"]
          /\ payload' = [payload EXCEPT ![j] = p]
      BY <1>3 DEF CreateQueuedJob
    <2>4. Ledger!Accept(j, p)
      BY <2>1, <2>2, <2>3 DEF Ledger!Accept, Ledger!Active, Active
    <2> QED
      BY <2>1, <2>4 DEF LedgerMoves
  <1>4. CASE ClaimJob
    <2>0. w.job \in Jobs
      BY <1>4 DEF ClaimJob, IInv, TypeOK, WorkerTyped
    <2>1. UNCHANGED <<payload, Audited, posted, audit>>
      BY <1>4 DEF ClaimJob, school
    <2>2. CASE UNCHANGED <<status, started>>
      BY <2>1, <2>2 DEF Ledger!vars, LedgerMoves
    <2>3. CASE ~ UNCHANGED <<status, started>>
      <3>1. /\ status[w.job] = "queued"
            /\ status' = [status EXCEPT ![w.job] = "running"]
            /\ started' = [started EXCEPT ![w.job] = TRUE]
        BY <1>4, <2>3 DEF ClaimJob
      <3>2. Begun' = Begun \cup {w.job}
        BY <1>0, <2>0, <3>1
      <3>3. \E j \in Jobs : Ledger!Begin(j)
        BY <2>0, <2>1, <3>1, <3>2 DEF Ledger!Begin
      <3> QED
        BY <2>1, <3>3 DEF LedgerMoves
    <2> QED
      BY <2>2, <2>3
  <1>5. CASE InsertPendingAudits
    <2>0. w.job \in Jobs /\ started[w.job] /\ w.job \notin posted
      BY <1>5, OwnJob DEF InsertPendingAudits, Executing, Unaudited
    <2>1. UNCHANGED <<status, payload, Begun, posted>>
      BY <1>5 DEF InsertPendingAudits, ledger, school
    <2>2. CASE audit' = audit
      BY <2>1, <2>2 DEF Ledger!vars, LedgerMoves
    <2>3. CASE audit' = [audit EXCEPT ![w.job] = Same(w.job, "pending")]
      <3>1. Same(w.job, "pending") # NoAudit
        <4>1. PICK o \in Ops : o \in OpsOf[payload[w.job]]
          BY <2>0, ConstantsAssumption DEF IInv, TypeOK
        <4> QED
          BY <4>1 DEF Same, NoAudit
      <3>2. Audited' = Audited \cup {w.job}
        BY <1>0, <2>0, <2>3, <3>1 DEF NoAudit
      <3>3. Ledger!Audit(w.job)
        BY <2>0, <2>1, <3>2 DEF Ledger!Audit
      <3> QED
        BY <1>5, <2>0, <2>3, <3>3 DEF LedgerMoves
    <2> QED
      BY <1>5, <2>2, <2>3 DEF InsertPendingAudits
  <1>6. CASE AuditDown
    <2>0. w.job \in Jobs /\ status[w.job] \in {"running", "session_superseded"}
      BY <1>6, OwnJob DEF AuditDown, Executing
    <2>1. UNCHANGED <<payload, Begun, Audited, posted, audit>>
      BY <1>6 DEF AuditDown, school
    <2>2. CASE status[w.job] = "running"
      <3>1. Ledger!Fail(w.job)
        BY <1>6, <2>1, <2>2 DEF AuditDown, FinishJob, Ledger!Fail, Active
      <3> QED
        BY <1>6, <2>0, <3>1 DEF LedgerMoves
    <2>3. CASE status[w.job] = "session_superseded"
      <3>1. status' = status
        BY <1>0, <1>6, <2>0, <2>3 DEF AuditDown, FinishJob, Active
      <3> QED
        BY <2>1, <3>1 DEF Ledger!vars, LedgerMoves
    <2> QED
      BY <2>0, <2>2, <2>3
  <1>7. CASE Posts
    <2>0. /\ w.job \in Jobs /\ started[w.job] /\ audit[w.job] # NoAudit
          /\ status[w.job] \in {"running", "session_superseded"}
      BY <1>7, OwnJob DEF Posts, Executing, Unaudited
    <2>1. UNCHANGED <<status, payload, Begun, Audited, audit>>
      BY <1>7 DEF Posts
    <2>2. Ledger!Send(w.job)
      BY <1>7, <2>0, <2>1 DEF Posts, Ledger!Send
    <2> QED
      BY <2>0, <2>1, <2>2 DEF LedgerMoves
  <1>8. CASE Finalize
    <2>0. /\ w.job \in Jobs /\ status[w.job] \in {"running", "session_superseded"}
          /\ audit[w.job] # NoAudit
      BY <1>8, OwnJob DEF Finalize, Executing, Unaudited
    <2>1. OutcomeOK /\ w.final \in {"done", "failed"}
      BY <1>8 DEF Finalize, IInv, WorkerOK, TypeOK, WorkerTyped
    <2>2. UNCHANGED <<payload, Begun, posted>>
      BY <1>8 DEF Finalize, school
    <2>3. Audited' = Audited
      <3>1. PICK o \in Ops : o \in OpsOf[payload[w.job]]
        BY <2>0, ConstantsAssumption DEF IInv, TypeOK
      <3>2. w.out[o] # "none"
        BY <2>1, <3>1 DEF OutcomeOK, Verdicts, Abandoned, Same
      <3>3. w.out # NoAudit
        BY <3>2 DEF NoAudit
      <3> QED
        BY <1>0, <1>8, <2>0, <3>3 DEF Finalize, NoAudit
    <2>4. CASE status[w.job] = "running"
      <3>1. status' = [status EXCEPT ![w.job] = w.final]
        BY <1>8, <2>4 DEF Finalize, FinishJob, Active
      <3>2. CASE w.final = "done"
        <4>1. Ledger!Complete(w.job)
          BY <2>1, <2>2, <2>3, <2>4, <3>1, <3>2 DEF Ledger!Complete, OutcomeOK
        <4> QED
          BY <1>8, <2>0, <4>1 DEF LedgerMoves
      <3>3. CASE w.final = "failed"
        <4>1. Ledger!Fail(w.job)
          BY <2>2, <2>3, <2>4, <3>1, <3>3 DEF Ledger!Fail
        <4> QED
          BY <1>8, <2>0, <4>1 DEF LedgerMoves
      <3> QED
        BY <2>1, <3>2, <3>3
    <2>5. CASE status[w.job] = "session_superseded"
      <3>1. status' = status
        BY <1>0, <1>8, <2>0, <2>5 DEF Finalize, FinishJob, Active
      <3> QED
        BY <1>8, <2>0, <2>2, <2>3, <2>5, <3>1 DEF Ledger!vars, LedgerMoves
    <2> QED
      BY <2>0, <2>4, <2>5
  <1> QED
    BY <1>k, <1>1, <1>2, <1>3, <1>4, <1>5, <1>6, <1>7, <1>8 DEF Kinds

LEMMA RefinesStep == IInv /\ [Next]_vars => [Ledger!Next]_(Ledger!vars)
  <1> SUFFICES ASSUME IInv, [Next]_vars PROVE Ledger!Next \/ UNCHANGED Ledger!vars
    OBVIOUS
  <1>1. LedgerMoves
    BY LedgerSteps
  <1>2. CASE \/ \E j \in Jobs, p \in Payloads : Ledger!Accept(j, p)
             \/ \E j \in Jobs : Ledger!Begin(j) \/ Ledger!Send(j)
             \/ \E S \in SUBSET Jobs, s \in {"cancelled", "session_superseded"} :
                  Ledger!Withdraw(S, s)
    BY <1>2 DEF Ledger!Next
  <1>3. CASE w.job \in Jobs /\ (Ledger!Audit(w.job) \/ Ledger!Complete(w.job) \/ Ledger!Fail(w.job))
    <2>1. CASE Ledger!Audit(w.job)
      BY <1>3, <2>1 DEF Ledger!Next, Ledger!Audit
    <2>2. CASE Ledger!Complete(w.job)
      BY <1>3, <2>2 DEF Ledger!Next
    <2>3. CASE Ledger!Fail(w.job)
      BY <1>3, <2>3 DEF Ledger!Next
    <2> QED
      BY <1>3, <2>1, <2>2, <2>3
  <1> QED
    BY <1>1, <1>2, <1>3 DEF LedgerMoves

\* The engine, with its tickets, retries, crashes and superseding logins,
\* implements the abstract ledger.
THEOREM LedgerImplemented == Spec => ImplementsLedger
  BY RefinesInit, RefinesStep, InvariantHolds, PTL DEF Spec, ImplementsLedger, Ledger!Spec

-----------------------------------------------------------------------------
(* How often a job is executed and posted.                                  *)

VARIABLES
  claims,  \* history: how often the worker claimed each job
  posts    \* history: how many POSTs left the worker for each job

Claims == ClaimJob /\ w'.pc = "insert_audits"
PostLeaves == PostLost \/ PostBounced \/ PostAnswered

Counts ==
  /\ claims' = IF Claims THEN [claims EXCEPT ![w.job] = @ + 1] ELSE claims
  /\ posts' = IF PostLeaves THEN [posts EXCEPT ![w.job] = @ + 1] ELSE posts

CountedSpec ==
  /\ Spec
  /\ claims = [j \in Jobs |-> 0] /\ posts = [j \in Jobs |-> 0]
  /\ [][Counts]_<<vars, claims, posts>>

MostPosts == (TransportRetries + 1) * AdapterAttempts

ExecutedOnce ==
  \A j \in Jobs : /\ claims[j] <= 1
                  /\ posts[j] <= claims[j] * MostPosts

\* POSTs so far of the execution that is about to send one more.
SentBy(attempt, wire) == (attempt - 1) * AdapterAttempts + (wire - 1)

CountInv ==
  /\ \A j \in Jobs : status[j] \in {"absent", "queued"} => ~started[j]
  /\ claims = [j \in Jobs |-> IF started[j] THEN 1 ELSE 0]
  /\ posts \in [Jobs -> Nat]
  /\ \A j \in Jobs : /\ posts[j] <= MostPosts
                     /\ ~started[j] \/ j \notin posted => posts[j] = 0
  /\ w.pc = "post" =>
       /\ w.attempt \in 1..(TransportRetries + 1) /\ w.wire \in 1..AdapterAttempts
       /\ posts[w.job] = SentBy(w.attempt, w.wire)

\* Each further POST of an execution is the next of a row of MostPosts.
LEMMA PostsInARow ==
  ASSUME NEW attempt \in 1..(TransportRetries + 1), NEW wire \in 1..AdapterAttempts
  PROVE  /\ MostPosts \in Nat
         /\ SentBy(attempt, wire) \in Nat /\ SentBy(attempt, wire) + 1 <= MostPosts
         /\ SentBy(attempt, wire + 1) = SentBy(attempt, wire) + 1
         /\ SentBy(attempt + 1, 1) = SentBy(attempt, AdapterAttempts) + 1
         /\ SentBy(1, 1) = 0
  <1>1. TransportRetries \in Nat /\ AdapterAttempts \in Nat /\ AdapterAttempts > 0
    BY ConstantsAssumption
  <1>2. \A i, k \in Nat, a \in Nat : i <= k => i * a <= k * a /\ i * a \in Nat
    OBVIOUS
  <1>3. \A i \in Nat, a \in Nat : (i + 1) * a = i * a + a
    OBVIOUS
  <1>4. /\ (attempt - 1) * AdapterAttempts <= TransportRetries * AdapterAttempts
        /\ (attempt - 1) * AdapterAttempts \in Nat /\ TransportRetries * AdapterAttempts \in Nat
    <2>1. attempt - 1 \in Nat /\ attempt - 1 <= TransportRetries
      BY <1>1
    <2> QED
      BY <1>1, <1>2, <2>1
  <1>5. MostPosts = TransportRetries * AdapterAttempts + AdapterAttempts
    BY <1>1, <1>3 DEF MostPosts
  <1>6. attempt * AdapterAttempts = (attempt - 1) * AdapterAttempts + AdapterAttempts
    <2>1. attempt - 1 \in Nat /\ (attempt - 1) + 1 = attempt
      BY <1>1
    <2> QED
      BY <1>1, <1>3, <2>1
  <1>7. (attempt + 1) - 1 = attempt /\ (1 - 1) * AdapterAttempts = 0
    BY <1>1
  <1> QED
    BY <1>1, <1>4, <1>5, <1>6, <1>7 DEF SentBy

\* The rows' part: a job is claimed from the queue, and never returns to it.
LEMMA ClaimsCounted ==
  ASSUME IInv, CountInv, [Next]_vars, Counts
  PROVE  /\ \A j \in Jobs : status'[j] \in {"absent", "queued"} => ~started'[j]
         /\ claims' = [j \in Jobs |-> IF started'[j] THEN 1 ELSE 0]
         /\ \A j \in Jobs : started[j] => started'[j]
  <1> DEFINE Counted == /\ \A j \in Jobs : status'[j] \in {"absent", "queued"} => ~started'[j]
                        /\ claims' = [j \in Jobs |-> IF started'[j] THEN 1 ELSE 0]
                        /\ \A j \in Jobs : started[j] => started'[j]
  <1>1. /\ status \in [Jobs -> Active \cup Terminal \cup {"absent"}]
        /\ started \in [Jobs -> BOOLEAN] /\ w \in WorkerState
        /\ w.pc # "pop" => w.job \in Jobs
    BY DEF IInv, TypeOK, WorkerTyped
  <1>2. CASE Claims
    <2>1. w.pc = "claim" /\ w.job \in Jobs
      BY <1>1, <1>2 DEF Claims, ClaimJob
    <2>2. status[w.job] = "queued"
      BY <1>1, <1>2 DEF Claims, ClaimJob, WorkerState
    <2>3. /\ status' = [status EXCEPT ![w.job] = "running"]
          /\ started' = [started EXCEPT ![w.job] = TRUE]
      BY <1>1, <1>2 DEF Claims, ClaimJob, WorkerState
    <2>4. claims[w.job] = 0 /\ claims' = [claims EXCEPT ![w.job] = 1]
      <3>1. claims[w.job] = 0
        BY <2>1, <2>2 DEF CountInv
      <3>2. claims' = [claims EXCEPT ![w.job] = @ + 1]
        BY <1>2 DEF Counts
      <3> QED
        BY <3>1, <3>2
    <2> QED
      BY <1>1, <2>1, <2>3, <2>4 DEF CountInv
  <1>3. CASE ~ Claims
    <2>1. claims' = claims
      BY <1>3 DEF Counts
    <2>2. started' = started /\ \A j \in Jobs : status'[j] \in {"absent", "queued"} =>
                                  status[j] \in {"absent", "queued"}
      <3>1. Kinds
        BY StepKinds
      <3> USE DEF Active, Terminal
      <3>2. CASE Quiet \/ Posts
        BY <3>2 DEF Quiet, Posts
      <3>3. ASSUME NEW s \in {"cancelled", "session_superseded"}, Withdraws(s)
            PROVE  <2>2!1 /\ <2>2!2
        BY <3>3 DEF Withdraws
      <3>4. ASSUME NEW r \in Requests, NEW j \in Jobs, CreateQueuedJob(r, j)
            PROVE  <2>2!1 /\ <2>2!2
        BY <1>1, <3>4 DEF CreateQueuedJob
      <3>5. CASE ClaimJob
        BY <1>1, <1>3, <3>5 DEF Claims, ClaimJob, WorkerState
      <3>6. CASE InsertPendingAudits
        BY <3>6 DEF InsertPendingAudits, ledger
      <3>7. CASE AuditDown
        BY <1>1, <3>7 DEF AuditDown, FinishJob
      <3>8. CASE Finalize
        <4>1. w.final \in {"done", "failed"}
          BY <3>8 DEF Finalize, IInv, TypeOK, WorkerTyped
        <4> QED
          BY <1>1, <3>8, <4>1 DEF Finalize, FinishJob
      <3> QED
        BY <3>1, <3>2, <3>3, <3>4, <3>5, <3>6, <3>7, <3>8 DEF Kinds
    <2> QED
      BY <2>1, <2>2 DEF CountInv
  <1> QED
    BY <1>2, <1>3

\* Only CheckBeforePost leads the worker to its first POST.
LEMMA ComesToPost ==
  ASSUME IInv, [Next]_vars, ~ PostLeaves, w'.pc = "post"
  PROVE  \/ w' = w
         \/ /\ w.pc = "before_post" /\ w'.job = w.job /\ w'.attempt = 1 /\ w'.wire = 1
  <1>1. w \in WorkerState
    BY DEF IInv, TypeOK, WorkerTyped
  <1> USE DEF ledger, web, school
  <1>2. ASSUME NEW s \in Sessions, SessionStep(s) PROVE w' = w
    BY <1>2 DEF SessionStep, LoginSupersede, LoginOpen, Logout, JarLapses, Preview
  <1>3. ASSUME NEW r \in Requests, SubmitStep(r) PROVE w' = w
    BY <1>3 DEF SubmitStep, ConsumeConfirm, Reauth, FindActiveJob, CreateQueuedJob,
                DuplicateActiveJob, EnqueueTicket, RequestEnds
  <1>4. CASE \/ SweepOnce \/ (\E p \in Payloads : TokenLapses(p))
             \/ (\E j \in Jobs : JobAges(j)) \/ UNCHANGED vars
    BY <1>4 DEF SweepOnce, TokenLapses, JobAges, vars
  <1>5. CASE PopTicket \/ WorkerCrash
    BY <1>5, RestingType DEF PopTicket, WorkerCrash, WorkerState
  <1>6. CASE CheckBeforePost
    BY <1>1, <1>6 DEF CheckBeforePost, CheckRunning, ConcludeAll, Conclude, WorkerState
  <1>7. CASE ClaimJob \/ ReadUnclaimed \/ DwellCancel \/ InsertPendingAudits \/ AuditDown
    BY <1>1, <1>7 DEF ClaimJob, ReadUnclaimed, DwellCancel, InsertPendingAudits, AuditDown,
                      Resting, WorkerState
  <1>8. CASE LoadJar \/ CheckBeforeForm \/ GetForm
    BY <1>1, <1>8 DEF LoadJar, CheckBeforeForm, CheckRunning, GetForm, ConcludeAll, Conclude,
                      WorkerState
  <1>9. CASE MaybeReconcile \/ Finalize
    BY <1>1, <1>9, RestingType DEF MaybeReconcile, Finalize, WorkerState
  <1> QED
    BY <1>2, <1>3, <1>4, <1>5, <1>6, <1>7, <1>8, <1>9 DEF Next, ExecuteTicket, PostLeaves

LEMMA CountStep ==
  ASSUME IInv, IInv', CountInv, [Next]_vars, Counts
  PROVE  CountInv'
  <1>1. /\ w \in WorkerState /\ w' \in WorkerState
        /\ w.pc # "pop" => w.job \in Jobs
        /\ w'.pc # "pop" => w'.job \in Jobs
    BY DEF IInv, TypeOK, WorkerTyped
  <1>2. /\ \A j \in Jobs : status'[j] \in {"absent", "queued"} => ~started'[j]
        /\ claims' = [j \in Jobs |-> IF started'[j] THEN 1 ELSE 0]
        /\ \A j \in Jobs : started[j] => started'[j]
    BY ClaimsCounted
  <1>3. posted \subseteq posted'
    <2>1. Kinds
      BY StepKinds
    <2> QED
      BY <2>1 DEF Kinds, Quiet, Withdraws, CreateQueuedJob, ClaimJob, InsertPendingAudits,
                  AuditDown, Posts, Finalize, school
  <1>4. MostPosts \in Nat
    <2>1. 1 \in 1..(TransportRetries + 1) /\ 1 \in 1..AdapterAttempts
      BY ConstantsAssumption
    <2> QED
      BY <2>1, PostsInARow
  <1>5. CASE PostLeaves
    <2>1. /\ w.pc = "post" /\ w.job \in Jobs /\ started[w.job]
          /\ w.job \in posted' /\ started' = started
      <3>1. w.pc = "post" /\ w.job \in posted' /\ started' = started
        BY <1>5 DEF PostLeaves, PostLost, PostBounced, PostAnswered, SchoolApplies, ledger
      <3> QED
        BY <3>1, OwnJob DEF Executing
    <2>2. /\ w.attempt \in 1..(TransportRetries + 1) /\ w.wire \in 1..AdapterAttempts
          /\ posts[w.job] = SentBy(w.attempt, w.wire)
      BY <2>1 DEF CountInv
    <2>3. posts' = [posts EXCEPT ![w.job] = SentBy(w.attempt, w.wire) + 1]
      BY <1>5, <2>2 DEF Counts
    <2>4. /\ SentBy(w.attempt, w.wire) + 1 \in Nat
          /\ SentBy(w.attempt, w.wire) + 1 <= MostPosts
      BY <2>2, PostsInARow
    <2>5. /\ posts' \in [Jobs -> Nat]
          /\ \A j \in Jobs : /\ posts'[j] <= MostPosts
                             /\ ~started'[j] \/ j \notin posted' => posts'[j] = 0
      BY <1>3, <2>1, <2>3, <2>4 DEF CountInv
    <2>6. ASSUME w'.pc = "post"
          PROVE  /\ w'.attempt \in 1..(TransportRetries + 1) /\ w'.wire \in 1..AdapterAttempts
                 /\ posts'[w'.job] = SentBy(w'.attempt, w'.wire)
      <3>1. \/ w.wire < AdapterAttempts /\ w' = [w EXCEPT !.wire = @ + 1]
            \/ /\ w.wire >= AdapterAttempts /\ w.attempt <= TransportRetries
               /\ w' = [w EXCEPT !.attempt = @ + 1, !.wire = 1]
        BY <1>1, <1>5, <2>6 DEF PostLeaves, PostLost, PostBounced, PostAnswered, ConcludeAll,
                               Conclude, WorkerState
      <3>2. posts'[w.job] = SentBy(w.attempt, w.wire) + 1
        BY <2>1, <2>3 DEF CountInv
      <3>3. TransportRetries \in Nat /\ AdapterAttempts \in Nat \ {0}
        BY ConstantsAssumption
      <3>4. CASE w.wire < AdapterAttempts /\ w' = [w EXCEPT !.wire = @ + 1]
        <4>1. w'.job = w.job /\ w'.attempt = w.attempt /\ w'.wire = w.wire + 1
          BY <1>1, <3>4 DEF WorkerState
        <4>2. SentBy(w.attempt, w.wire + 1) = SentBy(w.attempt, w.wire) + 1
          BY <2>2, PostsInARow
        <4> QED
          BY <2>2, <3>2, <3>3, <3>4, <4>1, <4>2
      <3>5. CASE /\ w.wire >= AdapterAttempts /\ w.attempt <= TransportRetries
                 /\ w' = [w EXCEPT !.attempt = @ + 1, !.wire = 1]
        <4>1. w'.job = w.job /\ w'.attempt = w.attempt + 1 /\ w'.wire = 1
          BY <1>1, <3>5 DEF WorkerState
        <4>2. w.wire = AdapterAttempts
          BY <2>2, <3>3, <3>5
        <4>3. SentBy(w.attempt + 1, 1) = SentBy(w.attempt, AdapterAttempts) + 1
          BY <2>2, PostsInARow
        <4> QED
          BY <2>2, <3>2, <3>3, <3>5, <4>1, <4>2, <4>3
      <3> QED
        BY <3>1, <3>4, <3>5
    <2> QED
      BY <1>2, <2>5, <2>6 DEF CountInv
  <1>6. CASE ~ PostLeaves
    <2>1. posts' = posts
      BY <1>6 DEF Counts
    <2>2. \A j \in Jobs : ~started'[j] \/ j \notin posted' => posts'[j] = 0
      BY <1>2, <1>3, <2>1 DEF CountInv
    <2>3. ASSUME w'.pc = "post"
          PROVE  /\ w'.attempt \in 1..(TransportRetries + 1) /\ w'.wire \in 1..AdapterAttempts
                 /\ posts'[w'.job] = SentBy(w'.attempt, w'.wire)
      <3>1. CASE w' = w
        BY <2>1, <2>3, <3>1 DEF CountInv
      <3>2. CASE w.pc = "before_post" /\ w'.job = w.job /\ w'.attempt = 1 /\ w'.wire = 1
        <4>1. w.job \in Jobs /\ w.job \notin posted
          BY <1>1, <3>2 DEF IInv, WorkerOK, BeforePost
        <4>2. 1 \in 1..(TransportRetries + 1) /\ 1 \in 1..AdapterAttempts
          BY ConstantsAssumption
        <4>3. SentBy(1, 1) = 0
          BY <4>2, PostsInARow
        <4> QED
          BY <2>1, <3>2, <4>1, <4>2, <4>3 DEF CountInv
      <3> QED
        BY <1>6, <2>3, <3>1, <3>2, ComesToPost
    <2> QED
      BY <1>2, <2>1, <2>2, <2>3 DEF CountInv
  <1> QED
    BY <1>5, <1>6

\* However often tickets are duplicated or lost, the worker dies, a login
\* supersedes or an answer does not come: a job is claimed at most once, and of
\* the two layers of retries together at most their product leaves as POSTs.
THEOREM PostsBounded == CountedSpec => []ExecutedOnce
  <1>1. Init /\ claims = [j \in Jobs |-> 0] /\ posts = [j \in Jobs |-> 0] => CountInv
    <2>1. MostPosts \in Nat
      <3>1. 1 \in 1..(TransportRetries + 1) /\ 1 \in 1..AdapterAttempts
        BY ConstantsAssumption
      <3> QED
        BY <3>1, PostsInARow
    <2> QED
      BY <2>1, RestingType DEF Init, CountInv
  <1>2. IInv /\ IInv' /\ CountInv /\ [Next]_vars /\ [Counts]_<<vars, claims, posts>> => CountInv'
    <2>1. CASE Counts
      BY <2>1, CountStep
    <2>2. CASE UNCHANGED <<vars, claims, posts>>
      BY <2>2 DEF vars, ledger, web, school, CountInv
    <2> QED
      BY <2>1, <2>2
  <1>3. CountInv => ExecutedOnce
    <2> SUFFICES ASSUME CountInv, NEW j \in Jobs
                 PROVE  claims[j] <= 1 /\ posts[j] <= claims[j] * MostPosts
      BY DEF ExecutedOnce
    <2>1. MostPosts \in Nat
      <3>1. 1 \in 1..(TransportRetries + 1) /\ 1 \in 1..AdapterAttempts
        BY ConstantsAssumption
      <3> QED
        BY <3>1, PostsInARow
    <2>2. CASE started[j]
      BY <2>1, <2>2 DEF CountInv
    <2>3. CASE ~started[j]
      BY <2>1, <2>3 DEF CountInv
    <2> QED
      BY <2>2, <2>3
  <1> QED
    BY <1>1, <1>2, <1>3, InvariantHolds, PTL DEF CountedSpec, Spec

-----------------------------------------------------------------------------
(* A student watching the engine.  JobViews has the ledger move by the      *)
(* actions of WriteLedger; here its ledger is the engine's own, its rows    *)
(* are write_audit, and created_at, the archive and the view are added.     *)

CONSTANTS
  OrderOf,    \* payload -> its operations, in the order of write_jobs.ops
  Limit,      \* of a list of jobs
  LastMoment  \* bound: created_at of the last job

VARIABLES
  created,    \* write_jobs.created_at
  filed,      \* the jobs whose rows in write_audit the archive took
  viewer      \* the request under way, as in JobViews

\* The rows left in write_audit: operation -> outcome.  The engine updates rows by
\* their ids, so those the archive took stay away whatever it records.
AuditRows ==
  [j \in Jobs |-> [o \in {p \in Ops : j \notin filed /\ audit[j][p] # "none"} |-> audit[j][o]]]

Shown == INSTANCE JobViews_proofs WITH
           OwnerOf <- BatchOwner, OpsOf <- OrderOf,
           Verdicts <- Outcomes \ {"pending"},
           begun <- {j \in Jobs : started[j]},
           audited <- {j \in Jobs : audit[j] # NoAudit},
           sent <- posted,
           rows <- AuditRows

\* The kinds of the values that JobViews adds: ids are numbers, and the order of
\* the operations lists those of the batch.
ViewsFit ==
  /\ Jobs \subseteq Nat /\ Limit \in Nat \ {0} /\ LastMoment \in Nat
  /\ DOMAIN OrderOf = Payloads
  /\ \A p \in Payloads : ToSet(OrderOf[p]) = OpsOf[p]

Inserted == {j \in Jobs : status[j] = "absent" /\ status'[j] # "absent"}

\* created_at of a row that is inserted, as in AcceptJob of JobViews.
Stamps ==
  \/ Inserted = {} /\ UNCHANGED created
  \/ \E j \in Jobs, t \in 0..LastMoment :
       /\ Inserted = {j}
       /\ \A k \in Jobs : status[k] # "absent" => created[k] <= t
       /\ created' = [created EXCEPT ![j] = t]

Watches ==
  (\E s \in Students : Shown!AskJobs(s)) \/ Shown!LoadJobs \/ Shown!LoadAudits \/ Shown!CloseView

\* The lifecycle script, as in ArchiveRows of JobViews: at any time once the job is over.
Archives ==
  \E j \in Jobs : status[j] \in Terminal /\ audit[j] # NoAudit /\ filed' = filed \cup {j}

WatchedInit ==
  Init /\ created = [j \in Jobs |-> 0] /\ filed = {} /\ viewer = Shown!NoView

\* The engine and the archive go on while the view is read.
WatchedNext ==
  \/ Next /\ Stamps /\ UNCHANGED <<filed, viewer>>
  \/ Archives /\ UNCHANGED <<vars, created, viewer>>
  \/ UNCHANGED <<vars, filed>> /\ Watches

watchedVars == <<vars, created, filed, viewer>>
WatchedSpec == WatchedInit /\ [][WatchedNext]_watchedVars

\* Rows that were never inserted are not in any file.
FiledWereThere == filed \subseteq {j \in Jobs : audit[j] # NoAudit}

\* The actions of the ledger are the same, seen from the engine and from the views.
LEMMA SameLedger ==
  /\ \A j, p : Ledger!Accept(j, p) <=> Shown!Ledger!Accept(j, p)
  /\ \A j : /\ Ledger!Begin(j) <=> Shown!Ledger!Begin(j)
            /\ Ledger!Audit(j) <=> Shown!Ledger!Audit(j)
            /\ Ledger!Send(j) <=> Shown!Ledger!Send(j)
            /\ Ledger!Complete(j) <=> Shown!Ledger!Complete(j)
            /\ Ledger!Fail(j) <=> Shown!Ledger!Fail(j)
  /\ \A S, s : Ledger!Withdraw(S, s) <=> Shown!Ledger!Withdraw(S, s)
  <1>1. \A j, p : Ledger!Accept(j, p) <=> Shown!Ledger!Accept(j, p)
    BY DEF Ledger!Accept, Shown!Ledger!Accept, Ledger!Active, Shown!Ledger!Active
  <1>2. \A j : /\ Ledger!Begin(j) <=> Shown!Ledger!Begin(j)
               /\ Ledger!Audit(j) <=> Shown!Ledger!Audit(j)
               /\ Ledger!Send(j) <=> Shown!Ledger!Send(j)
    BY DEF Ledger!Begin, Shown!Ledger!Begin, Ledger!Audit, Shown!Ledger!Audit,
           Ledger!Send, Shown!Ledger!Send
  <1>3. \A j : /\ Ledger!Complete(j) <=> Shown!Ledger!Complete(j)
               /\ Ledger!Fail(j) <=> Shown!Ledger!Fail(j)
    BY DEF Ledger!Complete, Shown!Ledger!Complete, Ledger!Fail, Shown!Ledger!Fail
  <1>4. \A S, s : Ledger!Withdraw(S, s) <=> Shown!Ledger!Withdraw(S, s)
    BY DEF Ledger!Withdraw, Shown!Ledger!Withdraw, Ledger!Active, Shown!Ledger!Active
  <1> QED
    BY <1>1, <1>2, <1>3, <1>4

\* Only the row of an accepted job is stamped, as in AcceptJob.
LEMMA AcceptInserts ==
  ASSUME IInv, Stamps, NEW j \in Jobs, NEW p \in Payloads, Ledger!Accept(j, p),
         UNCHANGED <<viewer, audit, filed>>
  PROVE  Shown!AcceptJob(j, p)
  <1>1. status[j] = "absent" /\ status' = [status EXCEPT ![j] = "queued"]
    BY DEF Ledger!Accept
  <1>2. Inserted = {j}
    BY <1>1 DEF Inserted, IInv, TypeOK
  <1>3. \E t \in 0..LastMoment :
          /\ \A k \in Jobs : status[k] # "absent" => created[k] <= t
          /\ created' = [created EXCEPT ![j] = t]
    BY <1>2 DEF Stamps
  <1>4. UNCHANGED AuditRows
    BY DEF AuditRows
  <1>5. Shown!Ledger!Accept(j, p)
    BY SameLedger
  <1> QED
    BY <1>3, <1>4, <1>5 DEF Shown!AcceptJob

LEMMA NothingInserted ==
  ASSUME Stamps, \A k \in Jobs : status[k] = "absent" => status'[k] = "absent"
  PROVE  UNCHANGED created
  <1>1. Inserted = {}
    BY DEF Inserted
  <1> QED
    BY <1>1 DEF Stamps

\* The rows that the three writing actions leave.
LEMMA RowsOfJob ==
  ASSUME IInv, ViewsFit, NEW j \in Jobs
  PROVE  /\ Shown!Batch(j) = OpsOf[payload[j]] /\ OpsOf[payload[j]] \subseteq Ops
         /\ OpsOf[payload[j]] # {}
         /\ audit[j] = NoAudit \/ j \in filed => DOMAIN AuditRows[j] = {}
         /\ \A outcome : outcome # "none" /\ audit[j] = Same(j, outcome) /\ j \notin filed =>
              /\ DOMAIN AuditRows[j] = OpsOf[payload[j]]
              /\ \A o \in OpsOf[payload[j]] : AuditRows[j][o] = outcome
  <1>1. payload[j] \in Payloads
    BY DEF IInv, TypeOK
  <1>2. Shown!Batch(j) = OpsOf[payload[j]]
    BY <1>1 DEF ViewsFit, Shown!Batch, Shown!ToSet, ToSet
  <1>3. OpsOf[payload[j]] \subseteq Ops /\ OpsOf[payload[j]] # {}
    BY <1>1, ConstantsAssumption
  <1>4. AuditRows[j] =
          [o \in {p \in Ops : j \notin filed /\ audit[j][p] # "none"} |-> audit[j][o]]
    BY DEF AuditRows
  <1>5. audit[j] = NoAudit \/ j \in filed => DOMAIN AuditRows[j] = {}
    BY <1>4 DEF NoAudit
  <1>6. ASSUME NEW outcome, outcome # "none", audit[j] = Same(j, outcome), j \notin filed
        PROVE  /\ DOMAIN AuditRows[j] = OpsOf[payload[j]]
               /\ \A o \in OpsOf[payload[j]] : AuditRows[j][o] = outcome
    <2>1. \A o \in Ops : audit[j][o] = IF o \in OpsOf[payload[j]] THEN outcome ELSE "none"
      BY <1>6 DEF Same
    <2>2. {p \in Ops : audit[j][p] # "none"} = OpsOf[payload[j]]
      BY <1>3, <1>6, <2>1
    <2> QED
      BY <1>3, <1>4, <1>6, <2>1, <2>2
  <1> QED
    BY <1>2, <1>3, <1>5, <1>6

\* InsertPendingAudits is InsertPending of the views.
LEMMA InsertsPending ==
  ASSUME IInv, ViewsFit, FiledWereThere, InsertPendingAudits, Ledger!Audit(w.job),
         w.job \in Jobs, audit' = [audit EXCEPT ![w.job] = Same(w.job, "pending")],
         UNCHANGED <<created, filed, viewer>>
  PROVE  \E j \in Jobs : Shown!InsertPending(j)
  <1>1. audit[w.job] = NoAudit /\ status[w.job] \in {"running", "session_superseded"}
    BY OwnJob DEF InsertPendingAudits, Executing, Unaudited
  <1>2. audit \in [Jobs -> [Ops -> Outcomes \cup {"none"}]]
    BY DEF IInv, TypeOK
  <1>3. Shown!Batch(w.job) = OpsOf[payload[w.job]] /\ OpsOf[payload[w.job]] \subseteq Ops
    BY RowsOfJob
  <1>4. AuditRows' = [AuditRows EXCEPT ![w.job] = [o \in Shown!Batch(w.job) |-> "pending"]]
    <2>1. {p \in Ops : Same(w.job, "pending")[p] # "none"} = OpsOf[payload[w.job]]
      BY <1>3 DEF Same
    <2>2. \A o \in OpsOf[payload[w.job]] : Same(w.job, "pending")[o] = "pending"
      BY <1>3 DEF Same
    <2>3. \A k \in Jobs : audit'[k] = IF k = w.job THEN Same(w.job, "pending") ELSE audit[k]
      BY <1>2
    <2>6. w.job \notin filed
      BY <1>1 DEF FiledWereThere
    <2> HIDE DEF Same
    <2>4. \A k \in Jobs : AuditRows'[k] = IF k = w.job THEN [o \in OpsOf[payload[w.job]] |-> "pending"]
                                                       ELSE AuditRows[k]
      BY <2>1, <2>2, <2>3, <2>6 DEF AuditRows
    <2>5. /\ AuditRows = [k \in Jobs |-> AuditRows[k]]
          /\ AuditRows' = [k \in Jobs |-> AuditRows'[k]]
      BY DEF AuditRows
    <2> HIDE DEF AuditRows
    <2> QED
      BY <1>3, <2>4, <2>5
  <1>5. PICK j \in Jobs : j = w.job
    OBVIOUS
  <1>6. Shown!Ledger!Audit(j)
    BY <1>5, SameLedger DEF Ledger!Audit, Shown!Ledger!Audit
  <1>7. Shown!InsertPending(j)
    BY <1>1, <1>4, <1>5, <1>6 DEF Shown!InsertPending
  <1> QED
    BY <1>7

\* What is about to be recorded is an outcome for every operation of the batch.
LEMMA OutcomesAreWhole ==
  ASSUME IInv, w.pc = "finalize"
  PROVE  \A o \in Ops : w.out[o] \in IF o \in OpsOf[payload[w.job]] THEN Outcomes \ {"pending"}
                                                                    ELSE {"none"}
  <1>1. OutcomeOK /\ w.final \in {"done", "failed"}
    BY DEF IInv, WorkerOK, TypeOK, WorkerTyped
  <1>2. CASE w.final = "done"
    BY <1>1, <1>2 DEF OutcomeOK, Verdicts, Outcomes
  <1>3. CASE w.final = "failed"
    BY <1>1, <1>3 DEF OutcomeOK, Abandoned, Outcomes, Same
  <1> QED
    BY <1>1, <1>2, <1>3

\* AuditDown is Finalize of a job that has no rows.
LEMMA FailsWithoutRows ==
  ASSUME IInv, ViewsFit, AuditDown, Ledger!Fail(w.job), w.job \in Jobs,
         UNCHANGED <<created, filed, viewer>>
  PROVE  Shown!Finalize(w.job)
  <1>1. audit[w.job] = NoAudit /\ UNCHANGED audit
    BY OwnJob DEF AuditDown, Executing, Unaudited
  <1>2. DOMAIN AuditRows[w.job] = {} /\ AuditRows' = AuditRows
    BY <1>1, RowsOfJob DEF AuditRows
  <1>3. AuditRows = [k \in Jobs |-> AuditRows[k]]
    BY DEF AuditRows
  <1>4. AuditRows[w.job] = [o \in DOMAIN AuditRows[w.job] |-> AuditRows[w.job][o]]
    BY DEF AuditRows
  <1> HIDE DEF AuditRows
  <1>5. AuditRows[w.job] \in [DOMAIN AuditRows[w.job] -> Outcomes \ {"pending"}]
    BY <1>2, <1>4
  <1>6. AuditRows' = [AuditRows EXCEPT ![w.job] = AuditRows[w.job]]
    BY <1>2, <1>3
  <1>7. Shown!Settle(w.job)
    BY <1>5, <1>6 DEF Shown!Settle
  <1>8. Shown!Ledger!Fail(w.job)
    BY SameLedger DEF Ledger!Fail, Shown!Ledger!Fail
  <1> QED
    BY <1>7, <1>8 DEF Shown!Finalize

\* Finalize settles the rows of the job, all that are left of them and nothing else.
LEMMA FinalizeSettles ==
  ASSUME IInv, ViewsFit, Finalize, UNCHANGED filed
  PROVE  /\ w.job \in Jobs /\ Shown!Settle(w.job)
         /\ IF w.job \in filed
              THEN UNCHANGED AuditRows
              ELSE \E o \in DOMAIN AuditRows[w.job] : AuditRows[w.job][o] = "pending"
  <1>1. w.job \in Jobs /\ audit[w.job] = Same(w.job, "pending")
    BY OwnJob DEF Finalize, Executing, Unaudited
  <1>2. audit \in [Jobs -> [Ops -> Outcomes \cup {"none"}]]
    BY DEF IInv, TypeOK
  <1>3. /\ OpsOf[payload[w.job]] \subseteq Ops /\ OpsOf[payload[w.job]] # {}
        /\ w.job \in filed => DOMAIN AuditRows[w.job] = {}
        /\ w.job \notin filed => /\ DOMAIN AuditRows[w.job] = OpsOf[payload[w.job]]
                                 /\ \A o \in OpsOf[payload[w.job]] : AuditRows[w.job][o] = "pending"
    BY <1>1, RowsOfJob
  <1>4. \A o \in Ops : w.out[o] \in IF o \in OpsOf[payload[w.job]] THEN Outcomes \ {"pending"}
                                                                   ELSE {"none"}
    BY OutcomesAreWhole DEF Finalize
  <1>5. \A k \in Jobs : audit'[k] = IF k = w.job THEN w.out ELSE audit[k]
    BY <1>1, <1>2 DEF Finalize
  <1>6. /\ AuditRows = [k \in Jobs |-> AuditRows[k]]
        /\ AuditRows' = [k \in Jobs |-> AuditRows'[k]]
    BY DEF AuditRows
  <1>7. CASE w.job \in filed
    <2>1. \A k \in Jobs : AuditRows'[k] = AuditRows[k]
      BY <1>5, <1>7 DEF AuditRows
    <2>2. AuditRows[w.job] = [o \in DOMAIN AuditRows[w.job] |-> AuditRows[w.job][o]]
      BY <1>1 DEF AuditRows
    <2> HIDE DEF AuditRows
    <2>3. AuditRows' = AuditRows
      BY <1>6, <2>1
    <2>4. AuditRows[w.job] \in [DOMAIN AuditRows[w.job] -> Outcomes \ {"pending"}]
      BY <1>3, <1>7, <2>2
    <2>5. AuditRows' = [AuditRows EXCEPT ![w.job] = AuditRows[w.job]]
      BY <1>6, <2>3
    <2> QED
      BY <1>1, <1>7, <2>3, <2>4, <2>5 DEF Shown!Settle
  <1>8. CASE w.job \notin filed
    <2> DEFINE out == [o \in OpsOf[payload[w.job]] |-> w.out[o]]
    <2>1. out \in [DOMAIN AuditRows[w.job] -> Outcomes \ {"pending"}]
      BY <1>3, <1>4, <1>8
    <2>2. {p \in Ops : w.out[p] # "none"} = OpsOf[payload[w.job]]
      BY <1>3, <1>4 DEF Outcomes
    <2>3. \A k \in Jobs : AuditRows'[k] = IF k = w.job THEN out ELSE AuditRows[k]
      BY <1>5, <1>8, <2>2 DEF AuditRows
    <2>4. \E o \in DOMAIN AuditRows[w.job] : AuditRows[w.job][o] = "pending"
      BY <1>3, <1>8
    <2> HIDE DEF AuditRows, out
    <2>5. AuditRows' = [AuditRows EXCEPT ![w.job] = out]
      BY <1>6, <2>3
    <2> QED
      BY <1>1, <1>8, <2>1, <2>4, <2>5 DEF Shown!Settle
  <1> QED
    BY <1>7, <1>8

\* Rows once inserted are never without an outcome again.
LEMMA FiledStay ==
  ASSUME IInv, FiledWereThere, [Next]_vars, UNCHANGED filed
  PROVE  FiledWereThere'
  <1>1. LedgerMoves
    BY LedgerSteps
  <1>2. audit \in [Jobs -> [Ops -> Outcomes \cup {"none"}]]
    BY DEF IInv, TypeOK
  <1>3. CASE UNCHANGED audit
    BY <1>3 DEF FiledWereThere
  <1>4. ASSUME w.job \in Jobs
        PROVE  OpsOf[payload[w.job]] \subseteq Ops /\ OpsOf[payload[w.job]] # {}
    BY <1>4, ConstantsAssumption DEF IInv, TypeOK
  <1>5. CASE w.job \in Jobs /\ audit' = [audit EXCEPT ![w.job] = Same(w.job, "pending")]
    <2>1. Same(w.job, "pending") # NoAudit
      BY <1>4, <1>5 DEF Same, NoAudit
    <2> QED
      BY <1>2, <1>5, <2>1 DEF FiledWereThere
  <1>6. CASE Finalize
    <2>1. w.job \in Jobs
      BY <1>6, OwnJob DEF Finalize, Executing
    <2>2. PICK o \in Ops : w.out[o] # "none"
      BY <1>4, <1>6, <2>1, OutcomesAreWhole DEF Finalize, Outcomes
    <2>3. w.out # NoAudit
      BY <2>2 DEF NoAudit
    <2> QED
      BY <1>2, <1>6, <2>1, <2>3 DEF Finalize, FiledWereThere
  <1> QED
    BY <1>1, <1>3, <1>5, <1>6 DEF LedgerMoves, AuditDown

\* Every step of the engine is one of the writers of JobViews, or nothing to them.
LEMMA EngineWrites ==
  ASSUME IInv, ViewsFit, FiledWereThere, [Next]_vars, Stamps, UNCHANGED <<filed, viewer>>
  PROVE  Shown!WriteSide \/ UNCHANGED Shown!viewsVars
  <1>0. status \in [Jobs -> Active \cup Terminal \cup {"absent"}]
    BY DEF IInv, TypeOK
  <1>1. LedgerMoves
    BY LedgerSteps
  <1>2. ASSUME UNCHANGED Ledger!vars
        PROVE  UNCHANGED Shown!ledgerVars /\ UNCHANGED created
    BY <1>2, NothingInserted DEF Ledger!vars, Shown!ledgerVars
  <1>3. CASE /\ UNCHANGED audit
             /\ \/ UNCHANGED Ledger!vars
                \/ \E j \in Jobs, p \in Payloads : Ledger!Accept(j, p)
                \/ \E j \in Jobs : Ledger!Begin(j) \/ Ledger!Send(j)
                \/ \E S \in SUBSET Jobs, s \in {"cancelled", "session_superseded"} :
                     Ledger!Withdraw(S, s)
    <2>1. UNCHANGED AuditRows
      BY <1>3 DEF AuditRows
    <2>2. CASE UNCHANGED Ledger!vars
      BY <1>2, <2>1, <2>2 DEF Shown!viewsVars
    <2>3. ASSUME NEW j \in Jobs, NEW p \in Payloads, Ledger!Accept(j, p)
          PROVE  Shown!WriteSide
      BY <1>3, <2>3, AcceptInserts DEF Shown!WriteSide
    <2>4. ASSUME NEW j \in Jobs, Ledger!Begin(j) \/ Ledger!Send(j)
          PROVE  Shown!WriteSide
      <3>1. UNCHANGED created
        BY <1>0, <2>4, NothingInserted DEF Ledger!Begin, Ledger!Send
      <3>2. Shown!Ledger!Begin(j) \/ Shown!Ledger!Send(j)
        BY <2>4, SameLedger
      <3> QED
        BY <2>1, <3>1, <3>2 DEF Shown!WriteSide
    <2>5. ASSUME NEW S \in SUBSET Jobs, NEW s \in {"cancelled", "session_superseded"},
                 Ledger!Withdraw(S, s)
          PROVE  Shown!WriteSide
      <3>1. UNCHANGED created
        BY <1>0, <2>5, NothingInserted DEF Ledger!Withdraw, Ledger!Active
      <3>2. Shown!Ledger!Withdraw(S, s)
        BY <2>5, SameLedger
      <3> QED
        BY <2>1, <3>1, <3>2 DEF Shown!WriteSide
    <2> QED
      BY <1>3, <2>2, <2>3, <2>4, <2>5
  <1>4. CASE w.job \in Jobs /\ AuditDown /\ Ledger!Fail(w.job)
    <2>1. UNCHANGED created
      BY <1>0, <1>4, NothingInserted DEF Ledger!Fail
    <2>2. Shown!Finalize(w.job)
      BY <1>4, <2>1, FailsWithoutRows
    <2> QED
      BY <1>4, <2>2 DEF Shown!WriteSide
  <1>5. CASE /\ w.job \in Jobs /\ InsertPendingAudits /\ Ledger!Audit(w.job)
             /\ audit' = [audit EXCEPT ![w.job] = Same(w.job, "pending")]
    <2>1. UNCHANGED created
      BY <1>5, NothingInserted DEF Ledger!Audit
    <2>2. \E j \in Jobs : Shown!InsertPending(j)
      BY <1>5, <2>1, InsertsPending
    <2> QED
      BY <1>5, <2>2 DEF Shown!WriteSide
  <1>6. CASE Finalize /\ (Ledger!Complete(w.job) \/ Ledger!Fail(w.job))
    <2>1. w.job \in Jobs /\ Shown!Settle(w.job)
      BY <1>6, FinalizeSettles
    <2>2. UNCHANGED created
      BY <1>0, <1>6, <2>1, NothingInserted DEF Ledger!Complete, Ledger!Fail
    <2>3. Shown!Ledger!Complete(w.job) \/ Shown!Ledger!Fail(w.job)
      BY <1>6, SameLedger DEF Ledger!Complete, Shown!Ledger!Complete, Ledger!Fail, Shown!Ledger!Fail
    <2>4. Shown!Finalize(w.job)
      BY <2>1, <2>2, <2>3 DEF Shown!Finalize
    <2> QED
      BY <2>1, <2>4 DEF Shown!WriteSide
  <1>7. CASE Finalize /\ status[w.job] = "session_superseded" /\ UNCHANGED Ledger!vars
    <2>1. /\ w.job \in Jobs /\ Shown!Settle(w.job)
          /\ IF w.job \in filed
               THEN UNCHANGED AuditRows
               ELSE \E o \in DOMAIN AuditRows[w.job] : AuditRows[w.job][o] = "pending"
      BY <1>7, FinalizeSettles
    <2>2. UNCHANGED Shown!ledgerVars /\ UNCHANGED created
      BY <1>2, <1>7
    <2>3. CASE w.job \in filed
      BY <2>1, <2>2, <2>3 DEF Shown!viewsVars
    <2>4. CASE w.job \notin filed
      <3>1. Shown!Finalize(w.job)
        BY <1>7, <2>1, <2>2, <2>4 DEF Shown!Finalize
      <3> QED
        BY <2>1, <3>1 DEF Shown!WriteSide
    <2> QED
      BY <2>3, <2>4
  <1> QED
    BY <1>1, <1>3, <1>4, <1>5, <1>6, <1>7 DEF LedgerMoves

\* The archive takes the rows of a job that is over.
LEMMA ArchiveWrites ==
  ASSUME IInv, Archives, UNCHANGED <<vars, created, viewer>>
  PROVE  Shown!WriteSide
  <1>1. PICK j \in Jobs : status[j] \in Terminal /\ filed' = filed \cup {j}
    BY DEF Archives
  <1>2. UNCHANGED <<status, payload, started, posted, audit>>
    BY DEF vars, ledger, school
  <1>3. \A k \in Jobs : AuditRows'[k] = IF k = j THEN Shown!NoRows ELSE AuditRows[k]
    <2>1. {p \in Ops : FALSE} = {}
      OBVIOUS
    <2> QED
      BY <1>1, <1>2, <2>1 DEF AuditRows, Shown!NoRows
  <1>4. /\ AuditRows = [k \in Jobs |-> AuditRows[k]]
        /\ AuditRows' = [k \in Jobs |-> AuditRows'[k]]
    BY DEF AuditRows
  <1> HIDE DEF AuditRows
  <1>5. AuditRows' = [AuditRows EXCEPT ![j] = Shown!NoRows]
    BY <1>3, <1>4
  <1>6. UNCHANGED Shown!ledgerVars
    BY <1>2 DEF Shown!ledgerVars
  <1>7. Shown!ArchiveRows(j)
    BY <1>1, <1>5, <1>6 DEF Shown!ArchiveRows, Shown!Ledger!Terminal, Terminal
  <1> QED
    BY <1>7 DEF Shown!WriteSide

\* The engine with a student watching it and an archive behind it behaves as JobViews
\* says: none of its steps is one that JobViews leaves out, with its rows or with the
\* ledger.
THEOREM EngineFeedsViews == ViewsFit => (WatchedSpec => Shown!ViewsSpec)
  <1> SUFFICES ASSUME ViewsFit PROVE WatchedSpec => Shown!ViewsSpec
    OBVIOUS
  <1>1. WatchedInit => Init /\ FiledWereThere /\ Shown!ViewsInit
    <2> SUFFICES ASSUME WatchedInit PROVE FiledWereThere /\ Shown!ViewsInit
      BY DEF WatchedInit
    <2>1. Shown!Ledger!Init
      BY ConstantsAssumption DEF WatchedInit, Init, Shown!Ledger!Init
    <2>2. AuditRows = [j \in Jobs |-> Shown!NoRows]
      BY DEF WatchedInit, Init, AuditRows, Shown!NoRows, NoAudit
    <2> QED
      BY <2>1, <2>2 DEF WatchedInit, FiledWereThere, Shown!ViewsInit
  <1>2. [WatchedNext]_watchedVars => [Next]_vars
    BY DEF WatchedNext, watchedVars
  <1>3. IInv /\ FiledWereThere /\ [WatchedNext]_watchedVars
          => FiledWereThere' /\ [Shown!ViewsNext]_(Shown!viewsVars)
    <2> SUFFICES ASSUME IInv, FiledWereThere, [WatchedNext]_watchedVars
                 PROVE  FiledWereThere' /\ (Shown!ViewsNext \/ UNCHANGED Shown!viewsVars)
      OBVIOUS
    <2>1. CASE Next /\ Stamps /\ UNCHANGED <<filed, viewer>>
      BY <2>1, EngineWrites, FiledStay DEF Shown!ViewsNext
    <2>2. CASE Archives /\ UNCHANGED <<vars, created, viewer>>
      <3>1. FiledWereThere'
        BY <2>2 DEF Archives, FiledWereThere, vars, ledger
      <3> QED
        BY <2>2, <3>1, ArchiveWrites DEF Shown!ViewsNext
    <2>3. CASE UNCHANGED <<vars, filed>> /\ Watches
      <3>1. FiledWereThere'
        BY <2>3 DEF FiledWereThere, vars, ledger
      <3> QED
        BY <2>3, <3>1 DEF Watches, Shown!ViewsNext
    <2>4. CASE UNCHANGED watchedVars
      <3>1. UNCHANGED Shown!viewsVars
        BY <2>4 DEF watchedVars, vars, ledger, school, Shown!viewsVars, Shown!ledgerVars, AuditRows
      <3>2. FiledWereThere'
        BY <2>4 DEF watchedVars, FiledWereThere, vars, ledger
      <3> QED
        BY <3>1, <3>2
    <2> QED
      BY <2>1, <2>2, <2>3, <2>4 DEF WatchedNext
  <1>4. IInv /\ [Next]_vars => IInv'
    BY NextSafe
  <1>5. Init => IInv
    BY InitSafe
  <1> QED
    BY <1>1, <1>2, <1>3, <1>4, <1>5, PTL DEF WatchedSpec, Shown!ViewsSpec

\* Hence ViewIsConsistent holds of what a student is shown by the engine itself, with
\* its crashes, retries, superseding logins and sweeps, or the archive, between the two
\* statements: no done or failed job with operations pending, no cancelled one with a
\* verdict, none half settled.
THEOREM EngineShowsWhole == ViewsFit => (WatchedSpec => []Shown!ViewIsConsistent)
  <1> SUFFICES ASSUME ViewsFit PROVE WatchedSpec => []Shown!ViewIsConsistent
    OBVIOUS
  <1>1. Shown!ViewsAssumption
    BY ConstantsAssumption DEF ViewsFit, Shown!ViewsAssumption, Outcomes
  <1>2. Shown!ViewsSpec => []Shown!ViewIsConsistent
    BY <1>1, Shown!ViewsHangTogether
  <1> QED
    BY <1>2, EngineFeedsViews, PTL

=============================================================================
