----------------------------- MODULE WriteEngine -----------------------------
(***************************************************************************)
(* The course-selection write path: the submit handler of the web API, the *)
(* write_jobs / write_audit ledger in Postgres, the ticket list in Redis,  *)
(* the single worker that executes one ticket at a time against the        *)
(* school, and the two things that end a job behind the worker's back (a   *)
(* new login of the student, the dwell sweep).                             *)
(*                                                                         *)
(* One action stands for the code between two awaits that touch shared     *)
(* state, so that every interleaving of handlers, worker and logins the    *)
(* deployment can produce is a behaviour of the model.                     *)
(***************************************************************************)
EXTENDS Naturals, Sequences, SequencesExt

CONSTANTS
  Jobs,             \* ids of write_jobs rows
  Requests,         \* concurrent POST /api/write/submit handlers
  Sessions,         \* site sessions, each minted by one login
  Students,
  Payloads,         \* canonical batches, one per payload_hash
  Ops,              \* operations that occur in batches
  Adds,             \* the "+" operations among them; the others are "-"
  Codes,            \* course identifiers, of either vocabulary
  OwnerOf,          \* session -> student
  BatchOwner,       \* payload -> student (the hash covers student_no)
  OpsOf,            \* payload -> its operations
  NoOf,             \* operation -> course identifier the batch carries
  CodeOf,           \* operation -> course identifier slt_result lists
  TransportRetries, \* TRANSPORT_RETRIES of the engine
  AdapterAttempts,  \* MAX_ATTEMPTS of the school adapter
  NoJob

ASSUME ConstantsAssumption ==
  /\ Sessions # {} /\ Payloads # {}
  /\ Adds \subseteq Ops
  /\ OwnerOf \in [Sessions -> Students]
  /\ BatchOwner \in [Payloads -> Students]
  /\ OpsOf \in [Payloads -> (SUBSET Ops) \ {{}}]
  /\ NoOf \in [Ops -> Codes]
  /\ CodeOf \in [Ops -> Codes]
  /\ TransportRetries \in Nat
  /\ AdapterAttempts \in Nat \ {0}
  /\ NoJob \notin Jobs

VARIABLES
  status,   \* write_jobs.status; "absent" before the row exists
  payload,  \* write_jobs.payload_hash (any payload while absent)
  stale,    \* created_at is older than WRITE_QUEUE_DWELL_MAX
  started,  \* write_jobs.started_at is set
  audit,    \* write_audit.outcome per job and operation; "none" = no row
  queue,    \* the Redis list writeq:jobs, leftmost ticket first
  token,    \* confirm tokens that can still be consumed
  session,  \* site sessions: "new", "login", "open" or "closed"
  jar,      \* sessions whose selcrs jar load_selcrs would return
  req,      \* submit handlers in progress
  w,        \* the worker's local state inside execute_ticket
  applied,  \* what the school has applied, per job
  posted    \* jobs for which a POST left the worker

ledger == <<status, payload, stale, started>>
web    == <<token, session, jar, req>>
school == <<applied, posted>>
vars   == <<ledger, audit, queue, web, w, school>>

Active   == {"queued", "running"}
Terminal == {"done", "failed", "cancelled", "session_superseded"}

Outcomes == {"success", "failed", "transport_failed", "parse_failed",
             "stage_expired", "unknown_reconciled", "session_superseded",
             "pending"}

\* What the school's page says of one operation: done, refused, refused in
\* duplicate-like words, or nothing that can be attributed.
Answers == {"ok", "refused", "duplicate", "unclear"}

Ticket == [job : Jobs, session : Sessions]

NoAudit == [o \in Ops |-> "none"]

\* The same outcome for every operation of the job's batch.
Same(j, outcome) ==
  [o \in Ops |-> IF o \in OpsOf[payload[j]] THEN outcome ELSE "none"]

\* The worker between two tickets, blocked in BRPOP.
Resting == [pc |-> "pop", job |-> NoJob, session |-> CHOOSE s \in Sessions : TRUE,
            attempt |-> 0, wire |-> 0, reply |-> NoAudit,
            out |-> NoAudit, final |-> "none"]

IdleRequest == [pc |-> "idle", session |-> CHOOSE s \in Sessions : TRUE,
                payload |-> CHOOSE p \in Payloads : TRUE, job |-> NoJob]

Init ==
  /\ status  = [j \in Jobs |-> "absent"]
  /\ payload = [j \in Jobs |-> CHOOSE p \in Payloads : TRUE]
  /\ stale   = [j \in Jobs |-> FALSE]
  /\ started = [j \in Jobs |-> FALSE]
  /\ audit   = [j \in Jobs |-> NoAudit]
  /\ queue   = <<>>
  /\ token   = {}
  /\ session = [s \in Sessions |-> "new"]
  /\ jar     = {}
  /\ req     = [r \in Requests |-> IdleRequest]
  /\ w       = Resting
  /\ applied = [j \in Jobs |-> {}]
  /\ posted  = {}

-----------------------------------------------------------------------------
(* Sessions.  A login first supersedes the student's active jobs in one     *)
(* transaction and only then creates the session and parks the jar.        *)

LoginSupersede(s) ==
  /\ session[s] = "new"
  /\ session' = [session EXCEPT ![s] = "login"]
  /\ status' = [j \in Jobs |->
        IF status[j] \in Active /\ BatchOwner[payload[j]] = OwnerOf[s]
          THEN "session_superseded" ELSE status[j]]
  /\ UNCHANGED <<payload, stale, started, audit, queue, token, jar, req, w, school>>

LoginOpen(s) ==
  /\ session[s] = "login"
  /\ session' = [session EXCEPT ![s] = "open"]
  /\ jar' = jar \cup {s}
  /\ UNCHANGED <<ledger, audit, queue, token, req, w, school>>

Logout(s) ==
  /\ session[s] = "open"
  /\ session' = [session EXCEPT ![s] = "closed"]
  /\ jar' = jar \ {s}
  /\ UNCHANGED <<ledger, audit, queue, token, req, w, school>>

\* The sliding or the hard TTL of the jar lapses.
JarLapses(s) ==
  /\ s \in jar
  /\ jar' = jar \ {s}
  /\ UNCHANGED <<ledger, audit, queue, token, session, req, w, school>>

-----------------------------------------------------------------------------
(* Preview and submit.                                                      *)

\* An accepted preview of the batch mints its (deterministic) token.
Preview(s, p) ==
  /\ session[s] = "open" /\ s \in jar
  /\ BatchOwner[p] = OwnerOf[s]
  /\ p \notin token
  /\ token' = token \cup {p}
  /\ UNCHANGED <<ledger, audit, queue, session, jar, req, w, school>>

TokenLapses(p) ==
  /\ p \in token
  /\ token' = token \ {p}
  /\ UNCHANGED <<ledger, audit, queue, session, jar, req, w, school>>

\* Wrong variant of ConsumeConfirm: the record's owner is not compared.
ConsumeConfirmAnyOwner(r, s, p) ==
  /\ req[r].pc = "idle"
  /\ session[s] = "open"
  /\ p \in token
  /\ token' = token \ {p}
  /\ req' = [req EXCEPT ![r] = [pc |-> "reauth", session |-> s,
                                payload |-> p, job |-> NoJob]]
  /\ UNCHANGED <<ledger, audit, queue, session, jar, w, school>>

\* GETDEL of the token: spent even when it belongs to another student.
ConsumeConfirm(r, s, p) ==
  /\ req[r].pc = "idle"
  /\ session[s] = "open"
  /\ p \in token
  /\ token' = token \ {p}
  /\ req' = IF BatchOwner[p] = OwnerOf[s]
              THEN [req EXCEPT ![r] = [pc |-> "reauth", session |-> s,
                                       payload |-> p, job |-> NoJob]]
              ELSE req
  /\ UNCHANGED <<ledger, audit, queue, session, jar, w, school>>

\* Breaker closed, password verified by the school: the fresh jar is parked
\* under the request's session id, logged out meanwhile or not.
Reauth(r) ==
  /\ req[r].pc = "reauth"
  /\ jar' = jar \cup {req[r].session}
  /\ req' = [req EXCEPT ![r].pc = "lookup"]
  /\ UNCHANGED <<ledger, audit, queue, token, session, w, school>>

ActiveWith(p) == {j \in Jobs : status[j] \in Active /\ payload[j] = p}

\* Wrong variant of FindActiveJob: the ticket is pushed before the row commits.
FindActiveJobPushesEarly(r) ==
  /\ req[r].pc = "lookup"
  /\ ActiveWith(req[r].payload) = {}
  /\ \E j \in Jobs :
       /\ status[j] = "absent"
       /\ queue' = Append(queue, [job |-> j, session |-> req[r].session])
  /\ req' = [req EXCEPT ![r].pc = "insert"]
  /\ UNCHANGED <<ledger, audit, token, session, jar, w, school>>

\* find_active_job_by_hash: the fast-path duplicate check.
FindActiveJob(r) ==
  /\ req[r].pc = "lookup"
  /\ req' = IF ActiveWith(req[r].payload) = {}
              THEN [req EXCEPT ![r].pc = "insert"]
              ELSE [req EXCEPT ![r] = IdleRequest]
  /\ UNCHANGED <<ledger, audit, queue, token, session, jar, w, school>>

\* Wrong variants of CreateQueuedJob: no partial unique index behind the
\* lookup; the ticket built from a row whose id was not read back.
CreateQueuedJobNoIndex(r, j) ==
  /\ req[r].pc = "insert"
  /\ status[j] = "absent"
  /\ status'  = [status EXCEPT ![j] = "queued"]
  /\ payload' = [payload EXCEPT ![j] = req[r].payload]
  /\ req' = [req EXCEPT ![r].pc = "enqueue", ![r].job = j]
  /\ UNCHANGED <<stale, started, audit, queue, token, session, jar, w, school>>

CreateQueuedJobNoId(r, j) ==
  /\ req[r].pc = "insert"
  /\ status[j] = "absent"
  /\ ActiveWith(req[r].payload) = {}
  /\ status'  = [status EXCEPT ![j] = "queued"]
  /\ payload' = [payload EXCEPT ![j] = req[r].payload]
  /\ req' = [req EXCEPT ![r].pc = "enqueue"]
  /\ UNCHANGED <<stale, started, audit, queue, token, session, jar, w, school>>

\* The insert commits unless the partial unique index rejects it.
CreateQueuedJob(r, j) ==
  /\ req[r].pc = "insert"
  /\ status[j] = "absent"
  /\ ActiveWith(req[r].payload) = {}
  /\ status'  = [status EXCEPT ![j] = "queued"]
  /\ payload' = [payload EXCEPT ![j] = req[r].payload]
  /\ req' = [req EXCEPT ![r].pc = "enqueue", ![r].job = j]
  /\ UNCHANGED <<stale, started, audit, queue, token, session, jar, w, school>>

DuplicateActiveJob(r) ==
  /\ req[r].pc = "insert"
  /\ ActiveWith(req[r].payload) # {}
  /\ req' = [req EXCEPT ![r] = IdleRequest]
  /\ UNCHANGED <<ledger, audit, queue, token, session, jar, w, school>>

EnqueueTicket(r) ==
  /\ req[r].pc = "enqueue"
  /\ queue' = Append(queue, [job |-> req[r].job, session |-> req[r].session])
  /\ req' = [req EXCEPT ![r] = IdleRequest]
  /\ UNCHANGED <<ledger, audit, token, session, jar, w, school>>

\* The handler ends early: breaker open, SSO2 unknown or refused, Postgres or
\* Redis down, or the API process dies.  At "enqueue" this orphans the job.
RequestEnds(r) ==
  /\ req[r].pc # "idle"
  /\ req' = [req EXCEPT ![r] = IdleRequest]
  /\ UNCHANGED <<ledger, audit, queue, token, session, jar, w, school>>

-----------------------------------------------------------------------------
(* The worker.                                                              *)

\* Wrong variant of FinishJob: no guard on the status.
FinishJobUnguarded(j, s) == status' = [status EXCEPT ![j] = s]

\* finish_job: only an active row is given its terminal status.
FinishJob(j, s) == status' = [status EXCEPT ![j] = IF @ \in Active THEN s ELSE @]

Conclude(out, final) == w' = [w EXCEPT !.pc = "finalize", !.out = out, !.final = final]

ConcludeAll(outcome) == Conclude(Same(w.job, outcome), "failed")

\* RPUSH on one side and BRPOP on the other: the newest ticket comes first.
PopTicket ==
  /\ w.pc = "pop" /\ queue # <<>>
  /\ w' = [Resting EXCEPT !.pc = "claim", !.job = Last(queue).job,
                          !.session = Last(queue).session]
  /\ queue' = Front(queue)
  /\ UNCHANGED <<ledger, audit, web, school>>

ClaimJob ==
  /\ w.pc = "claim"
  /\ IF status[w.job] = "queued" /\ ~stale[w.job]
       THEN /\ status'  = [status EXCEPT ![w.job] = "running"]
            /\ started' = [started EXCEPT ![w.job] = TRUE]
            /\ w' = [w EXCEPT !.pc = "insert_audits"]
       ELSE /\ w' = [w EXCEPT !.pc = "unclaimed"]
            /\ UNCHANGED <<status, started>>
  /\ UNCHANGED <<payload, stale, audit, queue, web, school>>

\* Not claimed: read the status again and dwell-cancel a job still queued.
ReadUnclaimed ==
  /\ w.pc = "unclaimed"
  /\ w' = IF status[w.job] = "queued" THEN [w EXCEPT !.pc = "dwell_cancel"] ELSE Resting
  /\ UNCHANGED <<ledger, audit, queue, web, school>>

DwellCancel ==
  /\ w.pc = "dwell_cancel"
  /\ FinishJob(w.job, "cancelled")
  /\ w' = Resting
  /\ UNCHANGED <<payload, stale, started, audit, queue, web, school>>

\* Wrong variant of InsertPendingAudits: a failed insert is only logged.
InsertPendingAuditsFailOpen ==
  /\ w.pc = "insert_audits"
  /\ \/ audit' = [audit EXCEPT ![w.job] = Same(w.job, "pending")]
     \/ UNCHANGED audit
  /\ w' = [w EXCEPT !.pc = "load_jar"]
  /\ UNCHANGED <<ledger, queue, web, school>>

InsertPendingAudits ==
  /\ w.pc = "insert_audits"
  /\ \/ /\ audit' = [audit EXCEPT ![w.job] = Same(w.job, "pending")]
        /\ w' = [w EXCEPT !.pc = "load_jar"]
     \/ /\ w' = [w EXCEPT !.pc = "audit_down"]
        /\ UNCHANGED audit
  /\ UNCHANGED <<ledger, queue, web, school>>

AuditDown ==
  /\ w.pc = "audit_down"
  /\ FinishJob(w.job, "failed")
  /\ w' = Resting
  /\ UNCHANGED <<payload, stale, started, audit, queue, web, school>>

LoadJar ==
  /\ w.pc = "load_jar"
  /\ IF w.session \in jar
       THEN w' = [w EXCEPT !.pc = "before_form"]
       ELSE ConcludeAll("stage_expired")
  /\ UNCHANGED <<ledger, audit, queue, web, school>>

\* The two reads of the status around the form fetch.
CheckRunning(here, next) ==
  /\ w.pc = here
  /\ IF status[w.job] = "running"
       THEN w' = next
       ELSE ConcludeAll("session_superseded")
  /\ UNCHANGED <<ledger, audit, queue, web, school>>

CheckBeforeForm == CheckRunning("before_form", [w EXCEPT !.pc = "form"])

CheckBeforePost ==
  CheckRunning("before_post", [w EXCEPT !.pc = "post", !.attempt = 1, !.wire = 1])

\* The form arrives and a payload can be built from it; or the GET exhausts
\* its retries, bounces to the login page, or is not the form expected.
GetForm ==
  /\ w.pc = "form"
  /\ \/ w' = [w EXCEPT !.pc = "before_post"]
     \/ \E outcome \in {"transport_failed", "stage_expired", "parse_failed"} :
          ConcludeAll(outcome)
  /\ UNCHANGED <<ledger, audit, queue, web, school>>

\* The request that is on the wire reaches the school or not; the school
\* applies some of the operations it has not applied yet.
SchoolApplies(now) ==
  /\ now \subseteq OpsOf[payload[w.job]] \ applied[w.job]
  /\ applied' = [applied EXCEPT ![w.job] = @ \cup now]
  /\ posted' = posted \cup {w.job}

\* No response.  The adapter resends the request by itself up to
\* AdapterAttempts times; then the engine calls the adapter again.
PostLost ==
  /\ w.pc = "post"
  /\ \E now \in SUBSET Ops : SchoolApplies(now)
  /\ \/ /\ w.wire < AdapterAttempts
        /\ w' = [w EXCEPT !.wire = @ + 1]
     \/ /\ w.wire >= AdapterAttempts /\ w.attempt <= TransportRetries
        /\ w' = [w EXCEPT !.attempt = @ + 1, !.wire = 1]
     \/ /\ w.wire >= AdapterAttempts /\ w.attempt > TransportRetries
        /\ ConcludeAll("transport_failed")
  /\ UNCHANGED <<ledger, audit, queue, web>>

\* The school answers with its login page: the session died on the way.
PostBounced ==
  /\ w.pc = "post"
  /\ SchoolApplies({})
  /\ ConcludeAll("stage_expired")
  /\ UNCHANGED <<ledger, audit, queue, web>>

\* The answers a school that applied `now` (and `before` earlier) may give.
HonestReply(reply, before, now) ==
  /\ \A o \in Ops : reply[o] # "none" <=> o \in OpsOf[payload[w.job]]
  /\ \A o \in OpsOf[payload[w.job]] :
       CASE o \in now -> reply[o] \in {"ok", "unclear"}
         [] o \in before -> reply[o] \in {"ok", "duplicate", "unclear"}
         [] OTHER -> reply[o] \in {"refused", "duplicate", "unclear"}

\* Wrong variant of ParsedOutcome: "already selected" read as a success.
ParsedOutcomeDuplicateOk(reply, section, o) ==
  IF reply[o] = "none" THEN "none"
  ELSE IF section \/ reply[o] = "refused" THEN "failed"
  ELSE IF reply[o] \in {"ok", "duplicate"} THEN "success" ELSE "parse_failed"

\* parse_submit_response: with a failure section every operation is failed;
\* without one each operation is classified by its own fragment.
ParsedOutcome(reply, section, o) ==
  IF reply[o] = "none" THEN "none"
  ELSE IF section \/ reply[o] \in {"refused", "duplicate"} THEN "failed"
  ELSE IF reply[o] = "ok" THEN "success" ELSE "parse_failed"

\* A duplicate-like failure after an engine retry is not a failure yet.
VerdictOf(reply, section, retried) ==
  [o \in Ops |->
     IF /\ ParsedOutcome(reply, section, o) = "failed"
        /\ retried
        /\ reply[o] = "duplicate"
       THEN "unknown_reconciled"
       ELSE ParsedOutcome(reply, section, o)]

Unsettled(out) == {o \in Ops : out[o] = "unknown_reconciled"}

PostAnswered ==
  /\ w.pc = "post"
  /\ \E now \in SUBSET Ops, reply \in [Ops -> Answers \cup {"none"}], section \in BOOLEAN :
       /\ SchoolApplies(now)
       /\ HonestReply(reply, applied[w.job], now)
       /\ section => \E o \in Ops : reply[o] \in {"refused", "duplicate"}
       /\ LET out == VerdictOf(reply, section, w.attempt > 1)
          IN  w' = [w EXCEPT !.pc = IF Unsettled(out) # {} THEN "reconcile" ELSE "finalize",
                             !.reply = reply, !.out = out, !.final = "done"]
  /\ UNCHANGED <<ledger, audit, queue, web>>

\* reconcile_updates: `listed` is the set of course identifiers slt_result
\* lists as selected; operations are looked up by the identifier they carry.
ReconcileUpdates(out, listed) ==
  [o \in Ops |->
     IF out[o] # "unknown_reconciled" THEN out[o]
     ELSE IF (NoOf[o] \in listed) = (o \in Adds) THEN "success" ELSE "failed"]

\* The one slt_result fetch: skipped with a dead jar, never retried, and
\* otherwise showing what the job's operations did to the selections.
MaybeReconcile ==
  /\ w.pc = "reconcile"
  /\ \/ w' = [w EXCEPT !.pc = "finalize"]
     \/ /\ w.session \in jar
        /\ \E selected \in SUBSET OpsOf[payload[w.job]] :
             /\ \A o \in applied[w.job] : o \in selected <=> o \in Adds
             /\ w' = [w EXCEPT !.pc = "finalize",
                       !.out = ReconcileUpdates(@, {CodeOf[o] : o \in selected})]
  /\ UNCHANGED <<ledger, audit, queue, web, school>>

\* Wrong variants of Finalize: status and outcomes in two transactions; the
\* outcomes of a job that was superseded meanwhile replaced by that word.
FinalizeInTwo ==
  /\ w.pc = "finalize"
  /\ IF status[w.job] \in Active
       THEN FinishJob(w.job, w.final) /\ UNCHANGED <<audit, w>>
       ELSE /\ audit' = [audit EXCEPT ![w.job] = w.out]
            /\ w' = Resting /\ UNCHANGED status
  /\ UNCHANGED <<payload, stale, started, queue, web, school>>

FinalizeMarksSuperseded ==
  /\ w.pc = "finalize"
  /\ audit' = [audit EXCEPT ![w.job] =
       IF status[w.job] = "running" THEN w.out ELSE Same(w.job, "session_superseded")]
  /\ FinishJob(w.job, w.final)
  /\ w' = Resting
  /\ UNCHANGED <<payload, stale, started, queue, web, school>>

\* One transaction: the outcomes of all operations and the guarded status.
Finalize ==
  /\ w.pc = "finalize"
  /\ audit' = [audit EXCEPT ![w.job] = w.out]
  /\ FinishJob(w.job, w.final)
  /\ w' = Resting
  /\ UNCHANGED <<payload, stale, started, queue, web, school>>

\* execute_ticket raises, or the worker process dies and is restarted: the
\* ticket is gone, the rows stay as they are.
WorkerCrash ==
  /\ w.pc # "pop"
  /\ w' = Resting
  /\ UNCHANGED <<ledger, audit, queue, web, school>>

-----------------------------------------------------------------------------
(* Dwell time.                                                              *)

JobAges(j) ==
  /\ status[j] \in Active /\ ~stale[j]
  /\ stale' = [stale EXCEPT ![j] = TRUE]
  /\ UNCHANGED <<status, payload, started, audit, queue, web, w, school>>

\* Wrong variant of SweepOnce: only queued rows are reaped.
SweepOnceQueuedOnly ==
  /\ w.pc = "pop"
  /\ \E j \in Jobs : status[j] = "queued" /\ stale[j]
  /\ status' = [j \in Jobs |->
        IF status[j] = "queued" /\ stale[j] THEN "cancelled" ELSE status[j]]
  /\ UNCHANGED <<payload, stale, started, audit, queue, web, w, school>>

\* The sweep runs in the consumer loop, hence only between two tickets.
SweepOnce ==
  /\ w.pc = "pop"
  /\ \E j \in Jobs : status[j] \in Active /\ stale[j]
  /\ status' = [j \in Jobs |->
        IF status[j] \in Active /\ stale[j] THEN "cancelled" ELSE status[j]]
  /\ UNCHANGED <<payload, stale, started, audit, queue, web, w, school>>

-----------------------------------------------------------------------------
ExecuteTicket ==
  \/ ClaimJob \/ ReadUnclaimed \/ DwellCancel
  \/ InsertPendingAudits \/ AuditDown
  \/ LoadJar \/ CheckBeforeForm \/ GetForm \/ CheckBeforePost
  \/ PostLost \/ PostBounced \/ PostAnswered
  \/ MaybeReconcile \/ Finalize

SubmitStep(r) ==
  \/ \E s \in Sessions, p \in Payloads : ConsumeConfirm(r, s, p)
  \/ Reauth(r) \/ FindActiveJob(r)
  \/ \E j \in Jobs : CreateQueuedJob(r, j)
  \/ DuplicateActiveJob(r) \/ EnqueueTicket(r) \/ RequestEnds(r)

SessionStep(s) ==
  \/ LoginSupersede(s) \/ LoginOpen(s) \/ Logout(s) \/ JarLapses(s)
  \/ \E p \in Payloads : Preview(s, p)

Next ==
  \/ \E s \in Sessions : SessionStep(s)
  \/ \E p \in Payloads : TokenLapses(p)
  \/ \E r \in Requests : SubmitStep(r)
  \/ PopTicket \/ ExecuteTicket \/ WorkerCrash
  \/ \E j \in Jobs : JobAges(j)
  \/ SweepOnce

Spec == Init /\ [][Next]_vars

\* The consumer loop never blocks on an empty list (BRPOP has a timeout) and
\* compose restarts the worker, so the loop keeps running; time passes.
Fairness ==
  /\ WF_vars(PopTicket) /\ WF_vars(ExecuteTicket) /\ WF_vars(SweepOnce)
  /\ \A j \in Jobs : WF_vars(JobAges(j))

FairSpec == Spec /\ Fairness

-----------------------------------------------------------------------------
(* Properties.                                                              *)

RequestPcs == {"idle", "reauth", "lookup", "insert", "enqueue"}

WorkerPcs == {"pop", "claim", "unclaimed", "dwell_cancel", "insert_audits",
              "audit_down", "load_jar", "before_form", "form", "before_post",
              "post", "reconcile", "finalize"}

RequestState == [pc : RequestPcs, session : Sessions, payload : Payloads,
                 job : Jobs \cup {NoJob}]

WorkerState == [pc : WorkerPcs, job : Jobs \cup {NoJob}, session : Sessions,
                attempt : Nat, wire : Nat,
                reply : [Ops -> Answers \cup {"none"}],
                out : [Ops -> Outcomes \cup {"none"}],
                final : {"none", "done", "failed"}]

WorkerTyped ==
  /\ w \in WorkerState
  /\ w.pc # "pop" => w.job \in Jobs
  /\ w.pc \in {"reconcile", "finalize"} => w.final \in {"done", "failed"}

\* Every variable holds a value of its kind, and a handler or worker that is
\* past the point where it knows its job has one.
TypeOK ==
  /\ status \in [Jobs -> Active \cup Terminal \cup {"absent"}]
  /\ payload \in [Jobs -> Payloads]
  /\ stale \in [Jobs -> BOOLEAN]
  /\ started \in [Jobs -> BOOLEAN]
  /\ audit \in [Jobs -> [Ops -> Outcomes \cup {"none"}]]
  /\ queue \in Seq(Ticket)
  /\ token \subseteq Payloads
  /\ session \in [Sessions -> {"new", "login", "open", "closed"}]
  /\ jar \subseteq Sessions
  /\ req \in [Requests -> RequestState]
  /\ \A r \in Requests : req[r].pc = "enqueue" => req[r].job \in Jobs
  /\ WorkerTyped
  /\ applied \in [Jobs -> SUBSET Ops]
  /\ posted \subseteq Jobs

\* Fail-closed audit: no batch reaches the school unless every one of its
\* operations has a write_audit row, whatever crashed or was retried since.
AuditedBeforePosted ==
  \A j \in posted : \A o \in OpsOf[payload[j]] : audit[j][o] # "none"

\* An operation recorded session_superseded was never posted, and its job
\* carries that status: a login that slips in around the two status reads
\* must not produce the row for a batch that is on its way.
SupersededNeverPosted ==
  \A j \in Jobs, o \in Ops :
    audit[j][o] = "session_superseded" =>
      j \notin posted /\ status[j] = "session_superseded"

\* Two submits of one batch, through two tabs or two previews, leave at most
\* one queued or running job (the partial unique index, not the lookup).
OneActivePerPayload ==
  \A j, k \in Jobs :
    /\ status[j] \in Active /\ status[k] \in Active
    /\ payload[j] = payload[k]
    => j = k

\* Status and outcomes are settled together: a job that is done has a verdict
\* on every operation, and a failed one has no verdict of the school and no
\* row left pending.
SettledTogether ==
  /\ \A j \in Jobs : status[j] = "done" =>
       \A o \in OpsOf[payload[j]] :
         audit[j][o] \in {"success", "failed", "parse_failed", "unknown_reconciled"}
  /\ \A j \in Jobs : status[j] = "failed" =>
       \A o \in Ops :
         audit[j][o] \in {"none", "transport_failed", "stage_expired", "parse_failed"}

\* An add is recorded as a success only if the school applied it for this
\* job, through all retries, lost responses and the reconcile.
SuccessIsReal ==
  \A j \in Jobs : \A o \in Adds : audit[j][o] = "success" => o \in applied[j]

\* The worker never runs one student's batch under another student's jar:
\* token, ticket, row and session agree on the owner.
OwnJarOnly ==
  w.pc # "pop" => OwnerOf[w.session] = BatchOwner[payload[w.job]]

\* The row commits before the ticket is pushed: a popped ticket finds it.
TicketFindsRow ==
  /\ \A i \in 1..Len(queue) : status[queue[i].job] # "absent"
  /\ w.pc # "pop" => status[w.job] # "absent"

\* Nothing overwrites a terminal status or a recorded verdict: not the worker
\* finishing a job that a login superseded, nor a second execution.
LedgerIsFinal ==
  [][\A j \in Jobs :
       /\ status[j] \in Terminal => status'[j] = status[j]
       /\ \A o \in Ops : audit[j][o] \notin {"none", "pending"} =>
                           audit'[j][o] = audit[j][o]]_vars

\* Every accepted job reaches a terminal status: tickets lost between commit
\* and RPUSH, and jobs whose worker died mid-run, are reaped by the sweep.
EveryJobSettles ==
  \A j \in Jobs : status[j] \in Active ~> status[j] \in Terminal

\* The engine implements the abstract ledger.
Ledger == INSTANCE WriteLedger WITH
            begun <- {j \in Jobs : started[j]},
            audited <- {j \in Jobs : audit[j] # NoAudit},
            sent <- posted
ImplementsLedger == Ledger!Spec

-----------------------------------------------------------------------------
(* What the repository says of the engine and the code does not do.         *)

\* "FIFO list of serialized QueueTickets": tickets are executed in the order
\* in which they were pushed.
PopsOldestFirst ==
  [][w.pc = "pop" /\ w'.pc = "claim" => w'.job = Head(queue).job]_vars

\* "a transport-retried op answering duplicate-like becomes
\* unknown-reconciled - never failed": also when it was the adapter that
\* sent the request again.
RetriedDuplicateNeverFailed ==
  w.pc = "finalize" /\ w.attempt = 1 /\ w.wire > 1 =>
    \A o \in Ops : w.reply[o] = "duplicate" => w.out[o] # "failed"

\* The reconcile upgrades an operation "to its real state": an add that the
\* school applied for this job is not settled as failed by it.
ReconciledToRealState ==
  w.pc = "finalize" /\ w.attempt > 1 =>
    \A o \in Adds : w.reply[o] = "duplicate" /\ o \in applied[w.job] => w.out[o] # "failed"

=============================================================================
