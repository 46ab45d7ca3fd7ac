------------------------------ MODULE JobViews ------------------------------
(***************************************************************************)
(* GET /api/write/jobs and /api/write/jobs/{id}: a student watches the     *)
(* jobs of the write ledger.  A view is composed of the job rows and of    *)
(* their write_audit rows, read in two statements, each of which sees what *)
(* is committed by then, while the engine, logins and the archive go on.   *)
(*                                                                         *)
(* The ledger moves by the actions of WriteLedger, which module            *)
(* WriteEngine implements.  Here they carry the audit rows along: their    *)
(* outcomes are written in the transaction that ends a job.  A job is its  *)
(* id, and ids of jobs created at one moment are compared as numbers.      *)
(***************************************************************************)
EXTENDS Naturals, Sequences, SequencesExt

CONSTANTS
  Jobs,      \* ids of write_jobs rows, numbers
  Payloads,  \* canonical batches
  Students,  \* who look at their jobs
  OwnerOf,   \* payload -> student
  OpsOf,     \* payload -> its operations, in the order of write_jobs.ops
  Verdicts,  \* outcomes of a finished operation
  Limit,     \* of a list
  LastMoment \* bound: created_at of the last job

ASSUME ViewsAssumption ==
  /\ Jobs \subseteq Nat /\ Limit \in Nat \ {0} /\ LastMoment \in Nat
  /\ DOMAIN OwnerOf = Payloads /\ DOMAIN OpsOf = Payloads
  /\ Verdicts \cap {"pending", "none"} = {}

VARIABLES
  status, payload, begun, audited, sent, \* the ledger
  created,   \* write_jobs.created_at
  rows,      \* the audit rows of a job: operation -> outcome
  viewer     \* the request under way: who asks, the job rows read, what is shown

ledgerVars == <<status, payload, begun, audited, sent>>
viewsVars == <<ledgerVars, created, rows, viewer>>

Ledger == INSTANCE WriteLedger

NoRows == [o \in {} |-> "pending"]

NoView == [pc |-> "idle", student |-> "none", jobs |-> <<>>, views |-> <<>>]

ViewsInit ==
  /\ Ledger!Init
  /\ created = [j \in Jobs |-> 0]
  /\ rows = [j \in Jobs |-> NoRows]
  /\ viewer = NoView

-----------------------------------------------------------------------------
(* The ledger, with its rows.                                               *)

Batch(j) == ToSet(OpsOf[payload[j]])

\* A later job is never older, but rows may be created at one moment.
AcceptJob(j, p) ==
  /\ Ledger!Accept(j, p)
  /\ \E t \in 0..LastMoment :
       /\ \A k \in Jobs : status[k] # "absent" => created[k] <= t
       /\ created' = [created EXCEPT ![j] = t]
  /\ UNCHANGED <<rows, viewer>>

\* Whoever ended the job meanwhile, the engine has begun it.
InsertPending(j) ==
  /\ j \notin audited /\ status[j] \in {"running", "session_superseded"}
  /\ Ledger!Audit(j)
  /\ rows' = [rows EXCEPT ![j] = [o \in Batch(j) |-> "pending"]]
  /\ UNCHANGED <<created, viewer>>

\* The statement updates rows by their ids: those the archive took stay away.
Settle(j) == \E out \in [DOMAIN rows[j] -> Verdicts] : rows' = [rows EXCEPT ![j] = out]

\* Wrong variant of Finalize: the status is committed before the outcomes.
FinalizeInTwo(j) ==
  /\ IF status[j] = "running"
       THEN (Ledger!Complete(j) \/ Ledger!Fail(j)) /\ UNCHANGED rows
       ELSE /\ status[j] \in {"done", "failed", "session_superseded"}
            /\ j \in audited /\ Settle(j) /\ UNCHANGED ledgerVars
  /\ UNCHANGED <<created, viewer>>

\* One transaction: the outcomes, and the status unless a login ended the job.  A
\* job whose rows could not be inserted fails without any.
Finalize(j) ==
  /\ \/ Ledger!Complete(j) \/ Ledger!Fail(j)
     \/ /\ status[j] = "session_superseded"
        /\ \E o \in DOMAIN rows[j] : rows[j][o] = "pending"
        /\ UNCHANGED ledgerVars
  /\ Settle(j)
  /\ UNCHANGED <<created, viewer>>

\* The lifecycle script, months later.
ArchiveRows(j) ==
  /\ status[j] \in Ledger!Terminal
  /\ rows' = [rows EXCEPT ![j] = NoRows]
  /\ UNCHANGED <<ledgerVars, created, viewer>>

WriteSide ==
  \/ \E j \in Jobs, p \in Payloads : AcceptJob(j, p)
  \/ \E j \in Jobs : InsertPending(j) \/ Finalize(j) \/ ArchiveRows(j)
  \/ /\ \/ \E j \in Jobs : Ledger!Begin(j) \/ Ledger!Send(j)
        \/ \E S \in SUBSET Jobs, s \in {"cancelled", "session_superseded"} :
             Ledger!Withdraw(S, s)
     /\ UNCHANGED <<created, rows, viewer>>

-----------------------------------------------------------------------------
(* list_write_jobs and get_write_job.                                       *)

Owned(s) == {j \in Jobs : status[j] # "absent" /\ OwnerOf[payload[j]] = s}

Newer(j, k) == created[j] > created[k] \/ (created[j] = created[k] /\ j > k)

Newest(s) ==
  LET all == CHOOSE q \in SetToSeqs(Owned(s)) : \A i, k \in DOMAIN q : i < k => Newer(q[i], q[k])
  IN  SubSeq(all, 1, IF Len(all) < Limit THEN Len(all) ELSE Limit)

AskJobs(s) ==
  /\ viewer.pc = "idle"
  /\ viewer' = [NoView EXCEPT !.pc = "jobs", !.student = s]
  /\ UNCHANGED <<ledgerVars, created, rows>>

Row(j) == [job |-> j, status |-> status[j], ops |-> OpsOf[payload[j]]]

\* The newest jobs of the student, or the one asked for; a job of another student
\* is a 404 like a missing one.
LoadJobs ==
  /\ viewer.pc = "jobs"
  /\ \/ LET list == Newest(viewer.student)
        IN viewer' = [viewer EXCEPT !.pc = "audits",
                                    !.jobs = [i \in DOMAIN list |-> Row(list[i])]]
     \/ \E j \in Jobs :
          viewer' = IF j \in Owned(viewer.student)
                      THEN [viewer EXCEPT !.pc = "audits", !.jobs = <<Row(j)>>]
                      ELSE NoView
  /\ UNCHANGED <<ledgerVars, created, rows>>

\* Every operation of the job with the outcome of its row, if there is one.
ComposeView(row) ==
  [job |-> row.job, status |-> row.status,
   outcomes |-> [i \in DOMAIN row.ops |->
     IF row.ops[i] \in DOMAIN rows[row.job] THEN rows[row.job][row.ops[i]] ELSE "none"]]

LoadAudits ==
  /\ viewer.pc = "audits"
  /\ viewer' = [viewer EXCEPT !.pc = "shown",
                  !.views = [i \in DOMAIN viewer.jobs |-> ComposeView(viewer.jobs[i])]]
  /\ UNCHANGED <<ledgerVars, created, rows>>

CloseView ==
  /\ viewer.pc = "shown"
  /\ viewer' = NoView
  /\ UNCHANGED <<ledgerVars, created, rows>>

ViewsNext ==
  \/ WriteSide
  \/ (\E s \in Students : AskJobs(s)) \/ LoadJobs \/ LoadAudits \/ CloseView

ViewsSpec == ViewsInit /\ [][ViewsNext]_viewsVars

-----------------------------------------------------------------------------
(* Properties.                                                              *)

ViewsTypeOK ==
  /\ status \in [Jobs -> Ledger!Active \cup Ledger!Terminal \cup {"absent"}]
  /\ payload \in [Jobs -> Payloads]
  /\ begun \subseteq Jobs /\ audited \subseteq Jobs /\ sent \subseteq Jobs
  /\ created \in [Jobs -> 0..LastMoment]
  /\ \A j \in Jobs : /\ DOMAIN rows[j] \in {{}, Batch(j)}
                     /\ \A o \in DOMAIN rows[j] : rows[j][o] \in Verdicts \cup {"pending"}
  /\ viewer.pc \in {"idle", "jobs", "audits", "shown"}

\* What a student is shown hangs together although it was read in two statements.  A
\* job that is done or failed shows no operation as pending.  A withdrawn job may: its
\* worker died, or still goes on after a login; but a cancelled one never shows a
\* verdict.  Whatever the status, operations are all pending, all settled or all
\* without a row.  No job is another student's; and none appears twice or before a
\* newer one.
ViewIsConsistent ==
  viewer.pc = "shown" =>
    /\ \A i \in DOMAIN viewer.views :
         LET view == viewer.views[i]
             shown == ToSet(view.outcomes)
         IN /\ view.status \in {"done", "failed"} => "pending" \notin shown
            /\ view.status = "cancelled" => shown \cap Verdicts = {}
            /\ \A o \in {"pending", "none"} : o \in shown => shown = {o}
            /\ OwnerOf[payload[view.job]] = viewer.student
    /\ \A i, k \in DOMAIN viewer.views :
         i < k => Newer(viewer.views[i].job, viewer.views[k].job)

=============================================================================
