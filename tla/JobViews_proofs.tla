-------------------------- MODULE JobViews_proofs --------------------------
(***************************************************************************)
(* What a student is shown of the write jobs hangs together, for every     *)
(* number of jobs, whatever the ledger does between the two statements a   *)
(* view is read in; and the ledger behind it is that of WriteLedger.       *)
(* Module WriteEngine_proofs instantiates these theorems with the rows of  *)
(* the engine itself.                                                      *)
(***************************************************************************)
EXTENDS JobViews, SortedSets

-----------------------------------------------------------------------------
(* The views of the jobs.                                                   *)

Existing == {j \in Jobs : status[j] # "absent"}

Finished == {"done", "failed"}

\* What a job stays for ever: only a job that a login ended still has rows to come.
Final == Finished \cup {"cancelled"}

\* No verdict of the job was recorded yet, and of a cancelled one none ever is.
Untold == {"queued", "running", "cancelled"}

LedgerOK ==
  /\ status \in [Jobs -> Ledger!Active \cup Ledger!Terminal \cup {"absent"}]
  /\ payload \in [Jobs -> Payloads]
  /\ created \in [Jobs -> Nat]
  /\ IsFiniteSet(Existing)

\* The audit rows of a job are those of its batch or none, all pending or all settled:
\* settled when it is done or failed, pending while it is untold.
JobRowsOK(j) ==
  /\ DOMAIN rows[j] \in {{}, Batch(j)}
  /\ \A o \in DOMAIN rows[j] : rows[j][o] \in Verdicts \cup {"pending"}
  /\ \/ \A o \in DOMAIN rows[j] : rows[j][o] = "pending"
     \/ \A o \in DOMAIN rows[j] : rows[j][o] # "pending"
  /\ status[j] \in Finished => \A o \in DOMAIN rows[j] : rows[j][o] # "pending"
  /\ status[j] \in Untold => \A o \in DOMAIN rows[j] : rows[j][o] = "pending"
  /\ status[j] = "absent" => DOMAIN rows[j] = {}

RowsOK ==
  /\ rows = [j \in Jobs |-> rows[j]]
  /\ \A j \in Jobs : JobRowsOK(j)

IsViewer ==
  viewer = [pc |-> viewer.pc, student |-> viewer.student, jobs |-> viewer.jobs,
            views |-> viewer.views]

\* A row that was read may be late about the status, but never ahead of it.
ReadRow(row) ==
  /\ row.job \in Existing /\ row.ops = OpsOf[payload[row.job]]
  /\ OwnerOf[payload[row.job]] = viewer.student
  /\ row.status \in Final => status[row.job] = row.status

ShownView(view) ==
  /\ view.job \in Existing /\ OwnerOf[payload[view.job]] = viewer.student
  /\ view.status \in Finished => "pending" \notin ToSet(view.outcomes)
  /\ view.status = "cancelled" => ToSet(view.outcomes) \cap Verdicts = {}
  /\ \A o \in {"pending", "none"} : o \in ToSet(view.outcomes) => ToSet(view.outcomes) = {o}

InOrder(list) == \A i, k \in DOMAIN list : i < k => Newer(list[i].job, list[k].job)

ViewerOK ==
  /\ IsViewer
  /\ viewer.pc = "audits" =>
       (\A i \in DOMAIN viewer.jobs : ReadRow(viewer.jobs[i])) /\ InOrder(viewer.jobs)
  /\ viewer.pc = "shown" =>
       (\A i \in DOMAIN viewer.views : ShownView(viewer.views[i])) /\ InOrder(viewer.views)

\* ViewIsConsistent needs RowsOK, so that rows read later than the status suit it.
ViewsInv == LedgerOK /\ RowsOK /\ ViewerOK

\* What neither the engine nor a login nor the archive does to a job that exists.
Lasts ==
  \A j \in Existing :
    /\ j \in Existing' /\ payload'[j] = payload[j] /\ created'[j] = created[j]
    /\ status[j] \in Final => status'[j] = status[j]

LEMMA StatusNames ==
  /\ Ledger!Active = {"queued", "running"}
  /\ Ledger!Terminal = {"done", "failed", "cancelled", "session_superseded"}
  BY DEF Ledger!Active, Ledger!Terminal

LEMMA JobAccepted ==
  ASSUME ViewsInv, NEW j \in Jobs, NEW p \in Payloads, AcceptJob(j, p)
  PROVE  LedgerOK' /\ RowsOK' /\ Lasts /\ UNCHANGED viewer
  <1>1. /\ status[j] = "absent" /\ status' = [status EXCEPT ![j] = "queued"]
        /\ payload' = [payload EXCEPT ![j] = p] /\ UNCHANGED <<rows, viewer>>
        /\ \E t \in 0..LastMoment : created' = [created EXCEPT ![j] = t]
    BY DEF AcceptJob, Ledger!Accept
  <1>2. Existing' = Existing \cup {j} /\ j \notin Existing
    BY <1>1 DEF ViewsInv, LedgerOK, Existing
  <1>3. LedgerOK'
    <2>1. IsFiniteSet(Existing \cup {j})
      BY FS_AddElement DEF ViewsInv, LedgerOK
    <2>2. created' \in [Jobs -> Nat]
      BY <1>1 DEF ViewsInv, LedgerOK
    <2> QED
      BY <1>1, <1>2, <2>1, <2>2, StatusNames DEF ViewsInv, LedgerOK
  <1>4. \A k \in Jobs : k # j => payload'[k] = payload[k] /\ status'[k] = status[k]
                                 /\ created'[k] = created[k]
    BY <1>1 DEF ViewsInv, LedgerOK
  <1>5. RowsOK'
    <2> SUFFICES ASSUME NEW k \in Jobs
                 PROVE  JobRowsOK(k)'
      BY <1>1 DEF ViewsInv, RowsOK
    <2>1. CASE k = j
      <3>1. DOMAIN rows'[j] = {}
        BY <1>1 DEF ViewsInv, RowsOK, JobRowsOK
      <3>2. status'[j] = "queued"
        BY <1>1 DEF ViewsInv, LedgerOK
      <3> QED
        BY <2>1, <3>1, <3>2 DEF JobRowsOK, Finished
    <2>2. CASE k # j
      <3>1. Batch(k)' = Batch(k)
        BY <1>4, <2>2 DEF Batch
      <3> QED
        BY <1>1, <1>4, <2>2, <3>1 DEF ViewsInv, RowsOK, JobRowsOK
    <2> QED
      BY <2>1, <2>2
  <1>6. Lasts
    BY <1>2, <1>4 DEF Lasts, Existing
  <1> QED
    BY <1>1, <1>3, <1>5, <1>6

\* The status moves on while the rows stay: the job begins, or is withdrawn.
MovesOn(j) == status[j] \in Untold /\ status'[j] \notin Finished \cup {"absent"}

\* Everything else that happens to a job: its status moves on, or its rows.
LEMMA JobMoves ==
  ASSUME ViewsInv, UNCHANGED <<payload, created, viewer>>,
         status' \in [Jobs -> Ledger!Active \cup Ledger!Terminal \cup {"absent"}],
         \A k \in Jobs : /\ status'[k] = "absent" <=> status[k] = "absent"
                         /\ status[k] \in Final => status'[k] = status[k],
         rows' = [k \in Jobs |-> rows'[k]],
         \A k \in Jobs :
           \/ rows'[k] = rows[k] /\ (status'[k] = status[k] \/ MovesOn(k))
           \/ DOMAIN rows'[k] = {}
           \/ /\ DOMAIN rows'[k] = DOMAIN rows[k] /\ status'[k] \notin Untold
              /\ \A o \in DOMAIN rows'[k] : rows'[k][o] \in Verdicts
           \/ /\ status'[k] \notin Finished \cup {"absent"} /\ DOMAIN rows'[k] = Batch(k)
              /\ \A o \in DOMAIN rows'[k] : rows'[k][o] = "pending"
  PROVE  LedgerOK' /\ RowsOK' /\ Lasts /\ UNCHANGED viewer
  <1>1. Existing' = Existing
    BY DEF Existing
  <1>2. LedgerOK'
    BY <1>1 DEF ViewsInv, LedgerOK
  <1>3. \A k \in Jobs : Batch(k)' = Batch(k)
    BY DEF Batch
  <1>4. Verdicts \cap {"pending", "none"} = {}
    BY ViewsAssumption
  <1>5. RowsOK'
    <2> SUFFICES ASSUME NEW k \in Jobs
                 PROVE  JobRowsOK(k)'
      BY <1>3 DEF RowsOK
    <2>1. JobRowsOK(k) /\ Batch(k)' = Batch(k)
      BY <1>3 DEF ViewsInv, RowsOK
    <2>2. CASE rows'[k] = rows[k] /\ status'[k] = status[k]
      BY <2>1, <2>2 DEF JobRowsOK
    <2>3. CASE rows'[k] = rows[k] /\ MovesOn(k)
      BY <2>1, <2>3 DEF JobRowsOK, MovesOn
    <2>4. CASE DOMAIN rows'[k] = {}
      BY <2>4 DEF JobRowsOK
    <2>5. CASE /\ DOMAIN rows'[k] = DOMAIN rows[k] /\ status'[k] \notin Untold
               /\ \A o \in DOMAIN rows'[k] : rows'[k][o] \in Verdicts
      BY <1>4, <2>1, <2>5 DEF JobRowsOK
    <2>6. CASE /\ status'[k] \notin Finished \cup {"absent"} /\ DOMAIN rows'[k] = Batch(k)
               /\ \A o \in DOMAIN rows'[k] : rows'[k][o] = "pending"
      BY <2>1, <2>6 DEF JobRowsOK
    <2> QED
      BY <2>2, <2>3, <2>4, <2>5, <2>6
  <1>6. Lasts
    BY <1>1 DEF Lasts, Existing
  <1> QED
    BY <1>2, <1>5, <1>6

\* The engine, logins and the archive keep what a view rests on.
LEMMA WriteSideSteps ==
  ASSUME ViewsInv, WriteSide
  PROVE  LedgerOK' /\ RowsOK' /\ Lasts /\ UNCHANGED viewer
  <1>1. /\ status \in [Jobs -> Ledger!Active \cup Ledger!Terminal \cup {"absent"}]
        /\ rows = [k \in Jobs |-> rows[k]]
    BY DEF ViewsInv, LedgerOK, RowsOK
  <1> DEFINE Goal == LedgerOK' /\ RowsOK' /\ Lasts /\ UNCHANGED viewer
  <1>2. ASSUME NEW j \in Jobs, NEW p \in Payloads, AcceptJob(j, p) PROVE Goal
    BY <1>2, JobAccepted
  <1>3. ASSUME NEW j \in Jobs, InsertPending(j) PROVE Goal
    <2>1. /\ UNCHANGED <<status, payload, created, viewer>>
          /\ status[j] \in {"running", "session_superseded"}
          /\ rows' = [rows EXCEPT ![j] = [o \in Batch(j) |-> "pending"]]
      BY <1>3 DEF InsertPending, Ledger!Audit
    <2>2. /\ rows' = [k \in Jobs |-> rows'[k]]
          /\ \A k \in Jobs : rows'[k] = IF k = j THEN [o \in Batch(j) |-> "pending"] ELSE rows[k]
      BY <1>1, <2>1
    <2>3. status[j] \notin Finished \cup {"absent"}
      BY <2>1 DEF Finished
    <2> QED
      BY <1>1, <2>1, <2>2, <2>3, JobMoves
  <1>4. ASSUME NEW j \in Jobs, Finalize(j) PROVE Goal
    <2>1. /\ UNCHANGED <<payload, created, viewer>>
          /\ \/ status[j] = "running" /\ \E s \in Finished : status' = [status EXCEPT ![j] = s]
             \/ status[j] = "session_superseded" /\ UNCHANGED status
          /\ \E out \in [DOMAIN rows[j] -> Verdicts] : rows' = [rows EXCEPT ![j] = out]
      BY <1>4 DEF Finalize, Ledger!Complete, Ledger!Fail, ledgerVars, Settle, Finished
    <2>2. PICK out \in [DOMAIN rows[j] -> Verdicts] : rows' = [rows EXCEPT ![j] = out]
      BY <2>1
    <2>3. /\ rows' = [k \in Jobs |-> rows'[k]]
          /\ \A k \in Jobs : rows'[k] = IF k = j THEN out ELSE rows[k]
      BY <1>1, <2>2
    <2>4. /\ status' \in [Jobs -> Ledger!Active \cup Ledger!Terminal \cup {"absent"}]
          /\ \A k \in Jobs : /\ status'[k] = "absent" <=> status[k] = "absent"
                             /\ status[k] \in Final => status'[k] = status[k]
                             /\ k # j => status'[k] = status[k]
      BY <1>1, <2>1, StatusNames DEF Finished, Final
    <2>5. \A k \in Jobs :
            \/ rows'[k] = rows[k] /\ status'[k] = status[k]
            \/ /\ DOMAIN rows'[k] = DOMAIN rows[k] /\ status'[k] \notin Untold
               /\ \A o \in DOMAIN rows'[k] : rows'[k][o] \in Verdicts
      <3>1. status'[j] \notin Untold
        BY <1>1, <2>1 DEF Finished, Untold
      <3> QED
        BY <2>3, <2>4, <3>1
    <2> QED
      BY <2>1, <2>3, <2>4, <2>5, JobMoves
  <1>5. ASSUME NEW j \in Jobs, ArchiveRows(j) PROVE Goal
    <2>1. UNCHANGED <<status, payload, created, viewer>> /\ rows' = [rows EXCEPT ![j] = NoRows]
      BY <1>5 DEF ArchiveRows, ledgerVars
    <2>2. DOMAIN NoRows = {}
      BY DEF NoRows
    <2>3. /\ rows' = [k \in Jobs |-> rows'[k]]
          /\ \A k \in Jobs : rows'[k] = IF k = j THEN NoRows ELSE rows[k]
      BY <1>1, <2>1
    <2> QED
      BY <1>1, <2>1, <2>2, <2>3, JobMoves
  <1>6. ASSUME UNCHANGED <<created, rows, viewer>>,
               \/ \E j \in Jobs : Ledger!Begin(j) \/ Ledger!Send(j)
               \/ \E S \in SUBSET Jobs, s \in {"cancelled", "session_superseded"} :
                    Ledger!Withdraw(S, s)
        PROVE  Goal
    <2>1. CASE \E j \in Jobs : Ledger!Begin(j) \/ Ledger!Send(j)
      <3>1. PICK j \in Jobs : Ledger!Begin(j) \/ Ledger!Send(j)
        BY <2>1
      <3>2. /\ UNCHANGED payload
            /\ \/ status[j] = "queued" /\ status' = [status EXCEPT ![j] = "running"]
               \/ UNCHANGED status
        BY <3>1 DEF Ledger!Begin, Ledger!Send
      <3>3. /\ status' \in [Jobs -> Ledger!Active \cup Ledger!Terminal \cup {"absent"}]
            /\ \A k \in Jobs : /\ status'[k] = "absent" <=> status[k] = "absent"
                               /\ status[k] \in Final => status'[k] = status[k]
                               /\ status'[k] = status[k] \/ MovesOn(k)
        BY <1>1, <3>2, StatusNames DEF Finished, Final, Untold, MovesOn
      <3> QED
        BY <1>1, <1>6, <3>2, <3>3, JobMoves
    <2>2. CASE \E S \in SUBSET Jobs, s \in {"cancelled", "session_superseded"} : Ledger!Withdraw(S, s)
      <3>1. PICK S \in SUBSET Jobs, s \in {"cancelled", "session_superseded"} : Ledger!Withdraw(S, s)
        BY <2>2
      <3>2. /\ UNCHANGED payload /\ \A j \in S : status[j] \in {"queued", "running"}
            /\ s \in {"cancelled", "session_superseded"}
            /\ status' = [j \in Jobs |-> IF j \in S THEN s ELSE status[j]]
        BY <3>1, StatusNames DEF Ledger!Withdraw
      <3>3. /\ status' \in [Jobs -> Ledger!Active \cup Ledger!Terminal \cup {"absent"}]
            /\ \A k \in Jobs : /\ status'[k] = "absent" <=> status[k] = "absent"
                               /\ status[k] \in Final => status'[k] = status[k]
                               /\ status'[k] = status[k] \/ MovesOn(k)
        BY <1>1, <3>2, StatusNames DEF Finished, Final, Untold, MovesOn
      <3> QED
        BY <1>1, <1>6, <3>2, <3>3, JobMoves
    <2> QED
      BY <1>6, <2>1, <2>2
  <1> QED
    BY <1>2, <1>3, <1>4, <1>5, <1>6 DEF WriteSide

\* A view under way stays good while its jobs last.
LEMMA ViewerLasts ==
  ASSUME ViewsInv, Lasts, UNCHANGED viewer
  PROVE  ViewerOK'
  <1>1. \A j, k \in Existing : Newer(j, k)' <=> Newer(j, k)
    BY DEF Lasts, Newer
  <1>2. ASSUME viewer.pc = "audits"
        PROVE  (\A i \in DOMAIN viewer.jobs : ReadRow(viewer.jobs[i])') /\ InOrder(viewer.jobs)'
    <2>1. \A i \in DOMAIN viewer.jobs : ReadRow(viewer.jobs[i])
      BY <1>2 DEF ViewsInv, ViewerOK
    <2>2. \A i \in DOMAIN viewer.jobs : ReadRow(viewer.jobs[i])'
      BY <2>1 DEF ReadRow, Lasts
    <2>3. InOrder(viewer.jobs)'
      BY <1>1, <1>2, <2>1 DEF ViewsInv, ViewerOK, InOrder, ReadRow
    <2> QED
      BY <2>2, <2>3
  <1>3. ASSUME viewer.pc = "shown"
        PROVE  (\A i \in DOMAIN viewer.views : ShownView(viewer.views[i])') /\ InOrder(viewer.views)'
    <2>1. \A i \in DOMAIN viewer.views : ShownView(viewer.views[i])
      BY <1>3 DEF ViewsInv, ViewerOK
    <2>2. \A i \in DOMAIN viewer.views : ShownView(viewer.views[i])'
      BY <2>1 DEF ShownView, Lasts
    <2>3. InOrder(viewer.views)'
      BY <1>1, <1>3, <2>1 DEF ViewsInv, ViewerOK, InOrder, ShownView
    <2> QED
      BY <2>2, <2>3
  <1> QED
    BY <1>2, <1>3 DEF ViewsInv, ViewerOK, IsViewer

\* The statement of the list gives the jobs of the student, each before the older
\* ones.
LEMMA NewestInOrder ==
  ASSUME ViewsInv, NEW s
  PROVE  /\ \A i \in DOMAIN Newest(s) : Newest(s)[i] \in Owned(s)
         /\ \A i, k \in DOMAIN Newest(s) : i < k => Newer(Newest(s)[i], Newest(s)[k])
  <1> DEFINE S == Owned(s)
             R == {p \in S \X S : Newer(p[1], p[2])}
             all == CHOOSE q \in SetToSeqs(S) : \A i, k \in DOMAIN q : i < k => Newer(q[i], q[k])
             m == IF Len(all) < Limit THEN Len(all) ELSE Limit
  <1>1. S \subseteq Existing /\ S \subseteq Jobs
    BY DEF Owned, Existing
  <1>2. IsFiniteSet(S)
    BY <1>1, FS_Subset DEF ViewsInv, LedgerOK
  <1>3. \A j \in S : j \in Nat /\ created[j] \in Nat
    BY <1>1, ViewsAssumption DEF ViewsInv, LedgerOK
  <1>4. \A j, k \in S : <<j, k>> \in R <=> Newer(j, k)
    OBVIOUS
  <1> HIDE DEF S, R
  <1>5. Orders(R, S)
    BY <1>3, <1>4 DEF Orders, Newer
  <1>6. PICK q \in SetToSeqs(S) : \A i, k \in 1..Cardinality(S) : i < k => <<q[i], q[k]>> \in R
    BY <1>2, <1>5, SortedEnumeration
  <1>7. DOMAIN q = 1..Cardinality(S) /\ \A i \in DOMAIN q : q[i] \in S
    BY <1>6 DEF SetToSeqs
  <1>8. \E t \in SetToSeqs(S) : \A i, k \in DOMAIN t : i < k => Newer(t[i], t[k])
    BY <1>4, <1>6, <1>7
  <1>9. all \in SetToSeqs(S) /\ \A i, k \in DOMAIN all : i < k => Newer(all[i], all[k])
    BY <1>8
  <1>10. Newest(s) = SubSeq(all, 1, m)
    BY DEF Newest, S
  <1> HIDE DEF all
  <1>11. all \in Seq(S) /\ DOMAIN all = 1..Len(all)
    BY <1>2, <1>9, Enumerates
  <1>12. Len(all) \in Nat /\ m \in 0..Len(all)
    BY <1>11, ViewsAssumption
  <1> HIDE DEF m
  <1>13. DOMAIN Newest(s) = 1..m /\ \A i \in 1..m : Newest(s)[i] = all[i] /\ i \in DOMAIN all
    BY <1>10, <1>11, <1>12
  <1>14. \A i \in DOMAIN all : all[i] \in S
    BY <1>11
  <1> QED
    BY <1>9, <1>13, <1>14 DEF S

LEMMA ViewsStart ==
  ASSUME ViewsInit
  PROVE  ViewsInv
  <1>1. /\ status = [j \in Jobs |-> "absent"] /\ payload \in [Jobs -> Payloads]
        /\ created = [j \in Jobs |-> 0] /\ rows = [j \in Jobs |-> NoRows] /\ viewer = NoView
    BY DEF ViewsInit, Ledger!Init
  <1>2. Existing = {}
    BY <1>1 DEF Existing
  <1>3. LedgerOK
    BY <1>1, <1>2, FS_EmptySet DEF LedgerOK
  <1>4. RowsOK
    BY <1>1 DEF RowsOK, JobRowsOK, NoRows, Finished, Untold
  <1>5. ViewerOK
    BY <1>1 DEF ViewerOK, IsViewer, NoView
  <1> QED
    BY <1>3, <1>4, <1>5 DEF ViewsInv

\* What is read of the jobs suits them at that moment.
LEMMA JobsAreRead ==
  ASSUME ViewsInv, LoadJobs
  PROVE  ViewerOK'
  <1>1. UNCHANGED <<status, payload, created, rows>>
    BY DEF LoadJobs, ledgerVars
  <1>2. IsViewer
    BY DEF ViewsInv, ViewerOK
  <1>3. ASSUME NEW list, viewer' = [viewer EXCEPT !.pc = "audits",
                                                  !.jobs = [i \in DOMAIN list |-> Row(list[i])]],
               \A i \in DOMAIN list : list[i] \in Owned(viewer.student),
               \A i, k \in DOMAIN list : i < k => Newer(list[i], list[k])
        PROVE  ViewerOK'
    <2>1. viewer' = [pc |-> "audits", student |-> viewer.student,
                     jobs |-> [i \in DOMAIN list |-> Row(list[i])], views |-> viewer.views]
      BY <1>2, <1>3 DEF IsViewer
    <2>2. ASSUME NEW i \in DOMAIN list
          PROVE  ReadRow(viewer.jobs[i])' /\ viewer'.jobs[i].job = list[i]
      <3>1. viewer'.jobs[i] = Row(list[i])
        BY <2>1
      <3>2. list[i] \in Existing /\ OwnerOf[payload[list[i]]] = viewer.student
        BY <1>3 DEF Owned, Existing
      <3> QED
        BY <1>1, <2>1, <3>1, <3>2 DEF ReadRow, Row, Existing
    <2>3. DOMAIN viewer'.jobs = DOMAIN list
      BY <2>1
    <2>4. InOrder(viewer.jobs)'
      BY <1>1, <1>3, <2>2, <2>3 DEF InOrder, Newer
    <2>5. \A i \in DOMAIN viewer'.jobs : ReadRow(viewer.jobs[i])'
      BY <2>2, <2>3
    <2> QED
      BY <2>1, <2>4, <2>5 DEF ViewerOK, IsViewer
  <1>4. CASE LET list == Newest(viewer.student)
             IN viewer' = [viewer EXCEPT !.pc = "audits",
                                         !.jobs = [i \in DOMAIN list |-> Row(list[i])]]
    BY <1>3, <1>4, NewestInOrder
  <1>5. CASE \E j \in Jobs :
               viewer' = IF j \in Owned(viewer.student)
                           THEN [viewer EXCEPT !.pc = "audits", !.jobs = <<Row(j)>>]
                           ELSE NoView
    <2>1. PICK j \in Jobs : viewer' = IF j \in Owned(viewer.student)
                                        THEN [viewer EXCEPT !.pc = "audits", !.jobs = <<Row(j)>>]
                                        ELSE NoView
      BY <1>5
    <2>2. CASE j \in Owned(viewer.student)
      <3> DEFINE list == <<j>>
      <3>1. DOMAIN list = {1} /\ list[1] = j
        OBVIOUS
      <3>2. <<Row(j)>> = [i \in DOMAIN list |-> Row(list[i])]
        OBVIOUS
      <3>3. viewer' = [viewer EXCEPT !.pc = "audits", !.jobs = [i \in DOMAIN list |-> Row(list[i])]]
        BY <2>1, <2>2, <3>2
      <3>4. /\ \A i \in DOMAIN list : list[i] \in Owned(viewer.student)
            /\ \A i, k \in DOMAIN list : i < k => Newer(list[i], list[k])
        BY <2>2, <3>1
      <3> HIDE DEF list
      <3> QED
        BY <1>3, <3>3, <3>4
    <2>3. CASE j \notin Owned(viewer.student)
      BY <2>1, <2>3 DEF ViewerOK, IsViewer, NoView
    <2> QED
      BY <2>2, <2>3
  <1> QED
    BY <1>4, <1>5 DEF LoadJobs

\* Audit rows read later than the status of their job suit it: they are settled if it
\* is done or failed, pending if it is cancelled, and there or gone together.
LEMMA AuditsAreRead ==
  ASSUME ViewsInv, LoadAudits
  PROVE  ViewerOK'
  <1>1. UNCHANGED <<status, payload, created, rows>>
    BY DEF LoadAudits, ledgerVars
  <1> DEFINE view(i) == ComposeView(viewer.jobs[i])
  <1>2. /\ viewer' = [pc |-> "shown", student |-> viewer.student, jobs |-> viewer.jobs,
                      views |-> [i \in DOMAIN viewer.jobs |-> view(i)]]
        /\ viewer.pc = "audits"
    BY DEF LoadAudits, ViewsInv, ViewerOK, IsViewer
  <1>3. ASSUME NEW i \in DOMAIN viewer.jobs
        PROVE  ShownView(viewer.views[i])' /\ viewer'.views[i].job = viewer.jobs[i].job
    <2> DEFINE row == viewer.jobs[i]
               j == row.job
               said == view(i).outcomes
    <2>1. ReadRow(row)
      BY <1>2 DEF ViewsInv, ViewerOK
    <2>2. view(i).job = j /\ view(i).status = row.status
      BY DEF ComposeView
    <2>3. said = [k \in DOMAIN row.ops |-> IF row.ops[k] \in DOMAIN rows[j]
                                             THEN rows[j][row.ops[k]] ELSE "none"]
      BY DEF ComposeView
    <2>4. /\ j \in Jobs /\ DOMAIN rows[j] \in {{}, Batch(j)}
          /\ JobRowsOK(j)
      BY <2>1 DEF ReadRow, Existing, ViewsInv, RowsOK, JobRowsOK
    <2>5. \A k \in DOMAIN row.ops : row.ops[k] \in Batch(j)
      BY <2>1 DEF ReadRow, Batch, ToSet
    <2> HIDE DEF said
    <2>6. ToSet(said) = {said[k] : k \in DOMAIN row.ops}
      BY <2>3 DEF ToSet
    <2>7. row.status \in Finished => "pending" \notin ToSet(said)
      BY <2>1, <2>3, <2>4, <2>6 DEF ReadRow, Final, JobRowsOK
    <2>8. row.status = "cancelled" => ToSet(said) \cap Verdicts = {}
      BY <2>1, <2>3, <2>4, <2>6, ViewsAssumption DEF ReadRow, Final, Untold, JobRowsOK
    <2>9. \A o \in {"pending", "none"} : o \in ToSet(said) => ToSet(said) = {o}
      <3>1. CASE DOMAIN rows[j] = {}
        BY <2>3, <2>6, <3>1
      <3>2. CASE DOMAIN rows[j] = Batch(j)
        <4>1. \A k \in DOMAIN row.ops : said[k] = rows[j][row.ops[k]] /\ said[k] # "none"
          BY <2>3, <2>4, <2>5, <3>2, ViewsAssumption DEF JobRowsOK
        <4>2. \/ \A k \in DOMAIN row.ops : said[k] = "pending"
              \/ \A k \in DOMAIN row.ops : said[k] # "pending"
          BY <2>4, <2>5, <3>2, <4>1 DEF JobRowsOK
        <4> QED
          BY <2>6, <4>1, <4>2
      <3> QED
        BY <2>4, <3>1, <3>2
    <2>10. OwnerOf[payload[j]] = viewer.student /\ j \in Existing
      BY <2>1 DEF ReadRow
    <2>11. ShownView(view(i))
      BY <2>2, <2>7, <2>8, <2>9, <2>10 DEF ShownView, said
    <2>12. /\ viewer'.student = viewer.student /\ viewer'.views[i] = view(i)
           /\ Existing' = Existing
      BY <1>1, <1>2 DEF Existing
    <2> HIDE DEF view
    <2>13. ShownView(viewer.views[i])'
      BY <1>1, <2>11, <2>12 DEF ShownView
    <2> QED
      BY <2>2, <2>12, <2>13
  <1> HIDE DEF view
  <1>4. DOMAIN viewer'.views = DOMAIN viewer.jobs
    BY <1>2
  <1>5. \A i \in DOMAIN viewer'.views : ShownView(viewer.views[i])'
    BY <1>3, <1>4
  <1>6. InOrder(viewer.jobs)
    BY <1>2 DEF ViewsInv, ViewerOK
  <1>7. InOrder(viewer.views)'
    BY <1>1, <1>3, <1>4, <1>6 DEF InOrder, Newer
  <1>8. IsViewer'
    BY <1>2 DEF IsViewer
  <1>9. viewer'.pc = "shown"
    BY <1>2
  <1> QED
    BY <1>5, <1>7, <1>8, <1>9 DEF ViewerOK

\* Every step of the ledger and of the view.
LEMMA ViewsStep == ViewsInv /\ [ViewsNext]_viewsVars => ViewsInv'
  <1> SUFFICES ASSUME ViewsInv, [ViewsNext]_viewsVars PROVE ViewsInv'
    OBVIOUS
  <1>1. CASE WriteSide
    BY <1>1, WriteSideSteps, ViewerLasts DEF ViewsInv
  <1>2. ASSUME UNCHANGED <<ledgerVars, created, rows>>
        PROVE  LedgerOK' /\ RowsOK'
    <2>1. UNCHANGED <<status, payload, created, rows>>
      BY <1>2 DEF ledgerVars
    <2> QED
      BY <2>1 DEF ViewsInv, LedgerOK, RowsOK, JobRowsOK, Existing, Batch
  <1>3. CASE LoadJobs
    BY <1>2, <1>3, JobsAreRead DEF LoadJobs, ViewsInv
  <1>4. CASE LoadAudits
    BY <1>2, <1>4, AuditsAreRead DEF LoadAudits, ViewsInv
  <1>5. CASE CloseView \/ \E s \in Students : AskJobs(s)
    <2>1. UNCHANGED <<ledgerVars, created, rows>>
      BY <1>5 DEF CloseView, AskJobs
    <2>2. viewer' = NoView \/ \E s \in Students : viewer' = [NoView EXCEPT !.pc = "jobs", !.student = s]
      BY <1>5 DEF CloseView, AskJobs
    <2>3. ASSUME NEW s
          PROVE  [NoView EXCEPT !.pc = "jobs", !.student = s]
                   = [pc |-> "jobs", student |-> s, jobs |-> <<>>, views |-> <<>>]
      <3>1. [NoView EXCEPT !.pc = "jobs", !.student = s]
              = [[NoView EXCEPT !.pc = "jobs"] EXCEPT !.student = s]
        BY DEF NoView
      <3>2. [NoView EXCEPT !.pc = "jobs"]
              = [pc |-> "jobs", student |-> "none", jobs |-> <<>>, views |-> <<>>]
        BY DEF NoView
      <3>3. [[pc |-> "jobs", student |-> "none", jobs |-> <<>>, views |-> <<>>] EXCEPT !.student = s]
              = [pc |-> "jobs", student |-> s, jobs |-> <<>>, views |-> <<>>]
        OBVIOUS
      <3> QED
        BY <3>1, <3>2, <3>3
    <2>4. \E s : \E pc \in {"idle", "jobs"} :
            viewer' = [pc |-> pc, student |-> s, jobs |-> <<>>, views |-> <<>>]
      BY <2>2, <2>3 DEF NoView
    <2>5. ViewerOK'
      BY <2>4 DEF ViewerOK, IsViewer
    <2> QED
      BY <1>2, <2>1, <2>5 DEF ViewsInv
  <1>6. CASE UNCHANGED viewsVars
    <2>1. /\ UNCHANGED <<ledgerVars, created, rows>> /\ UNCHANGED viewer
          /\ UNCHANGED <<status, payload>>
      BY <1>6 DEF viewsVars, ledgerVars
    <2>2. Lasts
      BY <2>1 DEF Lasts, Existing
    <2> QED
      BY <1>2, <2>1, <2>2, ViewerLasts DEF ViewsInv
  <1> QED
    BY <1>1, <1>3, <1>4, <1>5, <1>6 DEF ViewsNext

\* The theorem behind ViewIsConsistent: whatever the engine, a login or the archive does
\* between the two statements of a view, no done or failed job is shown with operations
\* pending, no cancelled one with a verdict, and none half settled.
THEOREM ViewsHangTogether == ViewsSpec => []ViewIsConsistent
  <1>1. ViewsInit => ViewsInv
    BY ViewsStart
  <1>2. ViewsInv /\ [ViewsNext]_viewsVars => ViewsInv'
    BY ViewsStep
  <1>3. ViewsInv => ViewIsConsistent
    BY DEF ViewsInv, ViewerOK, ShownView, InOrder, ViewIsConsistent, Finished
  <1> QED
    BY <1>1, <1>2, <1>3, PTL DEF ViewsSpec

-----------------------------------------------------------------------------
(* Types, and the ledger that the views are read from.                      *)

\* What the ledger and the view keep besides ViewsInv.
ViewsTypes ==
  /\ begun \subseteq Jobs /\ audited \subseteq Jobs /\ sent \subseteq Jobs
  /\ created \in [Jobs -> 0..LastMoment]
  /\ viewer.pc \in {"idle", "jobs", "audits", "shown"}

\* Neither the ledger nor a view disturbs them.
LEMMA ViewsTypesKept ==
  ASSUME ViewsInv, ViewsTypes, [ViewsNext]_viewsVars
  PROVE  ViewsTypes'
  <1>1. LastMoment \in Nat /\ IsViewer
    BY ViewsAssumption DEF ViewsInv, ViewerOK
  <1>2. CASE WriteSide
    <2>1. ASSUME NEW j \in Jobs, NEW p \in Payloads, AcceptJob(j, p) PROVE ViewsTypes'
      <3>1. /\ UNCHANGED <<begun, audited, sent, viewer>>
            /\ \E t \in 0..LastMoment : created' = [created EXCEPT ![j] = t]
        BY <2>1 DEF AcceptJob, Ledger!Accept
      <3> QED
        BY <3>1 DEF ViewsTypes
    <2>2. ASSUME NEW j \in Jobs, InsertPending(j) \/ Finalize(j) \/ ArchiveRows(j) PROVE ViewsTypes'
      <3>1. /\ UNCHANGED <<begun, sent, created, viewer>>
            /\ audited' \in {audited, audited \cup {j}}
        BY <2>2 DEF InsertPending, Finalize, ArchiveRows, ledgerVars, Ledger!Audit,
                    Ledger!Complete, Ledger!Fail
      <3> QED
        BY <3>1 DEF ViewsTypes
    <2>3. ASSUME NEW j \in Jobs, Ledger!Begin(j) \/ Ledger!Send(j), UNCHANGED <<created, viewer>>
          PROVE  ViewsTypes'
      BY <2>3 DEF Ledger!Begin, Ledger!Send, ViewsTypes
    <2>4. ASSUME NEW S, NEW s, Ledger!Withdraw(S, s), UNCHANGED <<created, viewer>>
          PROVE  ViewsTypes'
      BY <2>4 DEF Ledger!Withdraw, ViewsTypes
    <2> QED
      BY <1>2, <2>1, <2>2, <2>3, <2>4 DEF WriteSide
  <1>3. CASE (\E s \in Students : AskJobs(s)) \/ LoadJobs \/ LoadAudits \/ CloseView
    <2>1. UNCHANGED <<begun, audited, sent, created>>
      BY <1>3 DEF AskJobs, LoadJobs, LoadAudits, CloseView, ledgerVars
    <2>2. NoView.pc = "idle" /\ \A s : [NoView EXCEPT !.pc = "jobs", !.student = s].pc = "jobs"
      BY DEF NoView
    <2>3. /\ \A l : [viewer EXCEPT !.pc = "audits", !.jobs = l].pc = "audits"
          /\ \A l : [viewer EXCEPT !.pc = "shown", !.views = l].pc = "shown"
      BY <1>1 DEF IsViewer
    <2>4. \/ viewer' = NoView \/ \E s : viewer' = [NoView EXCEPT !.pc = "jobs", !.student = s]
          \/ \E l : viewer' = [viewer EXCEPT !.pc = "audits", !.jobs = l]
          \/ \E l : viewer' = [viewer EXCEPT !.pc = "shown", !.views = l]
      BY <1>3 DEF AskJobs, LoadJobs, LoadAudits, CloseView
    <2> HIDE DEF NoView
    <2>5. viewer'.pc \in {"idle", "jobs", "audits", "shown"}
      <3>1. CASE viewer' = NoView
        BY <2>2, <3>1
      <3>2. CASE \E s : viewer' = [NoView EXCEPT !.pc = "jobs", !.student = s]
        <4>1. PICK s : viewer' = [NoView EXCEPT !.pc = "jobs", !.student = s]
          BY <3>2
        <4>2. viewer'.pc = [NoView EXCEPT !.pc = "jobs", !.student = s].pc
          BY <4>1
        <4> QED
          BY <2>2, <4>2
      <3>3. CASE \E l : viewer' = [viewer EXCEPT !.pc = "audits", !.jobs = l]
        <4>1. PICK l : viewer' = [viewer EXCEPT !.pc = "audits", !.jobs = l]
          BY <3>3
        <4>2. viewer'.pc = [viewer EXCEPT !.pc = "audits", !.jobs = l].pc
          BY <4>1
        <4> QED
          BY <2>3, <4>2
      <3>4. CASE \E l : viewer' = [viewer EXCEPT !.pc = "shown", !.views = l]
        <4>1. PICK l : viewer' = [viewer EXCEPT !.pc = "shown", !.views = l]
          BY <3>4
        <4>2. viewer'.pc = [viewer EXCEPT !.pc = "shown", !.views = l].pc
          BY <4>1
        <4> QED
          BY <2>3, <4>2
      <3> QED
        BY <2>4, <3>1, <3>2, <3>3, <3>4
    <2> QED
      BY <2>1, <2>5 DEF ViewsTypes
  <1>4. CASE UNCHANGED viewsVars
    BY <1>4 DEF viewsVars, ledgerVars, ViewsTypes
  <1> QED
    BY <1>2, <1>3, <1>4 DEF ViewsNext

\* The audit rows of a job are those of its batch or none at all, at every moment a
\* view may read them.
THEOREM ViewsTyped == ViewsSpec => []ViewsTypeOK
  <1>1. ViewsInit => ViewsInv /\ ViewsTypes
    <2> SUFFICES ASSUME ViewsInit PROVE ViewsTypes
      BY ViewsStart
    <2>1. begun = {} /\ audited = {} /\ sent = {} /\ created = [j \in Jobs |-> 0] /\ viewer = NoView
      BY DEF ViewsInit, Ledger!Init
    <2>2. created \in [Jobs -> 0..LastMoment]
      BY <2>1, ViewsAssumption
    <2> QED
      BY <2>1, <2>2 DEF ViewsTypes, NoView
  <1>2. ViewsInv /\ ViewsTypes /\ [ViewsNext]_viewsVars => ViewsInv' /\ ViewsTypes'
    BY ViewsStep, ViewsTypesKept
  <1>3. ViewsInv /\ ViewsTypes => ViewsTypeOK
    BY DEF ViewsInv, LedgerOK, RowsOK, JobRowsOK, ViewsTypes, ViewsTypeOK
  <1> QED
    BY <1>1, <1>2, <1>3, PTL DEF ViewsSpec

\* The ledger that a view is read from is WriteLedger's: audit rows, the archive and
\* the views themselves add nothing to what may happen to a job.
THEOREM ViewsReadTheLedger == ViewsSpec => Ledger!Spec
  <1>1. ViewsInit => Ledger!Init
    BY DEF ViewsInit
  <1>2. [ViewsNext]_viewsVars => [Ledger!Next]_(Ledger!vars)
    <2> SUFFICES ASSUME [ViewsNext]_viewsVars PROVE Ledger!Next \/ UNCHANGED Ledger!vars
      OBVIOUS
    <2>1. ASSUME NEW j \in Jobs, NEW p \in Payloads, AcceptJob(j, p) PROVE Ledger!Next
      BY <2>1 DEF AcceptJob, Ledger!Next
    <2>2. ASSUME NEW j \in Jobs, InsertPending(j) PROVE Ledger!Next
      BY <2>2 DEF InsertPending, Ledger!Next
    <2>3. ASSUME NEW j \in Jobs, Finalize(j) PROVE Ledger!Next \/ UNCHANGED Ledger!vars
      BY <2>3 DEF Finalize, Ledger!Next, Ledger!vars, ledgerVars
    <2>4. ASSUME NEW j \in Jobs, ArchiveRows(j) PROVE UNCHANGED Ledger!vars
      BY <2>4 DEF ArchiveRows, Ledger!vars, ledgerVars
    <2>5. CASE \/ \E j \in Jobs : Ledger!Begin(j) \/ Ledger!Send(j)
               \/ \E S \in SUBSET Jobs, s \in {"cancelled", "session_superseded"} :
                    Ledger!Withdraw(S, s)
      BY <2>5 DEF Ledger!Next
    <2>6. CASE (\E s \in Students : AskJobs(s)) \/ LoadJobs \/ LoadAudits \/ CloseView
      BY <2>6 DEF AskJobs, LoadJobs, LoadAudits, CloseView, ledgerVars, Ledger!vars
    <2>7. CASE UNCHANGED viewsVars
      BY <2>7 DEF viewsVars, ledgerVars, Ledger!vars
    <2> QED
      BY <2>1, <2>2, <2>3, <2>4, <2>5, <2>6, <2>7 DEF ViewsNext, WriteSide
  <1> QED
    BY <1>1, <1>2, PTL DEF ViewsSpec, Ledger!Spec

=============================================================================
