----------------------------- MODULE WriteLedger -----------------------------
(***************************************************************************)
(* What the write ledger promises, whoever interleaves with whom: a job is *)
(* accepted only while no job of the same batch is active, is begun once   *)
(* and only from the queue, reaches the school only after it was begun and *)
(* audited, and is settled once.  It abstracts from tickets, sessions,     *)
(* tokens, transport and the worker's steps; module WriteEngine implements *)
(* it.                                                                     *)
(***************************************************************************)
CONSTANTS Jobs, Payloads

VARIABLES
  status,   \* as in write_jobs
  payload,
  begun,    \* jobs the engine has claimed
  audited,  \* jobs that have their write_audit rows
  sent      \* jobs the school has been contacted for with a POST

vars == <<status, payload, begun, audited, sent>>

Active   == {"queued", "running"}
Terminal == {"done", "failed", "cancelled", "session_superseded"}

Init ==
  /\ status = [j \in Jobs |-> "absent"]
  /\ payload \in [Jobs -> Payloads]
  /\ begun = {} /\ audited = {} /\ sent = {}

Accept(j, p) ==
  /\ status[j] = "absent"
  /\ \A k \in Jobs : status[k] \in Active => payload[k] # p
  /\ status' = [status EXCEPT ![j] = "queued"]
  /\ payload' = [payload EXCEPT ![j] = p]
  /\ UNCHANGED <<begun, audited, sent>>

Begin(j) ==
  /\ status[j] = "queued"
  /\ status' = [status EXCEPT ![j] = "running"]
  /\ begun' = begun \cup {j}
  /\ UNCHANGED <<payload, audited, sent>>

Audit(j) ==
  /\ j \in begun \ sent
  /\ audited' = audited \cup {j}
  /\ UNCHANGED <<status, payload, begun, sent>>

Send(j) ==
  /\ j \in begun \cap audited
  /\ status[j] \in {"running", "session_superseded"}
  /\ sent' = sent \cup {j}
  /\ UNCHANGED <<status, payload, begun, audited>>

\* Executed end to end.
Complete(j) ==
  /\ status[j] = "running" /\ j \in sent
  /\ status' = [status EXCEPT ![j] = "done"]
  /\ UNCHANGED <<payload, begun, audited, sent>>

Fail(j) ==
  /\ status[j] = "running"
  /\ status' = [status EXCEPT ![j] = "failed"]
  /\ UNCHANGED <<payload, begun, audited, sent>>

\* A login or the dwell guard ends any set of active jobs at once.
Withdraw(S, s) ==
  /\ S # {} /\ \A j \in S : status[j] \in Active
  /\ status' = [j \in Jobs |-> IF j \in S THEN s ELSE status[j]]
  /\ UNCHANGED <<payload, begun, audited, sent>>

Next ==
  \/ \E j \in Jobs, p \in Payloads : Accept(j, p)
  \/ \E j \in Jobs : Begin(j) \/ Audit(j) \/ Send(j) \/ Complete(j) \/ Fail(j)
  \/ \E S \in SUBSET Jobs, s \in {"cancelled", "session_superseded"} : Withdraw(S, s)

Spec == Init /\ [][Next]_vars
=============================================================================
