---------------------------- MODULE PreviewBatch ----------------------------
(***************************************************************************)
(* POST /api/write/preview and what becomes of an accepted batch: the page *)
(* that opens or closes writing, the checks of every operation, the        *)
(* canonical form that names the batch, the rows of the school's form that *)
(* are previewed, and those that the worker builds later from a form it    *)
(* fetches again.                                                          *)
(*                                                                         *)
(* A course is a number, which stands for its code and for the order of    *)
(* codes.  However a request names a course, it means that number.         *)
(***************************************************************************)
EXTENDS Naturals, Sequences, SequencesExt

CONSTANTS
  Courses,     \* numbers of courses
  Coded,       \* those that have a code
  Times,       \* periods of each course in the week
  Legible,     \* those whose periods the page of selections states legibly
  Requests,    \* operations a request may hold
  MaxOps,      \* bound: operations of a request
  Pages,       \* what the school may show
  Catalogs,    \* bound: catalogs to preview against
  Selections,  \* bound: snapshots of selections to preview against
  Limit,       \* MAX_OPS_BY_VARIANT
  MaxPriority, \* 20
  FirstRound   \* FEATURE_FIRST_ROUND_WRITE

None == 0

ASSUME PreviewAssumption ==
  /\ Courses \subseteq Nat \ {0} /\ Coded \subseteq Courses /\ Legible \subseteq Courses
  /\ \A o \in Requests : o.course \in Courses /\ o.action \in {"+", "-"}
  /\ \A p \in Pages : p.rows \in Nat
  /\ Catalogs \subseteq SUBSET Courses /\ Selections \subseteq SUBSET Courses

VARIABLES
  batch,     \* the operations of the request, in its order
  catalog,   \* courses of the semester's catalog
  selected,  \* courses of the latest synced selections
  page,      \* what the school shows
  answer,    \* of the preview: its kind, the verdicts, the rows
  record,    \* what the confirm token entitles to
  posted     \* rows the worker posts

vars == <<batch, catalog, selected, page, answer, record, posted>>

NoAnswer == [kind |-> "none", verdicts |-> <<>>, rows |-> <<>>]

Init ==
  /\ batch = <<>> /\ answer = NoAnswer /\ record = <<>> /\ posted = <<>>
  /\ catalog \in Catalogs /\ selected \in Selections /\ page \in Pages

-----------------------------------------------------------------------------
(* The stage.                                                               *)

\* The first write link decides; only without one is anything else looked at.
ParseStudfun(p) ==
  CASE p.links # <<>> -> Head(p.links)
    [] p.links = <<>> /\ p.withdrawal -> "withdrawal"
    [] p.links = <<>> /\ ~p.withdrawal /\ (p.heading \/ p.readonly) -> "closed"
    [] OTHER -> "unknown"

IsWritable(p) ==
  /\ ~p.prestep
  /\ \/ ParseStudfun(p) = "ssform"
     \/ ParseStudfun(p) = "stage5" /\ FirstRound

-----------------------------------------------------------------------------
(* The checks of a request.                                                 *)

Positions(b) == 1..Len(b)
Adds(b) == {i \in Positions(b) : b[i].action = "+"}
Drops(b) == Positions(b) \ Adds(b)

\* Shape: adds with priorities in range and all different, drops with none.
ValidateOps(b, variant) ==
  /\ \A i \in Adds(b) : b[i].priority \in 1..MaxPriority
  /\ \A i, j \in Adds(b) : b[i].priority = b[j].priority => i = j
  /\ \A i \in Drops(b) : b[i].priority = None
  /\ Len(b) <= Limit[variant]

\* A course without a code, or that is not in the catalog, has no number to
\* submit; a drop is also known from the selections.
ResolveCourse(o) ==
  IF /\ o.course \in Coded
     /\ o.course \in catalog \/ (o.action = "-" /\ o.course \in selected)
    THEN o.course
    ELSE None

TypedConfirmation(b) ==
  \A i \in Drops(b) : ResolveCourse(b[i]) # None => b[i].typed

\* Courses that share a period.
IsConflict(c, d) == Times[c] \cap Times[d] # {}

\* Selections whose periods are known: from the catalog, or else from the page.
SelectionTargets == {c \in selected : c \in catalog \/ c \in Legible}

\* Codes that are both added and dropped; an unresolved operation has none.
MixedCodes(b) ==
  {ResolveCourse(b[i]) : i \in Adds(b)} \cap {ResolveCourse(b[i]) : i \in Drops(b)}

\* The first check that fails, with the adds that are staged.
Judge(o, b, staged) ==
  LET clashes == \E c \in SelectionTargets \cup staged : IsConflict(o.course, c)
  IN CASE ResolveCourse(o) = None -> "no_code"
       [] ResolveCourse(o) \in MixedCodes(b) \ {None} -> "mixed"
       [] OTHER -> IF o.action = "-" /\ o.course \notin selected THEN "not_selected"
                   ELSE IF o.action = "+" /\ clashes THEN "conflict"
                   ELSE "ok"

\* Wrong variant of EvaluateOps: an add is compared with the selections only.
EvaluateOpsUnstaged(b) == [i \in Positions(b) |-> Judge(b[i], b, {})]

\* In the order of the request; an add is compared with the selections and with
\* those adds before it that passed.
EvaluateOps(b) ==
  LET verdict[i \in Positions(b)] ==
        Judge(b[i], b, {b[j].course : j \in {k \in Adds(b) : k < i /\ verdict[k] = "ok"}})
  IN [i \in Positions(b) |-> verdict[i]]

-----------------------------------------------------------------------------
(* The canonical form and the rows.                                         *)

Key(o) == <<o.action, o.course>>

\* Drops before adds, then by code.
Before(o, q) ==
  \/ o.action = "-" /\ q.action = "+"
  \/ o.action = q.action /\ o.course < q.course

\* The first operation of each key survives.
Survivors(b) ==
  {[action |-> b[i].action, course |-> b[i].course, priority |-> b[i].priority] :
     i \in {j \in Positions(b) : \A k \in 1..(j - 1) : Key(b[k]) # Key(b[j])}}

\* Wrong variant of CanonicalOps: collapsed, but left in the order of the request.
CanonicalOpsUnsorted(b) ==
  LET firsts == SelectSeq([i \in Positions(b) |-> i],
                          LAMBDA j : \A k \in 1..(j - 1) : Key(b[k]) # Key(b[j]))
  IN [n \in 1..Len(firsts) |->
       [action |-> b[firsts[n]].action, course |-> b[firsts[n]].course,
        priority |-> b[firsts[n]].priority]]

CanonicalOps(b) ==
  CHOOSE s \in SetToSeqs(Survivors(b)) : \A i, j \in DOMAIN s : i < j => Before(s[i], s[j])

RestRow == [D |-> "N", C |-> None, T |-> None]

\* Wrong variant of BuildRows: the last row is always a row of rest.
BuildRowsShort(ops, rows) ==
  [r \in 1..rows |->
    IF r <= Len(ops) /\ r < rows
      THEN [D |-> ops[r].action, C |-> ops[r].course, T |-> ops[r].priority]
      ELSE RestRow]

\* As many rows as the form has: the operations, then rows of rest; a drop has
\* no priority.
BuildRows(ops, rows) ==
  [r \in 1..rows |->
    IF r <= Len(ops)
      THEN [D |-> ops[r].action, C |-> ops[r].course, T |-> ops[r].priority]
      ELSE RestRow]

\* More operations than rows is an error, not a shorter form.
RowsFit(ops, rows) == Len(ops) <= rows

-----------------------------------------------------------------------------
(* The world, the preview, the worker.                                      *)

\* A request is put together.
AddOp(o) ==
  /\ answer = NoAnswer /\ Len(batch) < MaxOps
  /\ batch' = Append(batch, o)
  /\ UNCHANGED <<catalog, selected, page, answer, record, posted>>

\* The school turns a page: another stage, or another number of rows.
TurnPage ==
  /\ page' \in Pages
  /\ UNCHANGED <<batch, catalog, selected, answer, record, posted>>

Refuse(kind) == answer' = [NoAnswer EXCEPT !.kind = kind] /\ UNCHANGED record

\* The page, the shape, the semester, the typed confirmations, the verdicts and
\* the rows, in this order; only a full pass mints a token.
PostWritePreview ==
  /\ answer = NoAnswer /\ batch # <<>>
  /\ LET variant == ParseStudfun(page)
         verdicts == EvaluateOps(batch)
         ops == CanonicalOps(batch)
     IN \/ Refuse("unavailable")
        \/ page.bounce /\ Refuse("expired")
        \/ ~page.bounce /\ ~IsWritable(page) /\ Refuse("stage_unavailable")
        \/ /\ ~page.bounce /\ IsWritable(page)
           /\ IF ~(ValidateOps(batch, variant) /\ TypedConfirmation(batch))
                THEN Refuse("bad_request")
              ELSE IF \E i \in Positions(batch) : verdicts[i] # "ok"
                THEN /\ answer' = [kind |-> "blocked", verdicts |-> verdicts, rows |-> <<>>]
                     /\ UNCHANGED record
              ELSE IF ~RowsFit(ops, page.rows) THEN Refuse("error")
              ELSE /\ answer' = [kind |-> "ok", verdicts |-> verdicts,
                                 rows |-> BuildRows(ops, page.rows)]
                   /\ record' = ops
  /\ UNCHANGED <<batch, catalog, selected, page, posted>>

\* Wrong variant of ExecuteTicket: what does not fit is cut off.
ExecuteTicketCuts ==
  /\ record # <<>> /\ posted = <<>>
  /\ ~page.bounce
  /\ posted' = BuildRows(record, page.rows)
  /\ record' = <<>>
  /\ UNCHANGED <<batch, catalog, selected, page, answer>>

\* The worker's form is the one the school shows by then.
ExecuteTicket ==
  /\ record # <<>> /\ posted = <<>>
  /\ ~page.bounce /\ RowsFit(record, page.rows)
  /\ posted' = BuildRows(record, page.rows)
  /\ record' = <<>>
  /\ UNCHANGED <<batch, catalog, selected, page, answer>>

\* A bounce, too few rows, or a token that is never spent.
TicketFails ==
  /\ record # <<>>
  /\ record' = <<>>
  /\ UNCHANGED <<batch, catalog, selected, page, answer, posted>>

\* The student goes on with a new request; a sync and an ingest come between.
StartOver ==
  /\ answer # NoAnswer /\ record = <<>>
  /\ batch' = <<>> /\ answer' = NoAnswer /\ posted' = <<>>
  /\ selected' \in Selections /\ catalog' \in Catalogs
  /\ UNCHANGED <<page, record>>

Next ==
  \/ \E o \in Requests : AddOp(o)
  \/ TurnPage \/ PostWritePreview \/ ExecuteTicket \/ TicketFails \/ StartOver

Spec == Init /\ [][Next]_vars

-----------------------------------------------------------------------------
(* Properties.                                                              *)

\* The timetable a batch asks for: every course can be submitted, none is added
\* and dropped, only selected courses are dropped, and no added course shares a
\* period with another added one or with a selected one whose periods are known.
FitsTimetable(b) ==
  /\ \A i \in Positions(b) : ResolveCourse(b[i]) # None
  /\ \A i \in Adds(b), j \in Drops(b) : b[i].course # b[j].course
  /\ \A i \in Drops(b) : b[i].course \in selected
  /\ \A i, j \in Adds(b) : i # j => ~IsConflict(b[i].course, b[j].course)
  /\ \A i \in Adds(b) : \A c \in SelectionTargets : ~IsConflict(b[i].course, c)

\* The checks go through the batch one operation after the other and forget those
\* that were blocked; all the same a batch passes just when it fits the timetable
\* as a whole, in whatever order it is written.
PassesWhenItFits ==
  /\ answer.kind = "ok" => FitsTimetable(batch)
  /\ answer.kind = "blocked" => ~FitsTimetable(batch)

Rearranged(b) ==
  {[i \in Positions(b) |-> b[p[i]]] :
     p \in {q \in [Positions(b) -> Positions(b)] :
              \A i, j \in Positions(b) : q[i] = q[j] => i = j}}

\* The token and the hash of an accepted batch do not depend on the order in which
\* it was written, as long as it does not add a course twice.
OneNamePerBatch ==
  /\ answer.kind = "ok"
  /\ \A i, j \in Adds(batch) : batch[i].course = batch[j].course => i = j
  => \A b \in Rearranged(batch) : CanonicalOps(b) = CanonicalOps(batch)

Asked(rows) == {r \in 1..Len(rows) : rows[r].D # "N"}

\* The previewed rows say what was asked for: each operation once, with a priority
\* asked for that course, none twice, and nothing else.
RowsSayTheBatch ==
  answer.kind = "ok" =>
    LET rows == answer.rows IN
    /\ {<<rows[r].D, rows[r].C>> : r \in Asked(rows)} = {Key(batch[i]) : i \in Positions(batch)}
    /\ \A r \in Asked(rows) : \E i \in Positions(batch) :
         Key(batch[i]) = <<rows[r].D, rows[r].C>> /\ batch[i].priority = rows[r].T
    /\ \A r, s \in Asked(rows) :
         r # s => rows[r].C # rows[s].C /\ (rows[r].T # rows[s].T \/ rows[r].T = None)

\* What the worker posts is what was previewed, row for row, even into a form that
\* has grown or shrunk since; if it no longer fits, nothing is posted.
PostedAsPreviewed ==
  posted # <<>> =>
    /\ Asked(posted) = Asked(answer.rows)
    /\ \A r \in Asked(posted) : posted[r] = answer.rows[r]

=============================================================================
