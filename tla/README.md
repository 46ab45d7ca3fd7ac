# nsysu_crs: a TLA+ model of the course-selection relay

`nsysu_crs` relays a university's course-selection system (selcrs) to a web
front end.  A student's password is never kept: a login buys a *jar* of school
cookies that is parked in Redis under a short site session; a batch of adds and
drops is previewed, confirmed with the password, written to a ledger, and
posted to the school by one background worker.  The school is slow, has no API,
answers in prose, and is the only source of truth.  What is hard in this code is
what happens *between* its steps: two tabs, two logins, a dead worker, an answer
that never came, a lock that ran out.

This directory holds TLA+ modules of those parts, TLC configurations that
model-check them on small instances, and TLAPS proofs of what matters most for
every instance.  `PROJECT.json` is the index: runs, mutants (one plausible bug
per checked property, which TLC must notice), the map from definitions to source
lines, hazards, findings and theorems.

    tlc -workers 2 -config MCWriteEngine_batch.cfg MCWriteEngine
    tlapm WriteEngine_proofs.tla

All paths below are relative to `src/`; `app/` stands for `backend/app/`.

## 1. Inventory

Processes: Caddy serves the front end and forwards `/api` to one FastAPI
process (`app/main.py`); `python -m app.worker` runs two loops in one anyio task
group, the catalog scheduler and the write queue.  They share Postgres
(`write_jobs`, `write_audit`, `courses`, `ingest_runs`, `students`) and Redis
(sessions, jars, breaker, lockout, confirm tokens, tickets, locks, caches).
Handlers are coroutines: they interleave at every `await`.

| component | state | operations | what is hard | correct means |
|---|---|---|---|---|
| **write ledger and engine** `app/write/{engine,jobs,queue,queue_loop,reconcile,response,confirm}.py`, `app/api/write_submit.py` | job and audit rows, list `writeq:jobs`, confirm tokens, jars | preview, submit, enqueue, claim, audit, form, POST, reconcile, finalize, dwell sweep, supersede by login | two submits at once; commit and RPUSH apart; login during execution; lost answers and two retry layers; worker death at every step | one active job per batch, audit before POST, nothing posted after a seen supersede, terminal means final, success is never invented, every job ends |
| **school breaker** `app/auth/breaker.py` | Redis keys streak, opened_at, probe | admit, record_classified, record_unknown | three keys written by separate commands from every handler; keys expire on their own | the streak forgets at a coherent answer; the gate frees itself; a recovered school closes it |
| **site sessions, jars, fan-out** `app/auth/sessions.py`, `app/api/{auth,deps,selections,stage,stu_enroll,write_submit}.py` | session key, three jar families with hard-cap anchors, synced snapshots | login, background fan-out, resolve and refresh, load and touch, sync, re-login at submit, logout | late writers after a logout; sliding TTL against hard TTL | a logged-out session never resolves; the hard cap wins; residue expires |
| **catalog ingest and scheduler** `app/catalog/{ingest,persist,schedule,meta}.py` | Redis lock, `ingest_runs`, `courses`, unique (year_sem, code) | acquire, open run, fetch, read, replace, close run, release | round outlives its lock; crash at any step; read-decide-write; a course gains or loses its code | table is one scrape; ledger tells the truth; the lock frees itself |
| **login lockout and IP limit** `app/auth/lockout.py`, `app/api/auth.py` | per-student failure log, its lock, hourly bucket per IP | count, check before the school call, record after it | check and record apart; log, lifetime and lock are separate commands | both budgets are kept up to the handlers under way; a lock is fixed; a full log never goes without one |
| **school adapter** `app/selcrs/{http,sso2,endpoints,jar}.py` | two semaphores per process | GET/POST with back-off, captcha lane, SSO2 verdict | slots held through back-off; the lane nested in the gate; cancellation in a line | no slot is lost or doubled; every request ends |
| **captcha loop** `app/solver/` | none | image, OCR, page, bounded retry | a code outlives its image | a posted code is fresh; stops |
| **stu_enroll login chain** `app/stuenroll/{login,pipeline,relay}.py` | none (jars go to the session) | two login legs under one deadline, handoffs and redirects | the deadline falls anywhere; one leg fails | one leg's failure costs only that leg; the breaker hears of the school only |
| **preview, canonical form, payload** `app/write/{canonical,preview,payload,timetable,catalog}.py`, `app/api/write.py` | none | pure functions around the engine | order, duplicates, limits, a form that changed since | same batch, same name; what is posted is what was previewed |
| **submit reply** `app/write/response.py` | none | page to one outcome per operation | codes found as substrings, words of other operations, failure sections | an operation is judged by its own words |
| stage detection `app/stage/` | none | page to stage, writable policy | precedence of markers | never writable by mistake |
| **selections and grades sync, live pages** `app/selections/`, `app/stuenroll/{parse,store}.py`, `app/api/{selections,stu_enroll}.py` | a snapshot per session and record | parse, join, diff, store, announce; pages passed on | overlapping syncs, lost responses, rows that lose their code | who applies the announcements knows the snapshot |
| **schedule, semester and outline caches** `app/schedule/`, `app/api/{schedule,courses,catalog}.py`, `app/semester.py` | cached pages, a refresh lock, read-through keys | stale-while-refresh, read through | the lock has no token | what passes as fresh is recent; one refresh at a time while none outlives its lock |
| **audit lifecycle** `app/write/audit_lifecycle.py` | hot rows, files, ledger of archives | archive, expire | crash between file and row, overlapping runs | nothing lost before its time; the ledger is honest |
| **catalog listing** `app/catalog/query.py`, `app/api/courses.py` | none | filter, sort, page, count | pages between ingests | the pages are the listing, each course once |
| **ingest cadence** `app/catalog/schedule.py` | the loop's next wake and the lock's lifetime | peak days, fire, coalesce | a round that died; a change of cadence | few fires are lost |
| **job views** `app/api/write_jobs.py` | none | list and single job | two statements while the engine settles | what a view shows suits how the job ended |
| **calendar export** `app/export/ics.py` | none | rows to weekly events | first weekday, end of semester, names of events | the calendar is the timetable |
| ops, health, logs, config, CSRF, write probe | none | reads, comparisons, wiring | - | - |
| front end `frontend/src` | batch composer, polling, auth state | - | - | - |
| capture kit, scripts, deploy | - | manual tools, compose | - | - |

How they interact.  A login checks lockout and breaker, verifies the password at
the school, then *supersedes the student's active jobs in one transaction* and
only afterwards creates the session and parks the jar (`app/api/auth.py`,
`app/auth/students.py`); a background task buys the other two jar families.  A
preview needs a live jar and mints a confirm token whose key is the batch hash.
A submit spends the token, verifies the password again, parks a fresh jar under
the session, inserts the job row, and pushes a ticket.  The worker pops the
ticket, claims the row, writes the audit rows, loads the jar, and talks to the
school.  Everything that talks to the school feeds the breaker.

`PROJECT.json` lists under "hazards" what can go wrong in each of these and a
test would hardly reach, at its line, with the property that covers it.

## 2. Modules

| module | stands for | checked by | proofs |
|---|---|---|---|
| `WriteLedger` | abstract: what a ledger of writes promises | `submits` (as the property `ImplementsLedger`) | `WriteEngine_proofs`, `JobViews_proofs` |
| `WriteEngine` | submit handler, ledger rows, ticket list, worker, logins, sweep | `submits`, `batch`, `settles`, `fifo`, `adapter_retry`, `reconcile` | `WriteEngine_proofs` |
| `SchoolBreaker` | breaker, one Redis command per action | `components` | `Components_proofs` |
| `LoginThrottle` | hourly bucket, failure log and lock of one student's logins | `components` | `Components_proofs` |
| `SiteSession` | one site session in Redis and everything in flight on it | `session` | `SiteSession_proofs` |
| `PreviewBatch` | preview checks, canonical form, form rows, the worker's second form | `preview` | `PreviewBatch_proofs` |
| `CatalogIngest` | rounds of several runners under one lock, page by page | `rounds`, `raises` | `CatalogIngest_proofs` |
| `SchoolGate` | `request_school`: both semaphores, their lines, back-off, cancellation | `traffic` | `SchoolTraffic_proofs` |
| `EnrollLogin` | extends `SchoolGate`: the login fan-out and its two legs | `traffic` | `SchoolTraffic_proofs` |
| `SchoolTraffic` | extends `EnrollLogin`: all requests of one process, with the captcha loop | `traffic` | `SchoolTraffic_proofs` |
| `SchoolCaches` | schedule blob under its lock, read-through keys | `components` | `Components_proofs` |
| `RecordSync` | selections and grades sync, live pages | `components` | `Components_proofs` |
| `AuditArchive` | runs of the audit lifecycle | `components` | `Components_proofs` |
| `CatalogListing` | one student turning the pages of a listing while ingests commit | `components` | `Components_proofs` |
| `IngestCadence` | when the scheduler fires, and the lifetime of the lock | `components` | `Components_proofs` |
| `JobViews` | a student reading jobs while the ledger moves | `components` | `JobViews_proofs` |
| `CalendarExport` | rows to events, and events to days | `components` | `Components_proofs` |
| `SubmitReply` | a reply page to outcomes | `components` | `Components_proofs` |
| `Components` | the ten components around the write path, side by side | `components` | `Components_proofs` |

Each `MC*` module extends its component and gives values to the constants that
are functions (who owns which session and batch, which operations a batch has,
which scrapes a round may see); the `.cfg` gives the rest.  Definitions whose
comment starts with "Wrong variant of" are the mutants: no specification uses
them; they state the bug that the property next to them excludes.

How the modules compose.  `WriteEngine` implements `WriteLedger`, and `JobViews`
uses the actions of `WriteLedger` as its writers, so that what a student is shown
is checked against everything the engine can do; that the engine itself can take
the writers' place is a theorem (`EngineFeedsViews`).  `SchoolTraffic` extends
`EnrollLogin` extends `SchoolGate`: taking, handing over and giving back a slot
are operators on the record `net` that each caller conjoins with its own step.
`Components` extends ten components that do not share state; a behaviour is of
one of them, chosen at the start (`focus`), and the others rest, so an instance
is their sum and not their product.  `MCComponents` gives it the constants.

### WriteEngine

One action is the code between two awaits that touch shared state.

| variable | code |
|---|---|
| `status`, `payload`, `stale`, `started` | `write_jobs.status`, `.payload_hash`, `created_at` older than `WRITE_QUEUE_DWELL_MAX`, `.started_at` |
| `audit` | `write_audit.outcome` per job and operation |
| `queue` | the Redis list `writeq:jobs`, left to right |
| `token` | confirm tokens; the token of a batch is deterministic, so the batch names it |
| `session`, `jar` | site sessions by phase; those for which `load_selcrs` returns a jar |
| `req` | each submit handler: where it is, under which session, for which batch |
| `w` | locals of `execute_ticket`: position, attempt of the engine, attempt of the adapter, what the school said, outcomes to record |
| `applied`, `posted` | the school: operations applied for a job; jobs for which a POST left |

Submit is `ConsumeConfirm` (GETDEL; another student's token is spent and
refused), `Reauth` (breaker, password, jar parked), `FindActiveJob`,
`CreateQueuedJob` or `DuplicateActiveJob` (the partial unique index decides, not
the lookup), `EnqueueTicket`; `RequestEnds` is any early end of the handler, also
a process that dies between commit and RPUSH.  The worker is `PopTicket`,
`ClaimJob` (guarded update; refused when stale or not queued), `ReadUnclaimed`
and `DwellCancel` for a refused claim, `InsertPendingAudits` and `AuditDown`,
`LoadJar`, `CheckBeforeForm`, `GetForm`, `CheckBeforePost`, then one of `PostLost`,
`PostBounced`, `PostAnswered`, perhaps `MaybeReconcile`, and `Finalize`, which
writes all outcomes and the guarded status in one transaction.  `WorkerCrash` can
follow any step: the ticket is gone, the rows stay.  `LoginSupersede` and
`LoginOpen` are the two halves of a login; `SweepOnce` is the dwell sweep, which
runs in the consumer loop and so only between two tickets.

The school (`SchoolApplies`, `HonestReply`) applies any subset of what it has not
applied yet, also when the answer is lost.  Its answer is honest: "ok" only for
what it applied, a refusal or duplicate-like words otherwise, and any of it may
be unattributable.  `ParsedOutcome` and `VerdictOf` are what
`parse_submit_response` and the engine make of an answer; `ReconcileUpdates` is
`reconcile_updates`, with the two vocabularies of course identifiers (`NoOf` for
the 課別代號 of the batch, `CodeOf` for the 課程代碼 of slt_result) kept apart as
the code keeps them.

`WriteLedger` forgets tickets, sessions, transport and the worker's position.
`WriteEngine` implements it under `begun <- jobs with started_at`, `audited <-
jobs with audit rows`, `sent <- posted`.

### SchoolBreaker

`streak`/`streakTtl`, `open`/`age` and `probe` are the three keys and their
lifetimes in ticks, `caller` the handlers, each between two commands.  `Admit`,
`TryProbe` are `admit`; `RecordClassified` is the one DEL; `IncrStreak`,
`ExpireStreak`, `StampOpen`, `DeleteProbe` are `record_unknown`.  `FanOut` enters
without asking, as the login fan-out does.  `CallerDies` is a process death or a
Redis failure between two commands.  INCR leaves an existing lifetime alone and
gives a new key none; EXPIRE on a deleted key does nothing.  `calm` is the moment
from which the school answers coherently; `unknowns` is a ghost.

### LoginThrottle

`log` is the sorted set, its entries told apart by the ticks they have left
(expired ones stay until pruned, and ZCARD counts them); `keyTtl`, `lock` and
`hits` are the other keys.  `Hit` is INCR and the comparison, `IsLocked` the
breaker and the lock, `LoginSso2` the school's verdict, `Prune` to `SetLock` the
commands of `record_credential_fail`.  A handler may be at the school for any
number of ticks, and die anywhere.  The login fan-out, the session and the
breaker's bookkeeping of the same handler are in `EnrollLogin`, `SiteSession` and
`SchoolBreaker`.

### SiteSession

Every key is named by the session id, so one session is enough.  `site`, `jar`,
`anchor`, `snap` are its keys; `login`, `fanout`, `h` what is in flight.  An
endpoint is a record saying what it does with the keys (`op`, `family`, `keeps`);
endpoints that do the same are one record.  `Refresh` is EXPIRE on the session
key, `LoadAnchor`/`DropJar`/`LoadJar`/`TouchJar` are the loading of a jar,
`ReadSchool`/`StoreSnapshot` the page and the snapshot, `Reauth*` the submit's own
login, `Logout` one DELETE of all keys.  `SiteLapses` needs an idle week, which no
handler in flight lasts.

### PreviewBatch

`batch` is the request in its order; `catalog`, `selected` and `page` are what the
handler reads; `answer` and `record` what it returns and parks under the token;
`posted` the rows the worker builds.  `ParseStudfun` and `IsWritable` are the
ladder of page markers and the policy, `ValidateOps` and `TypedConfirmation` the
typed 400s, `Judge` and `EvaluateOps` the verdicts with the staged adds,
`CanonicalOps` sort and collapse, `BuildRows`/`RowsFit` the D/C/T rows against
MAX_ADD.  `PostWritePreview` puts them in the handler's order.  `ExecuteTicket` is
the part of the engine that fills the form again: `TurnPage` may have changed it.
A course is its number; that each selection carries its 課別代號, and that the
hidden fields around the rows are replayed, is taken as given.

### CatalogIngest

`lock` (owner and ticks left), `courses`, `ledger` (`ingest_runs` in order),
`run` (each runner).  `Acquire`/`Release` are SET NX EX and compare-and-delete;
`OpenIngestRun`, `FetchAll`, `ReadExisting`, `ReplaceYearSemSnapshot`,
`CloseIngestRun` the round.  A site is the sequence of pages a round is served:
the marker "of N pages", the links, the table rows with their number of cells and
the cells that do not parse; `Accept` is what the code keeps of a row, `Broken`
when it gives the round up, and `FetchAll` walks the announced pages in order.
`ReadExisting` and the flush are separate actions:
what is updated, inserted and deleted is decided from a read that another round
may overtake; then the flush meets a missing row or the unique index (`Conflict`)
and rolls back.  A row is identified by its school code or, without one, by its
fallback key (`Identity`); the first of two wins (`Distinct`).  `Crash` leaves the
lock behind; `Tick` lets it run out under a round (`over`).  `committed`, `last`
and `mixed` are ghosts.

### SchoolGate, EnrollLogin, SchoolTraffic

`net` holds both semaphores (free slots and waiting lines, first come first
served, a freed slot handed to the head of its line, as in anyio) and the request
of each task.  `Ask` takes the captcha lane on top of the gate; `Answers`,
`TransportFails`, `BackoffEnds`, `ClientBreaks` are the attempts of
`_request_with_backoff`, all under the slot; `Cancel` takes a task out of a line or
off the wire.  A leg (`leg`) is a page, images read by OCR, posted forms and a
chain of handoffs and redirects (`Walk`), each with its budget; `Deadline` cancels
what is under way, `CutOff` ends a leg at its await, `Join` collects the results map,
`Store` parks and feeds family by family, and `StoreFails` may break it anywhere.
`run` is `CaptchaLoop.run_page` of a catalog run in the worker.  `process` chooses
the API process (legs and a handler) or the worker (catalog run and write queue):
the semaphores are module variables, so the two never share a slot.  `fresh` is the
set of tasks that hold a code of the last image the school issued for their jar.

### SchoolCaches

`blob` is the schedule (age of its stamp and of the page it was read from),
`mutex` the refresh lock, `key` a read-through key with its lifetime, `reader` the
handlers, each between two commands.  `LoadCached` decides to serve or refresh,
`AcquireRefreshLock` is SET NX EX, `SaveCached` stamps and stores, and
`ReleaseRefreshLock` the DEL without a token.  `LookUp`/`ReadSource`/`PutKey` are the read-through
caches (semester, departments, outlines), which have no lock.  `over` says that a
refresh outlived its lock, which the code allows and the properties condition on.

### RecordSync

`page` is what the school holds of a student, `snap` the snapshot of the session,
`syncer` the handlers.  `AdmitRead` is jar and breaker; `OpenRelay`,
`ParseLivePage`, `FindReceipt`, `ParseRecord` the page; `RecordRefusal` and
`RecordAnswer` what the breaker is told; `LoadSnapshot`, `StoreRecord`,
`SyncResponse` are separate commands.  `BaseItem` keeps of a row what its number of
cells says it has, `AttachCourseMatches` joins with the catalog, `DiffItems`
compares identities.  The ghost `told` is the student's belief: the announcements,
applied in order.

### AuditArchive

`hot` is `write_audit` with ages, `disk` the files, `ledger`
`write_audit_archive_meta`, `pass` the runs.  `HotRows`, `WriteArchive` (a run may
die with a part of the file written), `CommitArchive` (ledger row and DELETE in one
transaction), `ExpiredMetas`, `Unlink` file by file, `CommitNotes`; `PassDies`
anywhere.

### CatalogListing, IngestCadence, JobViews, CalendarExport, SubmitReply

`CatalogListing`: `Matches` is what the filters compare, newest semester, count and
slice are three statements between which an ingest may replace `table`; `whole`
says none did.  `IngestCadence`: a cron expression is a set of ticks of a day;
`Plan` picks the next fire and the lifetime of the
lock, two intervals of the day's cadence; `TickFires` takes the lock or coalesces,
`RoundEnds`, `RoundDies` and `WorkerStarts` are what may follow.  `JobViews`: job rows and audit rows are read in two statements;
the ledger moves by `WriteLedger`'s actions, which carry the rows along.
What a view may show depends on how the job ended.  Done or failed: every operation
settled.  Cancelled: operations pending if the worker died after it had inserted them,
else no row.  Superseded while it ran: operations pending until the engine, which goes
on, records them all at once; pending for good if it died.  The archive may take the
rows of any of them.
`CalendarExport`: a request builds events, and the property unfolds them day by
day.  `SubmitReply`: a page is a sequence of pieces, each about some courses in some
words; `ParseSubmitResponse` finds rows, lines and failure sections as the code
does, by substring.

## 3. Runs

Bounds are constants of the `.cfg`.

| run | instance | distinct states | what it shows |
|---|---|---|---|
| `submits` | 2 jobs, 2 handlers, 2 students with a session each, 1 batch of 1 operation, no retries | 734k | `TypeOK`; `OneActivePerPayload`; `TicketFindsRow`; `OwnJarOnly`; `ImplementsLedger` |
| `batch` | 1 job, 1 handler, 2 logins of its student, batch of an add and a drop, 2 engine retries, 2 adapter attempts | 1.15M | `AuditedBeforePosted`; `SupersededNeverPosted`; `SettledTogether`; `SuccessIsReal`; `LedgerIsFinal` |
| `settles` | 2 jobs, 1 handler, 1 session; fair | 97k | `EveryJobSettles` |
| `session` | 2 requests in flight, fan-out over 2 families, both TTLs 2; fair | 465k | `LogoutIsFinal`; `SlidingCannotOutliveHard`; `ResidueExpires` |
| `preview` | batches of up to 3 of 15 operations over 5 courses, 8 pages, 2 catalogs, 3 snapshots | 880k | `PassesWhenItFits`; `OneNamePerBatch`; `RowsSayTheBatch`; `PostedAsPreviewed` |
| `rounds` | 2 runners, 3 rounds, 6 sites of 1 or 2 pages, lock of 1 tick; fair | 332k | `TypeOK`; `OneRoundAtATime`; `TableIsLastScrape`; `LedgerIsTrue`; `LockFrees` |
| `traffic` | 2 legs, a handler, a catalog run; gate of 1, 2 attempts, 2 images, 2 codes, 1 handoff, 1 redirect; fair | 219k | `TrafficTypeOK`; `GateHolds`; `CodeIsFresh`; `FinishedLegKept`; `EveryRequestEnds` |
| `components` | ten components, one at a time; fair for the breaker | 445k | `ComponentsTypeOK`; `StreakIsConsecutive`; `Recovers`; `LockoutHolds`; `CachesHold`; `ToldIsStored`; `ArchiveHolds`; `ListingIsWhole`; `SkipsAreFew`; `ViewIsConsistent`; `CalendarIsExact`; `ReplyIsOwn` |

Why these bounds.  `submits` needs two handlers for a race, two job rows for a
resubmit after a supersede, and two students for anything to cross; retries do
not matter to it and are off.  `batch` needs an add and a drop (they reconcile
oppositely), two logins (one before the preview, one that supersedes), two
adapter attempts inside more than one engine attempt, so that both kinds of
resend and their mixture occur.  `settles` has a second job because a job that
never settles could hide behind a queue that is busy.  In `preview` the five
courses are two that share a period, one without periods, one without a code and
one that left the catalog, and three operations give an add that is blocked and one
after it that is not; every malformed operation occurs once.  In `session` both
TTLs are 2, so a jar touched once outlives a tick and the cap can come first; two
handlers give one that parks and one that loads.  In `rounds` three rounds are
needed for two that overlap and a third that reads what they left; the three rows
are one course with its code, the same code with other content, and the course
without a code under the same key; the sites are an empty one, two rows of one
course over two pages with a banner and a lacking cell, a page without a marker,
one with an odd description, a missing link, and one that is not understood.
`traffic` has a gate of one slot instead of two, so that every request contends and
a leaked slot blocks for ever; two attempts give one back-off to be cancelled in.

In `components`: the breaker has threshold 2, so a streak exists below it, two
handlers, one that resets and one that records, and a recovery longer than the
gate, as in the settings.  The login bound of `BudgetHolds` is reached, not only
kept (one less, or without the term for deaths, fails), so the instance has the
worst overlap in it; with more logins under way than the limit has failures
`FullLogLocks` fails and is not claimed.  The caches have two readers, one of which
may take two ticks, longer than the lock.  The sync has three pages of rows that
change content, lose their code, come and go.  The archive has two rows, files and
runs, so that runs overlap at every step and a file of a dead run is in the way.
The listing has five courses on pages of two, three with one name.  The cadence
has an off-peak day before a peak day, of 24 ticks each, and rounds longer than
three peak intervals.  The views have two jobs of one moment and of different ones, a
batch of two operations.  The calendar's semester begins in the middle of a week;
its rows have gaps, several days, an unknown period and none.  The reply pages have
up to three of twelve pieces about three courses, the code of one inside the code of
another.

Symmetry (jobs and handlers are interchangeable) is used in `submits` only; its
properties are safety properties and none distinguishes them.  The engine runs
switch deadlock checking off: job ids and sessions are used up and the system
then really rests.  So does `components`, where the days of the cadence and the
deaths of logins are bounded.  The others check it.

### Findings

Four further runs check a sentence of the repository that the code does not keep;
TLC's counterexample is the explanation.

* `fifo` - `writeq:jobs` is called a FIFO list, but tickets are RPUSHed and
  BRPOPped: the newest is executed first (`PopsOldestFirst`).
* `adapter_retry` - an operation that was resent and is then answered "already
  selected" shall never be recorded as failed; the engine counts its own resends,
  not those of the adapter below it (`RetriedDuplicateNeverFailed`).
* `reconcile` - the reconcile shall settle an operation to its real state; it
  looks up a 課別代號 among 課程代碼, finds nothing, and settles every retried
  add as failed (`ReconciledToRealState`).
* `raises` - `run_ingest` never raises for database failures; opening and closing
  the ledger row are outside its `try` (`RunIngestNeverRaises`), and the exception
  ends the task group the write queue runs in.

Smaller disagreements, met while modelling and without a run of their own: the
unknown of a failed probe re-stamps nothing when the streak has expired meanwhile
(`app/auth/breaker.py:15`); a sync in flight at the logout writes a snapshot that
outlives the session (`app/auth/sessions.py:103`; `ResidueExpires` says what does
hold); two adds of one course without periods, with different priorities, have a
canonical string that depends on their order (`app/write/canonical.py:101`; hence
the condition in `OneNamePerBatch`); the previewed payload differs from the posted
one in `step`, which only the engine takes from the form's script, and in
parameters only the preview merges in (`app/write/payload.py:32`), while the rows
are the same (`PostedAsPreviewed`); after a lock the log need not be "a clean
window" (`app/auth/lockout.py:10`): logins that were under way filled it.

Of the legs and the gate: the fan-out "never blocks past timeout_s"
(`app/stuenroll/pipeline.py:76`), but an OCR thread is waited for; the
semaphores are "shared across" callers (`app/selcrs/http.py:57`), but each process
has its own, so the school may see four requests at a time; captcha images of the
legs use the plain lane; an unknown login answer "feeds the breaker"
(`app/stuenroll/classify.py:11`), but the leg then counts as logged in.  Of the caches: "a peer is already fetching; never
pile onto the school" (`app/api/schedule.py:123`) holds while no refresh outlives
its lock of 30 s, which is deleted without a token; the stamp of the cached
schedule may then go back.  Of the syncs: "duplicates collapse"
(`app/selections/store.py:53`) in the sets that are compared, while the lists keep
both rows; overlapping syncs may store in either order; a receipt that is not
found (`app/api/stu_enroll.py:358`) tells the breaker nothing.  Of the cadence: "at
most ceil(EX/interval)-1 ticks skipped" (`app/catalog/schedule.py:14`) counts one; a
command that is late makes it two, and a lock taken off-peak holds up every fire
of a peak day that begins meanwhile (hence the condition in `SkipsAreFew`).  Of the
reply: it is "keyed by course code" (`app/write/response.py:35`), but a code inside
another code finds the other course's row (hence `Unmistakable`); a failure marker
that contains a success marker is never read as a failure.  Of the listing: "stable
order so pages never drift" (`app/catalog/query.py:209`) holds between ingests.  Of
the ingest: a last page without rows drops its courses from an ok round.  Of the
job views: the words for a superseded job say it was cancelled although its POST
may be out, and its operations may be shown as pending; so may those of a job that
was cancelled because its worker died, until the archive takes the rows
(`ViewIsConsistent` says what does hold).  Of the calendar: ids repeated in a request
give events of one name.  Files of archive runs that died are never removed.

## 4. Fairness

* Engine: weak fairness of `PopTicket`, `ExecuteTicket`, `SweepOnce` and of a
  job's ageing.  BRPOP has a timeout of two seconds, so the loop comes round
  whether there are tickets or not; the sweep runs in it every thirty seconds and
  at startup; compose restarts a worker that died (`restart: unless-stopped`).
  Nothing is assumed of handlers, logins or the school.  A worker that died in
  every execution would consume one ticket each time, so it still comes to rest.
* Breaker: time passes and a handler that started goes on (every school request
  has a timeout); "handlers go on" includes that requests keep arriving, without
  which an open breaker has no occasion to close.
* Traffic: every wait is bounded by the code: a request on the wire by its timeout,
  a back-off by its sleep, OCR by returning, the fan-out by its deadline.  Nothing
  is assumed of the lines; that they are served in order is what makes
  `EveryRequestEnds` true.
* Session: only the clock and the TTLs.
* Ingest: the clock, and that a round that is not killed goes on.

## 5. Proofs

TLC looks at the instances above; the theorems hold for every value of the
constants under the named assumptions of the modules, which TLC evaluates in the
runs of their modules.  They state kinds of values only: who owns a session, that a
batch is not empty and belongs to one student, that lifetimes are positive, that
the rows of a page, the pages of a form and the fires of a day are what their
comments say (`SitesAssumption`, `PreviewAssumption`, `CadenceAssumption`), and that
handlers, courses and table rows are finitely many where they are counted or listed.

    tlapm SortedSets.tla
    for m in *_proofs.tla; do tlapm $m; done

`Components_proofs` holds a section for each component of the `components` run, except
the job views, and takes some ten minutes; `WriteEngine_proofs` takes three, the other
modules one or two.

### The write path

* `WriteEngine_proofs`: `TypeCorrect`, one step per action; then the inductive
  invariant.  None of the safety invariants is inductive by
  itself, since what the worker is about to write depends on what it has in
  hand.  `IInv` adds to `TypeOK` and the properties:
  `RowsOK` (a row that was not claimed has no audit rows and no POST; a posted
  one is audited), `WorkerOK` (by phase: from the claim to the end the claimed row
  can only be running or superseded, so that a second execution cannot have
  begun; before the audit there are no rows, from then on they are all pending;
  before the POST the job is not posted; what is about to be finalized is a
  verdict for every operation of a posted job or one reason for all, and
  `session_superseded` only when the job was seen superseded before the POST),
  `TicketsOK` and `RequestsOK` (a ticket or handler past the insert has a row, and
  session and batch belong to one student).  The order of the two status reads and
  of the POST enters through `WorkerOK`; the unique index through
  `OneActivePerPayload`; commit-before-push through `TicketsOK`.  From
  `InvariantHolds` follow `AuditSafe`, `SupersedeSafe`, `UniqueSafe`, `SettleSafe`,
  `OwnerSafe`, `TicketSafe`.  The proof sorts actions by what they leave alone
  (lemmas `...Kept`, `AsideSafe`, `RequestOnlySafe`, `MoveOnSafe`) and then
  treats each action that writes.  `SuccessReal` needs an invariant of its own,
  `RealInv` (what the worker is about to record is as real as what is recorded),
  and the assumption `VocabulariesDiffer`: the batch carries the 課別代號 and
  `slt_result` lists the 課程代碼, which `app/write/reconcile.py:52` looks up in one
  another, so no add is found.  With one vocabulary an add the student had selected
  before would be settled as a success of this job.  The next section has the
  abstract ledger: `LedgerFinal` (no terminal status, no recorded
  verdict is ever overwritten; `Finalize` meets only pending rows) and
  `LedgerImplemented`, the refinement.  `StepKinds` reduces every step to one of a
  few kinds, and each kind is a step of `WriteLedger` or a stutter (`LedgerSteps`,
  which also says which step, of which job, and what else it writes).
* How often a job is posted.  `SuccessReal` and the ledger say what is recorded,
  not how often the school is asked.  `CountedSpec` adds two history variables to the
  engine, the claims of each job and the POSTs that left for it.  `PostsBounded`: a job
  is claimed at most once, whatever becomes of its ticket and its worker, and no more
  than (`TransportRetries` + 1) x `AdapterAttempts` POSTs leave for it.  `CountInv`
  places the count by the worker's position: what left so far is at most what the
  attempts before this one could send.  The bound is reached: of the instance of
  `batch`, TLC shows a job with six POSTs.
* The engine under the eyes of a student.  `JobViews` has its ledger move by the
  actions of `WriteLedger`.  `WatchedSpec` puts the engine there: its rows, its audit
  outcomes as rows per operation (`AuditRows`), `created_at` stamped when a row is
  inserted, an archive that may take the rows of a job as soon as it is over, and the
  reader's two statements between any two steps of these.
  `EngineFeedsViews` shows this to be a behaviour of `JobViews`, by `LedgerSteps` and the
  rows each writing step leaves (`InsertsPending`, `FinalizeSettles`,
  `FailsWithoutRows`), and `EngineShowsWhole` concludes that `ViewIsConsistent` holds of
  what the engine shows.  The hypothesis `ViewsFit` is about kinds: ids are numbers, a
  page of jobs is not empty, and the stored order of a batch lists its operations.  A job
  may be archived while the engine is still to record its outcomes, if a login ended it
  meanwhile; the engine then finds none of its rows.  `FiledWereThere` is the invariant this adds to `IInv`: what
  is archived had been inserted.
* `PreviewBatch_proofs`, for batches, catalogs and forms of any size:
  `PreviewPassesWhenItFits` (the verdicts, given one after another with the adds
  staged so far, agree with a condition on the batch as a set: `VerdictsAgree` finds
  the first position at which the two would differ), `PreviewHasOneName` (two
  enumerations of one set in a strict total order are equal: `OneEnumeration`
  of `SortedSets`), `PreviewSaysTheBatch`, `PreviewIsPosted`.  `PreviewInv` ties
  answer, token record and posted rows to the batch while the page turns between
  the preview and the worker's own form.

### Sessions, logins, the breaker

* `SiteSession_proofs`: `SessionLogoutIsFinal`: after a logout the login is over,
  so nobody creates the key again, and refreshing never does.
  `SessionKeysHaveLifetimes` and `SessionCapsDoNotSlide` are the safety halves of
  `ResidueExpires` and `SlidingCannotOutliveHard`: every key is written with a
  lifetime whoever is late, and a hard cap only runs down until a password is
  verified again.  `LifetimesInv` says which handlers can be at a step that parks.
* Breaker: `BreakerTyped`, `StreakForgets`.  The link between a
  key and its lifetime is part of the type invariant, because EXPIRE and the
  clock preserve it only together.
* Lockout: `LockFixed` (only a handler that finds no lock writes one),
  `HourlyBudgetHolds` (what is admitted was counted first), and `LockoutKept`, that
  is `LockoutHolds` for any number of simultaneous logins.  `LogInv` counts handlers
  by the command they are at (`Under`) against the entries that live at least k more
  ticks (`AtLeast`): `NothingLost` says that a refusal missing in the log is with a
  handler that has yet to write it or died over it, and that entries which would
  vanish with their key are covered by handlers about to renew its lifetime;
  `UnlockedIsShort` and `RefusedIsShort` bound the log while there is no lock;
  `LockOutlives` bounds what was written past a lock's check.

### The school's side

* `SchoolTraffic_proofs`: `TrafficInv` is `Balance` (slots free plus slots held is the
  capacity, lines injective and exactly the waiting, for `net` *with some tasks taken
  out*), `CallsKnown`, `FanKnown`, `ProcessKnown` and the types.  One lemma for each
  operator on `net` (`EntersGate`, `LeavesLane`, `GivesBack`, `Cancels`, ...) moves
  `Balance` from one set of tasks to another, so that a step which gives a slot to the
  head of a line and moves the giver on is two of them.  Hence
  `TrafficGateHolds`, `TrafficTypes`, `TrafficCodeIsFresh`, `TrafficFinishedLegKept`.
  `TrafficFirstComeFirstServed` is the safety half of `EveryRequestEnds`: in both lines
  the tasks ahead of one that waits only become fewer.  One step may give back both
  slots, set off the next holder of the lane and send it to the end of the other line, or
  take a cancelled task out of the middle, so the order is followed from one of these
  moves to the next (`OrderJoins`), with the newcomers of each.
* `CatalogIngest_proofs`: `RoundsDoNotOverlap`: a round that has not outlived its
  lock owns it; this survives the expiry (which marks the round `over` in the same
  tick), the crash and the compare-and-delete.  `IngestInv` is `TypeOK` with
  `RunsKnown` (every round writes a ledger row of its own, committed just when its
  transaction was), `SeenKnown` (a primary key stands for one identity in the table
  and in what any round read, which is what a late flush needs) and `TableKnown`
  (while no rounds were mixed, a round about to write has read the table as it is,
  and the table is the last scrape without duplicates).  `DistinctRows` is about the
  dedup, `TableWritten` about one flush.  Hence `IngestTypes`, `TableFollowsScrape`,
  `LedgerTellsTruth`.
* Cadence: `FewSkips` is `SkipsAreFew` for expressions that fire at even
  intervals (`EvenlySpaced`), as both defaults do (`app/config.py:37`).  `CadenceInv`
  remembers the moment at which the lock was taken.  For an uneven expression the
  bound is false, since two intervals at the taking may hold more
  fires; the run's expressions are even too.
* Caches: `CachesServeRecent`.  `MutexOK` says that the time a refresh has run and the
  time its lock has left add up, until one outlives its lock.

### What a student is shown

* Syncs: `AnnouncedIsStored`.  `ToldOK` follows one sync at a time through
  its diff: what it compares with is what is stored.
* Job views: `ViewsHangTogether`.  A row read may be late about a job but never ahead
  of it, and what it says of a job that is done, failed or cancelled still stands
  (`ReadRow`); `RowsOK`, about the writers, makes the audit rows read later suit it:
  settled together, and no verdict before a job is done, failed or superseded.  The writers' steps are reduced to `Lasts`.  `ViewsReadTheLedger`: rows,
  archive and reader add no step to the ledger.  `ViewsTyped`: there are audit rows for
  all operations of a job or for none.
* Reply: `RepliesAreOwn`; calendar: `CalendarsAreExact`; listing:
  `ListingsAreWhole`: the state is small, and the work is in the lemmas about the
  operators: what a search finds is in the part searched (`FragmentMentions`), the
  weekly events are the days they unfold to (`FallsOn`), an interval of a listing
  followed by the next slice is a longer interval (`PagesJoin`).
* Audit lifecycle: `AuditKept`, that is `ArchiveHolds` for any number of rows,
  files and overlapping runs.  `ArchiveInv` adds to it: a run about to commit has a
  complete file that no other run and no ledger row knows of (`CommitOK`,
  `NamesDiffer`); what a run unlinks or is about to mark is listed and over its
  time, and what it will mark is gone (`UnlinkOK`); a listed file is complete until
  its time is over (`ListedOK`).  One lemma per action; `KeptStays` is the one
  argument all of them use for the rows that are in files.

### The components side by side

`EachAsAlone`: every behaviour of `Components` is, for each of the ten, one of its
own specification (without the breaker's fairness), so what is proved of a
component alone holds of it there.  Each has its type invariant proved, from the
inductive invariant that strengthens it (`BreakerTyped`, `ThrottleTyped`,
`CachesTyped`, `SyncTyped`, `ArchiveTyped`, `ListingTyped`, `CadenceTyped`,
`ViewsTyped`, `CalendarTyped`, `RepliesTyped`), and `ComponentsTyped` puts them
together.  A type may carry a fact: `ThrottleTyped` that the failure log has a
lifetime just while it has members, `CadenceTyped`, also for uneven expressions, that
a lock is never taken without a lifetime.

`SortedSets` has what several of these need about data: a set of numbers has a
least one; a finite set under a strict total order has one enumeration in that
order; it suffices to compare neighbours.  Where a definition computes by recursion
over positions or levels (`EvaluateOps`, `AtLeast`), the proofs go by the least
counterexample instead of an induction.

Proving corrected the models in places where the instances had hidden something.
`LockoutHolds` does not hold in general: with more logins at once than the limit has
failures (three, and a limit of one, is TLC's counterexample) the log may be full
without a lock, so it says how many logins there may be.  `Wanted`, the reference
definition of a listing, was incomplete, and two arms of a CASE in `ExportPlanIcs`
overlapped where the code has an order.  Each kept every run's verdict.

### Only model-checked

* The liveness properties (`EveryJobSettles`, `Recovers`, `SlidingCannotOutliveHard`,
  `ResidueExpires`, `LockFrees`, `EveryRequestEnds`): TLAPS proves nothing
  about fairness and ENABLED.  Of two of them the safety half is proved (sessions,
  above).
* What the `raises`, `fifo`, `adapter_retry` and `reconcile` runs refute.

## 6. Assumptions and abstractions

* A payload is a name; its canonical segments decode (they were encoded by the
  same code), so the engine's branch for corrupt segments is not reached.
* A commit that raises did not happen.  A Postgres failure inside
  `execute_ticket` outside the two places that handle it is `WorkerCrash`.
* Redis keeps the list across a worker death; losing Redis is losing tickets,
  which is `RequestEnds` at "enqueue" and `WorkerCrash` in the model.
* There is one worker, as in `deploy/docker-compose.yml`.
* In `WriteEngine` a preview is reduced to what it leaves behind (a token); its
  checks are `PreviewBatch`.
* In `LoginThrottle` the five commands of one recording fall into one tick, which
  is minutes long; the counters of new locks, which only monitoring reads, are
  left out.
* Time is in ticks, and only where an order of expiries matters.  Lifetimes of a
  week only have to end.
* A snapshot's contents, a page's layout, log lines and wording are left out.

## 7. Not modelled, and what is left

* The SSO2 verdict (`app/selcrs/sso2.py`), charset detection, the serialisation of
  jars, the outline parser and the finding of markers in HTML: text to value,
  without state; the repository's fixtures cover them, and the models take the
  values they tell apart.
* CSRF and the write probe: a comparison, and an endpoint that does nothing.
* Operations, health, logging, configuration: reads and wiring.
* The front end: to the server a browser is any sequence of requests, which is how
  the modules treat it; what the pages keep is layout and a draft of a batch, judged
  again by the preview.
* The capture kit and the maintenance scripts, apart from the entry point of the
  audit lifecycle: manual tools for recording fixtures.
* Deployment: read for the number of workers and the restart policy.

Every safety property of a passing run is a theorem, `SkipsAreFew` for expressions that
fire at even intervals and `SuccessIsReal` under `VocabulariesDiffer`.  What would be worth
stating next lies between the modules: the fan-out of `EnrollLogin` as the writer of the
jars in `SiteSession`, and the runs of `AuditArchive` as the archive behind the engine,
which in `WatchedSpec` is one step.
