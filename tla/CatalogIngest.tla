----------------------------- MODULE CatalogIngest -----------------------------
(***************************************************************************)
(* The catalog ingest: the worker's scheduler and the manual script that   *)
(* run rounds under one Redis lock with an expiry, the ingest_runs ledger, *)
(* and the transaction that replaces the semester's courses.  A round may  *)
(* outlive its lock, or die at any step with the lock still held.          *)
(*                                                                         *)
(* What the school serves page by page is a site; the scrape of it is the  *)
(* accepted rows over all announced pages, each at its page and place.  A  *)
(* row is told apart by its identity (school code, or the fallback key of  *)
(* a row without one) and by its content, which the row itself stands for. *)
(***************************************************************************)
EXTENDS Naturals, Sequences, FiniteSets, Functions

CONSTANTS
  Runners,    \* processes that run rounds: the worker, the script
  Rows,       \* catalog rows that can be scraped
  CodeOf,     \* row -> school code, or NoCode
  KeyOf,      \* row -> fallback key
  NoCode,
  Sites,      \* what a round may be served: pages, each with its marker "of N pages"
              \* (0: none), the pages it links to, and its table rows, each with its
              \* number of cells, the cells that do not parse, and the catalog row
  CourseIds,  \* bound: primary keys there are for courses
  MaxRuns,    \* bound: rounds
  LockTtl,    \* EX of the lock, in ticks
  NoRunner

ASSUME IngestAssumption ==
  /\ LockTtl \in Nat \ {0} /\ MaxRuns \in Nat 
  /\ NoRunner \notin Runners
  /\ DOMAIN CodeOf = Rows /\ DOMAIN KeyOf = Rows

-----------------------------------------------------------------------------
(* A scrape.                                                                *)

MinCells == 25

\* Change marker, grade, credit, term, compulsory, and the four counts.
CheckedCells == {0, 5} \cup 8..14

Accept(tr) == tr.bad \cap CheckedCells = {}

\* The places of a page's course rows, and of those that are accepted.
Candidates(page) == {i \in DOMAIN page.trs : page.trs[i].cells >= MinCells}

ParseCatalogPage(page) == {i \in Candidates(page) : Accept(page.trs[i])}

\* The link to the page, or another link with its number replaced.
ExtractPageLink(page, n) == IF page.links = {} THEN 0 ELSE n

\* Only the first page says how many there are.
Announced(site) == IF site[1].total = 0 THEN 1 ELSE site[1].total

ASSUME SitesAssumption ==
  \A site \in Sites :
    /\ site # <<>>
    /\ Announced(site) \in Nat
    /\ \A k \in 1..Announced(site) :
         site[k].trs \in Seq([cells : Nat, bad : SUBSET Nat, row : Rows])

\* <<page, place>> of every accepted row.
FetchAll(site) ==
  UNION {{k} \X ParseCatalogPage(site[k]) : k \in 1..Announced(site)}

\* A page on the way has no link, or there were rows and none was understood.
Broken(site) ==
  \/ \E k \in 1..(Announced(site) - 1) : ExtractPageLink(site[k], k + 1) = 0
  \/ /\ FetchAll(site) = {}
     /\ \E k \in 1..Announced(site) : Candidates(site[k]) # {}

-----------------------------------------------------------------------------
VARIABLES
  lock,      \* ingest:lock: whose token it holds, ticks until it expires
  courses,   \* the semester's rows of the courses table
  issued,    \* primary keys handed out: random, so never twice
  ledger,    \* ingest_runs, in the order of started_at
  run,       \* the runners
  committed, \* ghost: rounds whose transaction committed
  last,      \* ghost: the site whose rows were committed last
  mixed      \* ghost: two rounds have been in progress at the same time

vars == <<lock, courses, issued, ledger, run, committed, last, mixed>>

Free == [owner |-> NoRunner, ttl |-> 0]

\* A lock that was taken without an expiry.
Forever == LockTtl + 1

Asleep == [pc |-> "sleep", run |-> 0, site |-> <<>>, seen |-> {}, over |-> FALSE]

Init ==
  /\ lock = Free /\ courses = {} /\ issued = {} /\ ledger = <<>>
  /\ run = [u \in Runners |-> Asleep]
  /\ committed = {} /\ last = <<>> /\ mixed = FALSE

InProgress(u) == run[u].pc \notin {"sleep", "dead"}

Goto(u, pc) == run' = [run EXCEPT ![u].pc = pc]

\* The round is over, and what it held in memory gone.
Leave(u, pc) == run' = [run EXCEPT ![u] = [Asleep EXCEPT !.pc = pc]]

\* The round failed: its ledger row is what is left to write.
Fail(u) == run' = [run EXCEPT ![u].pc = "close_failed", ![u].site = <<>>, ![u].seen = {}]

-----------------------------------------------------------------------------
(* The lock.                                                                *)

Started == Len(ledger) + Cardinality({u \in Runners : run[u].pc = "open"})

TakeLock(u, ttl) ==
  /\ run[u].pc = "sleep" /\ lock = Free /\ Started < MaxRuns
  /\ lock' = [owner |-> u, ttl |-> ttl]
  /\ run' = [run EXCEPT ![u] = [Asleep EXCEPT !.pc = "open"]]
  /\ mixed' = (mixed \/ \E v \in Runners : InProgress(v))
  /\ UNCHANGED <<courses, issued, ledger, committed, last>>

\* Wrong variant of Acquire: SET NX without EX.
AcquireNoExpiry(u) == TakeLock(u, Forever)

\* A tick fires and SET NX EX takes the lock; a held lock coalesces the tick.
Acquire(u) == TakeLock(u, LockTtl)

\* Wrong variant of Release: DEL without comparing the token.
ReleaseAny(u) ==
  /\ run[u].pc \in {"release", "raise"}
  /\ lock' = Free
  /\ Leave(u, IF run[u].pc = "raise" THEN "dead" ELSE "sleep")
  /\ UNCHANGED <<courses, issued, ledger, committed, last, mixed>>

\* Compare-and-delete, also when the round raised and ends the process.
Release(u) ==
  /\ run[u].pc \in {"release", "raise"}
  /\ lock' = IF lock.owner = u THEN Free ELSE lock
  /\ Leave(u, IF run[u].pc = "raise" THEN "dead" ELSE "sleep")
  /\ UNCHANGED <<courses, issued, ledger, committed, last, mixed>>

\* The process is killed: the lock stays until it expires.
Crash(u) ==
  /\ InProgress(u)
  /\ Leave(u, "dead")
  /\ UNCHANGED <<lock, courses, issued, ledger, committed, last, mixed>>

Restart(u) ==
  /\ run[u].pc = "dead"
  /\ run' = [run EXCEPT ![u] = Asleep]
  /\ UNCHANGED <<lock, courses, issued, ledger, committed, last, mixed>>

\* A round whose lock expires under it goes on without noticing.
Tick ==
  /\ lock' = CASE lock.ttl = 1 -> Free
               [] lock.ttl \in {0, Forever} -> lock
               [] OTHER -> [lock EXCEPT !.ttl = @ - 1]
  /\ run' = [u \in Runners |->
       IF lock.ttl = 1 /\ lock.owner = u /\ InProgress(u)
         THEN [run[u] EXCEPT !.over = TRUE] ELSE run[u]]
  /\ UNCHANGED <<courses, issued, ledger, committed, last, mixed>>

-----------------------------------------------------------------------------
(* A round.                                                                 *)

\* The ledger row, ok = false until proven otherwise.  Nothing catches a
\* database failure here.
OpenIngestRun(u) ==
  /\ run[u].pc = "open"
  /\ \/ /\ ledger' = Append(ledger, [ok |-> FALSE, closed |-> FALSE, rows |-> 0])
        /\ run' = [run EXCEPT ![u].pc = "fetch", ![u].run = Len(ledger) + 1]
     \/ Goto(u, "raise") /\ UNCHANGED ledger
  /\ UNCHANGED <<lock, courses, issued, committed, last, mixed>>

\* Discovery, the captcha loop for page 1, the links for the others: each request
\* may fail.
FetchPages(u) ==
  /\ run[u].pc = "fetch"
  /\ \/ \E site \in Sites :
          /\ ~Broken(site)
          /\ run' = [run EXCEPT ![u].pc = "read", ![u].site = site]
     \/ Fail(u)
  /\ UNCHANGED <<lock, courses, issued, ledger, committed, last, mixed>>

ReadExisting(u) ==
  /\ run[u].pc = "read"
  /\ \/ run' = [run EXCEPT ![u].pc = "replace", ![u].seen = courses]
     \/ Fail(u)
  /\ UNCHANGED <<lock, courses, issued, ledger, committed, last, mixed>>

Identity(r) ==
  IF CodeOf[r] = NoCode THEN <<"fb", KeyOf[r]>> ELSE <<"code", CodeOf[r]>>

RowAt(site, p) == site[p[1]].trs[p[2]].row

Earlier(p, q) == p[1] < q[1] \/ (p[1] = q[1] /\ p[2] < q[2])

\* The rows of a scrape without its duplicates: the first one wins.
Distinct(site) ==
  {RowAt(site, p) : p \in {p \in FetchAll(site) :
     \A q \in FetchAll(site) :
       Earlier(q, p) => Identity(RowAt(site, q)) # Identity(RowAt(site, p))}}

Identities(rows) == {Identity(r) : r \in rows}

Ids(cs) == {c.id : c \in cs}

\* The courses that are updated in place: one per identity that was seen
\* (which one, should there be two without a code, is up to the database).
Hits(seen, rows) ==
  LET matching == {c \in seen : Identity(c.row) \in Identities(rows)} IN
  {hit \in SUBSET matching :
     /\ Identities({c.row : c \in hit}) = Identities({c.row : c \in matching})
     /\ \A c, d \in hit : Identity(c.row) = Identity(d.row) => c = d}

\* Wrong variant of Vanished: rows without a code are never deleted.
VanishedCodedOnly(seen, rows) ==
  {c \in seen : CodeOf[c.row] # NoCode /\ Identity(c.row) \notin Identities(rows)}

Vanished(seen, rows) == {c \in seen : Identity(c.row) \notin Identities(rows)}

\* Wrong variant of Conflict: the table has no unique (year_sem, code).
ConflictIgnoresCodes(hit, novel) == ~(Ids(hit) \subseteq Ids(courses))

\* A course to update was deleted meanwhile, or a code to insert is there.
Conflict(hit, novel) ==
  \/ ~(Ids(hit) \subseteq Ids(courses))
  \/ \E r \in novel, c \in courses :
       CodeOf[r] # NoCode /\ CodeOf[c.row] = CodeOf[r]

\* The flush and commit of the transaction, all or nothing, with what was
\* decided from the courses read before.
ReplaceYearSemSnapshot(u) ==
  LET rows  == Distinct(run[u].site)
      seen  == run[u].seen
      novel == {r \in rows : Identity(r) \notin Identities({c.row : c \in seen})}
  IN
  /\ run[u].pc = "replace"
  /\ \/ Fail(u) /\ UNCHANGED <<courses, issued, committed, last>>
     \/ \E hit \in Hits(seen, rows) :
          /\ ~Conflict(hit, novel)
          /\ Injection(novel, CourseIds \ issued) # {}
          /\ LET fresh == CHOOSE f \in Injection(novel, CourseIds \ issued) : TRUE IN
             /\ issued' = issued \cup Range(fresh)
             /\ courses' =
               {c \in courses : c.id \notin Ids(hit) \cup Ids(Vanished(seen, rows))}
               \cup {[id |-> c.id,
                      row |-> CHOOSE r \in rows : Identity(r) = Identity(c.row)] : c \in hit}
               \cup {[id |-> fresh[r], row |-> r] : r \in novel}
          /\ committed' = committed \cup {run[u].run}
          /\ last' = run[u].site
          /\ run' = [run EXCEPT ![u].pc = "close_ok", ![u].seen = {}]
  /\ UNCHANGED <<lock, ledger, mixed>>

\* Wrong variant of CloseIngestRun: the accepted rows are counted, not the
\* stored ones.
CloseIngestRunCountsAll(u) ==
  /\ run[u].pc \in {"close_ok", "close_failed"}
  /\ LET ok == run[u].pc = "close_ok" IN
     \/ /\ ledger' = [ledger EXCEPT ![run[u].run] =
             [ok |-> ok, closed |-> TRUE,
              rows |-> IF ok THEN Cardinality(FetchAll(run[u].site)) ELSE 0]]
        /\ run' = [run EXCEPT ![u].pc = "release", ![u].site = <<>>]
     \/ Goto(u, "raise") /\ UNCHANGED ledger
  /\ UNCHANGED <<lock, courses, issued, committed, last, mixed>>

\* A transaction of its own, and nothing catches its failure.
CloseIngestRun(u) ==
  /\ run[u].pc \in {"close_ok", "close_failed"}
  /\ LET ok == run[u].pc = "close_ok" IN
     \/ /\ ledger' = [ledger EXCEPT ![run[u].run] =
             [ok |-> ok, closed |-> TRUE,
              rows |-> IF ok THEN Cardinality(Distinct(run[u].site)) ELSE 0]]
        /\ run' = [run EXCEPT ![u].pc = "release", ![u].site = <<>>]
     \/ Goto(u, "raise") /\ UNCHANGED ledger
  /\ UNCHANGED <<lock, courses, issued, committed, last, mixed>>

-----------------------------------------------------------------------------
RunIngest(u) ==
  \/ OpenIngestRun(u) \/ FetchPages(u) \/ ReadExisting(u)
  \/ ReplaceYearSemSnapshot(u) \/ CloseIngestRun(u)

Next ==
  \/ \E u \in Runners : Acquire(u) \/ RunIngest(u) \/ Release(u) \/ Crash(u) \/ Restart(u)
  \/ Tick

Spec == Init /\ [][Next]_vars

\* The clock runs; a round that is not killed goes on.
FairSpec ==
  /\ Spec /\ WF_vars(Tick)
  /\ \A u \in Runners : WF_vars(RunIngest(u) \/ Release(u))

\* latest_catalog_meta: the newest run, whatever its outcome.
LatestCatalogMeta == ledger[Len(ledger)]

-----------------------------------------------------------------------------
(* Properties.                                                              *)

Pcs == {"sleep", "open", "fetch", "read", "replace", "close_ok", "close_failed",
        "release", "raise", "dead"}

Courses == [id : CourseIds, row : Rows]

\* Values of their kinds; primary keys and codes are unique in the table.
TypeOK ==
  /\ lock \in [owner : Runners \cup {NoRunner}, ttl : 0..Forever]
  /\ courses \subseteq Courses
  /\ \A c, d \in courses :
       c.id = d.id \/ (CodeOf[c.row] # NoCode /\ CodeOf[c.row] = CodeOf[d.row]) => c = d
  /\ Ids(courses) \subseteq issued /\ issued \subseteq CourseIds
  /\ ledger \in Seq([ok : BOOLEAN, closed : BOOLEAN, rows : Nat])
  /\ run \in [Runners -> [pc : Pcs, run : 0..MaxRuns, site : Sites \cup {<<>>},
                          seen : SUBSET Courses, over : BOOLEAN]]
  /\ committed \subseteq 1..Len(ledger)
  /\ last \in Sites \cup {<<>>}
  /\ mixed \in BOOLEAN

\* Two rounds run side by side only if one of them outlived its lock: an old
\* round that ends never opens the gate over a newer one.
OneRoundAtATime ==
  \A u, v \in Runners :
    u # v /\ InProgress(u) /\ InProgress(v) => run[u].over \/ run[v].over

\* The rows on the announced pages that are rows of courses.
Offered(site) ==
  {tr.row : tr \in {t \in UNION {Range(site[k].trs) : k \in 1..Announced(site)} :
                     t.cells >= MinCells /\ Accept(t)}}

\* Unless rounds were mixed, the table holds every course of the school's pages
\* as last committed, once, and nothing else: no page is left out, rows that failed
\* rounds or crashes touched are never half there, and rows that gained or lost
\* their code do not stay behind.
TableIsLastScrape ==
  ~mixed =>
    LET offered == IF last = <<>> THEN {} ELSE Offered(last)
        table   == {c.row : c \in courses}
    IN /\ table \subseteq offered
       /\ Identities(table) = Identities(offered)
       /\ Cardinality(courses) = Cardinality(Identities(offered))

\* The ledger tells the truth: a closed run is ok just when its transaction
\* committed, and the newest run, when ok, counts the rows now served.
LedgerIsTrue ==
  /\ \A i \in 1..Len(ledger) : ledger[i].closed => (ledger[i].ok <=> i \in committed)
  /\ ~mixed /\ ledger # <<>> /\ LatestCatalogMeta.ok =>
       LatestCatalogMeta.rows = Cardinality(courses)

\* The lock of a round that was killed frees itself.
LockFrees == \A u \in Runners : lock.owner = u ~> lock.owner # u

-----------------------------------------------------------------------------
(* What the pipeline's documentation says and the code does not do.         *)

\* "NEVER raises for school/solver/parse/DB failures": no round ends its
\* scheduler.
RunIngestNeverRaises == \A u \in Runners : run[u].pc # "raise"

=============================================================================
