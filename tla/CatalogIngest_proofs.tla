------------------------- MODULE CatalogIngest_proofs -------------------------
(***************************************************************************)
(* The catalog ingest, for every number of runners and rounds, every       *)
(* lifetime of the lock and everything the school may serve: rounds that   *)
(* overlap outlived their lock, keys and codes stay unique in the table    *)
(* whatever overlaps, and while nothing overlapped the table is the last   *)
(* scrape and the ledger says so.                                          *)
(***************************************************************************)
EXTENDS CatalogIngest, SortedSets

\* What a runner may be, when rounds are numbered in N, be served what is in S and
\* read what is in Q.
Runs(N, S, Q) ==
  [Runners -> [pc : Pcs, run : N, site : S, seen : Q, over : BOOLEAN]]

\* Which numbers, sites and tables do occur does not matter here.
Shape == \E N, S, Q : run \in Runs(N, S, Q)

\* A round that has not outlived its lock still owns it.
LockInv ==
  /\ Shape
  /\ lock \in [owner : Runners \cup {NoRunner}, ttl : Nat]
  /\ \A u \in Runners : InProgress(u) /\ ~run[u].over => lock.owner = u

LEMMA LockInit == Init => LockInv
  <1> SUFFICES ASSUME Init PROVE LockInv
    OBVIOUS
  <1>1. run \in Runs({0}, {<<>>}, {{}})
    BY DEF Init, Runs, Asleep, Pcs
  <1>2. Shape
    BY <1>1 DEF Shape
  <1> QED
    BY <1>2 DEF Init, LockInv, Asleep, InProgress, Free

\* A step of a round changes neither the lock nor what is told of the runners,
\* but for their place in the round.
LEMMA RoundKeepsLock ==
  ASSUME LockInv, NEW u \in Runners, RunIngest(u)
  PROVE  LockInv'
  <1>1. PICK N, S, Q : run \in Runs(N, S, Q)
    BY DEF LockInv, Shape
  <1> DEFINE N1 == N \cup {Len(ledger) + 1}
             S1 == S \cup Sites \cup {<<>>}
             Q1 == Q \cup {{}, courses}
  <1>2. /\ lock' = lock /\ InProgress(u)
        /\ run' \in Runs(N1, S1, Q1)
        /\ \A v \in Runners : run'[v].over = run[v].over
        /\ \A v \in Runners \ {u} : run'[v] = run[v]
    <2> USE <1>1 DEF Runs, Pcs, InProgress
    <2>1. CASE OpenIngestRun(u)
      <3>1. /\ lock' = lock /\ run[u].pc = "open"
            /\ \/ run' = [run EXCEPT ![u].pc = "fetch", ![u].run = Len(ledger) + 1]
               \/ run' = [run EXCEPT ![u].pc = "raise"]
        BY <2>1 DEF OpenIngestRun, Goto
      <3> QED
        BY <3>1
    <2>2. CASE FetchPages(u)
      BY <2>2 DEF FetchPages, Fail
    <2>3. CASE ReadExisting(u)
      BY <2>3 DEF ReadExisting, Fail
    <2>4. CASE ReplaceYearSemSnapshot(u)
      <3>1. /\ lock' = lock /\ run[u].pc = "replace"
            /\ \/ Fail(u)
               \/ run' = [run EXCEPT ![u].pc = "close_ok", ![u].seen = {}]
        BY <2>4 DEF ReplaceYearSemSnapshot
      <3> QED
        BY <3>1 DEF Fail
    <2>5. CASE CloseIngestRun(u)
      <3>1. /\ lock' = lock /\ run[u].pc \in {"close_ok", "close_failed"}
            /\ \/ run' = [run EXCEPT ![u].pc = "release", ![u].site = <<>>]
               \/ Goto(u, "raise")
        BY <2>5 DEF CloseIngestRun
      <3> QED
        BY <3>1 DEF Goto
    <2> QED
      BY <2>1, <2>2, <2>3, <2>4, <2>5 DEF RunIngest
  <1>3. Shape'
    <2> HIDE DEF N1, S1, Q1
    <2> QED
      BY <1>2 DEF Shape, Runs
  <1> QED
    BY <1>2, <1>3 DEF LockInv, InProgress

\* Leaving or entering the loop: the record of the runner is written afresh.
LEMMA FreshRecord ==
  ASSUME Shape, NEW u \in Runners, NEW pc \in Pcs,
         run' = [run EXCEPT ![u] = [Asleep EXCEPT !.pc = pc]]
  PROVE  /\ Shape'
         /\ run'[u].pc = pc
         /\ \A v \in Runners \ {u} : run'[v] = run[v]
  <1>1. PICK N, S, Q : run \in Runs(N, S, Q)
    BY DEF Shape
  <1>2. run' \in Runs(N \cup {0}, S \cup {<<>>}, Q \cup {{}})
    BY <1>1 DEF Runs, Asleep
  <1>3. Shape'
    BY <1>2 DEF Shape, Runs
  <1> QED
    BY <1>1, <1>3 DEF Runs, Asleep

LEMMA LockStep == LockInv /\ [Next]_vars => LockInv'
  <1> SUFFICES ASSUME LockInv, [Next]_vars PROVE LockInv'
    OBVIOUS
  <1> USE DEF LockInv
  <1>1. ASSUME NEW u \in Runners, Acquire(u) PROVE LockInv'
    \* The lock was free, so every other round in progress has outlived its own.
    <2>1. run' = [run EXCEPT ![u] = [Asleep EXCEPT !.pc = "open"]]
      BY <1>1 DEF Acquire, TakeLock
    <2>2. Shape' /\ \A v \in Runners \ {u} : run'[v] = run[v]
      BY <2>1, FreshRecord DEF Pcs
    <2>3. lock = Free /\ lock' = [owner |-> u, ttl |-> LockTtl]
      BY <1>1 DEF Acquire, TakeLock
    <2> QED
      BY <2>2, <2>3, IngestAssumption DEF Free, InProgress
  <1>2. ASSUME NEW u \in Runners, RunIngest(u) PROVE LockInv'
    BY <1>2, RoundKeepsLock
  <1>3. ASSUME NEW u \in Runners, Release(u) PROVE LockInv'
    \* If the lock is deleted it was u's, and u is not in progress any more.
    <2> DEFINE pc == IF run[u].pc = "raise" THEN "dead" ELSE "sleep"
    <2>1. run' = [run EXCEPT ![u] = [Asleep EXCEPT !.pc = pc]] /\ pc \in {"dead", "sleep"}
      BY <1>3 DEF Release, Leave
    <2> HIDE DEF pc
    <2>2. /\ Shape' /\ run'[u].pc \in {"dead", "sleep"}
          /\ \A v \in Runners \ {u} : run'[v] = run[v]
      BY <2>1, FreshRecord DEF Pcs
    <2>3. lock' = IF lock.owner = u THEN Free ELSE lock
      BY <1>3 DEF Release
    <2> QED
      BY <2>2, <2>3 DEF Free, InProgress
  <1>4. ASSUME NEW u \in Runners, Crash(u) \/ Restart(u) PROVE LockInv'
    <2>1. \E pc \in {"dead", "sleep"} : run' = [run EXCEPT ![u] = [Asleep EXCEPT !.pc = pc]]
      <3>1. CASE Crash(u)
        BY <3>1 DEF Crash, Leave
      <3>2. CASE Restart(u)
        BY <3>2 DEF Restart, Asleep
      <3> QED
        BY <1>4, <3>1, <3>2
    <2>2. /\ Shape' /\ run'[u].pc \in {"dead", "sleep"}
          /\ \A v \in Runners \ {u} : run'[v] = run[v]
      BY <2>1, FreshRecord DEF Pcs
    <2>3. lock' = lock
      BY <1>4 DEF Crash, Restart
    <2> QED
      BY <2>2, <2>3 DEF InProgress
  <1>5. CASE Tick
    <2>1. PICK N, S, Q : run \in Runs(N, S, Q)
      BY DEF Shape
    <2>8. ASSUME NEW v \in Runners
          PROVE  run'[v] = IF lock.ttl = 1 /\ lock.owner = v /\ InProgress(v)
                             THEN [run[v] EXCEPT !.over = TRUE] ELSE run[v]
      BY <1>5 DEF Tick
    <2>2. /\ run' \in Runs(N, S, Q)
          /\ \A v \in Runners : run'[v].pc = run[v].pc
          /\ \A v \in Runners : ~run'[v].over /\ InProgress(v) =>
                                  ~run[v].over /\ ~(lock.ttl = 1 /\ lock.owner = v)
      <3>1. DOMAIN run' = Runners /\ run' = [v \in Runners |-> run'[v]]
        BY <1>5 DEF Tick
      <3>2. ASSUME NEW v \in Runners
            PROVE  /\ run'[v] \in [pc : Pcs, run : N, site : S, seen : Q, over : BOOLEAN]
                   /\ run'[v].pc = run[v].pc
                   /\ ~run'[v].over /\ InProgress(v) =>
                        ~run[v].over /\ ~(lock.ttl = 1 /\ lock.owner = v)
        <4>1. run[v] \in [pc : Pcs, run : N, site : S, seen : Q, over : BOOLEAN]
          BY <2>1 DEF Runs
        <4>2. CASE lock.ttl = 1 /\ lock.owner = v /\ InProgress(v)
          <5>1. run'[v] = [run[v] EXCEPT !.over = TRUE]
            BY <2>8, <4>2
          <5> QED
            BY <4>1, <5>1
        <4>3. CASE ~(lock.ttl = 1 /\ lock.owner = v /\ InProgress(v))
          <5>1. run'[v] = run[v]
            BY <2>8, <4>3
          <5> QED
            BY <4>1, <4>3, <5>1
        <4> QED
          BY <4>2, <4>3
      <3> QED
        BY <3>1, <3>2 DEF Runs
    <2>3. Shape'
      BY <2>2 DEF Shape, Runs
    <2>4. /\ lock' \in [owner : Runners \cup {NoRunner}, ttl : Nat]
          /\ lock.ttl # 1 => lock'.owner = lock.owner
      BY <1>5 DEF Tick, Free
    <2>5. ASSUME NEW v \in Runners, InProgress(v)', ~run'[v].over
          PROVE  lock'.owner = v
      <3>1. InProgress(v)
        BY <2>2, <2>5 DEF InProgress
      <3>2. lock.owner = v /\ lock.ttl # 1
        BY <2>2, <2>5, <3>1
      <3> QED
        BY <2>4, <3>2
    <2> QED
      BY <2>3, <2>4, <2>5
  <1>6. CASE UNCHANGED vars
    BY <1>6 DEF vars, Shape, Runs, InProgress
  <1> QED
    BY <1>1, <1>2, <1>3, <1>4, <1>5, <1>6 DEF Next

\* Two rounds overlap only when one of them has outlived its lock: a round that
\* ends, is killed or is restarted never frees the lock of another.
THEOREM RoundsDoNotOverlap == Spec => []OneRoundAtATime
  <1>1. LockInv => OneRoundAtATime
    BY DEF LockInv, OneRoundAtATime
  <1> QED
    BY <1>1, LockInit, LockStep, PTL DEF Spec

-----------------------------------------------------------------------------
(* The inductive invariant of the rounds.                                   *)

\* The places at which a round still has its ledger row to close.
WritingPcs == {"fetch", "read", "replace", "close_ok", "close_failed"}

Writing(u) == run[u].pc \in WritingPcs

\* Every round under way writes a ledger row of its own, open until it is closed
\* and committed just when the round's transaction was.
RunsKnown ==
  /\ IsFiniteSet({u \in Runners : run[u].pc = "open"}) /\ Started <= MaxRuns
  /\ \A u \in Runners : Writing(u) =>
       /\ run[u].run \in 1..Len(ledger) /\ ~ledger[run[u].run].closed
       /\ run[u].pc = "close_ok" <=> run[u].run \in committed
  /\ \A u, v \in Runners : u # v /\ Writing(u) /\ Writing(v) => run[u].run # run[v].run
  /\ \A u \in Runners : run[u].pc \in {"read", "replace", "close_ok"} => run[u].site \in Sites
  /\ \A i \in 1..Len(ledger) :
       /\ ledger[i].ok => ledger[i].closed
       /\ ledger[i].closed => (ledger[i].ok <=> i \in committed)

\* A primary key stands for one identity, in the table and in what a round read.
SeenKnown ==
  \A u \in Runners : \A c \in run[u].seen :
    /\ c.id \in issued
    /\ \A d \in run[u].seen : c.id = d.id => c = d
    /\ \A d \in courses : c.id = d.id => Identity(c.row) = Identity(d.row)

\* While no two rounds were mixed, the round under way is the newest one, and the
\* table is the last scrape without its duplicates.
TableKnown ==
  ~mixed =>
    /\ \A u, v \in Runners : InProgress(u) /\ InProgress(v) => u = v
    /\ {c.row : c \in courses} = IF last = <<>> THEN {} ELSE Distinct(last)
    /\ \A c, d \in courses : Identity(c.row) = Identity(d.row) => c = d
    /\ \A u \in Runners : Writing(u) => run[u].run = Len(ledger)
    /\ \A u \in Runners : run[u].pc = "replace" => run[u].seen = courses
    /\ \A u \in Runners : run[u].pc = "close_ok" => run[u].site = last
    /\ ledger # <<>> /\ LatestCatalogMeta.ok =>
         last # <<>> /\ LatestCatalogMeta.rows = Cardinality(Distinct(last))

IngestInv == TypeOK /\ RunsKnown /\ SeenKnown /\ TableKnown

-----------------------------------------------------------------------------
(* A scrape.                                                                *)

\* The places of a scrape are those of the rows on the announced pages.
LEMMA ScrapePlaces ==
  ASSUME NEW site \in Sites
  PROVE  /\ IsFiniteSet(FetchAll(site))
         /\ \A p \in FetchAll(site) :
              p = <<p[1], p[2]>> /\ p[1] \in Nat /\ p[2] \in Nat /\ RowAt(site, p) \in Rows
         /\ Offered(site) = {RowAt(site, p) : p \in FetchAll(site)}
  <1> DEFINE N == Announced(site)
             Page(k) == {k} \X ParseCatalogPage(site[k])
  <1>1. /\ N \in Nat
        /\ \A k \in 1..N : site[k].trs \in Seq([cells : Nat, bad : SUBSET Nat, row : Rows])
    BY SitesAssumption
  <1>2. FetchAll(site) = UNION {Page(k) : k \in 1..N}
    BY DEF FetchAll
  <1>3. ASSUME NEW k \in 1..N
        PROVE  /\ IsFiniteSet(ParseCatalogPage(site[k]))
               /\ \A i \in ParseCatalogPage(site[k]) : i \in Nat /\ site[k].trs[i].row \in Rows
    <2> DEFINE trs == site[k].trs
    <2>1. trs \in Seq([cells : Nat, bad : SUBSET Nat, row : Rows])
      BY <1>1
    <2> HIDE DEF trs
    <2>2. /\ Len(trs) \in Nat /\ DOMAIN trs = 1..Len(trs)
          /\ \A i \in 1..Len(trs) : i \in Nat /\ trs[i].row \in Rows
      <3> DEFINE T == [cells : Nat, bad : SUBSET Nat, row : Rows]
      <3>1. \A t \in T : t.row \in Rows
        OBVIOUS
      <3> HIDE DEF T
      <3>2. trs \in Seq(T)
        BY <2>1 DEF T
      <3>3. Len(trs) \in Nat /\ DOMAIN trs = 1..Len(trs) /\ \A i \in 1..Len(trs) : trs[i] \in T
        BY <3>2
      <3> QED
        BY <3>1, <3>3
    <2>3. IsFiniteSet(1..Len(trs))
      BY <2>2, FS_Interval
    <2>4. ParseCatalogPage(site[k]) \in SUBSET (1..Len(trs))
      BY <2>2 DEF ParseCatalogPage, Candidates, trs
    <2>5. IsFiniteSet(ParseCatalogPage(site[k]))
      BY <2>3, <2>4, FS_Subset
    <2> QED
      BY <2>2, <2>4, <2>5 DEF trs
  <1>4. \A k \in 1..N : IsFiniteSet(Page(k))
    <2> SUFFICES ASSUME NEW k \in 1..N PROVE IsFiniteSet(Page(k))
      OBVIOUS
    <2>1. IsFiniteSet({k})
      BY FS_Singleton
    <2> QED
      BY <1>3, <2>1, FS_Product
  <1>5. IsFiniteSet(FetchAll(site))
    <2> DEFINE f == [k \in 1..N |-> Page(k)]
    <2>1. IsFiniteSet(1..N)
      BY <1>1, FS_Interval
    <2>2. f \in Surjection(1..N, {Page(k) : k \in 1..N})
      BY DEF Surjection
    <2>3. IsFiniteSet({Page(k) : k \in 1..N})
      BY <2>1, <2>2, FS_Surjection
    <2>4. \A T \in {Page(k) : k \in 1..N} : IsFiniteSet(T)
      BY <1>4
    <2> QED
      BY <1>2, <2>3, <2>4, FS_UNION
  <1>6. \A p : p \in FetchAll(site) <=>
                 \E k \in 1..N : \E i \in ParseCatalogPage(site[k]) : p = <<k, i>>
    BY <1>2
  <1>7. \A k \in 1..N : k \in Nat
    BY <1>1
  <1>8. \A p \in FetchAll(site) :
          p = <<p[1], p[2]>> /\ p[1] \in Nat /\ p[2] \in Nat /\ RowAt(site, p) \in Rows
    BY <1>3, <1>6, <1>7 DEF RowAt
  <1>9. Offered(site) = {RowAt(site, p) : p \in FetchAll(site)}
    <2>1. ASSUME NEW p \in FetchAll(site) PROVE RowAt(site, p) \in Offered(site)
      <3>0. PICK k \in 1..N : \E i \in ParseCatalogPage(site[k]) : p = <<k, i>>
        BY <1>6
      <3>1. PICK i \in ParseCatalogPage(site[k]) : p = <<k, i>>
        BY <3>0
      <3>2. /\ i \in DOMAIN site[k].trs /\ site[k].trs[i].cells >= MinCells
            /\ Accept(site[k].trs[i])
        BY <3>1 DEF ParseCatalogPage, Candidates
      <3>3. site[k].trs[i] \in UNION {Range(site[j].trs) : j \in 1..N}
        BY <3>1, <3>2 DEF Range
      <3> QED
        BY <3>1, <3>2, <3>3 DEF RowAt, Offered
    <2>2. ASSUME NEW r \in Offered(site) PROVE \E p \in FetchAll(site) : r = RowAt(site, p)
      <3>1. PICK t \in UNION {Range(site[j].trs) : j \in 1..N} :
              t.cells >= MinCells /\ Accept(t) /\ r = t.row
        BY <2>2 DEF Offered
      <3>2. PICK k \in 1..N : t \in Range(site[k].trs)
        BY <3>1
      <3>3. PICK i \in DOMAIN site[k].trs : site[k].trs[i] = t
        BY <3>2 DEF Range
      <3>4. i \in ParseCatalogPage(site[k])
        BY <3>1, <3>3 DEF ParseCatalogPage, Candidates
      <3>5. <<k, i>> \in FetchAll(site)
        BY <1>6, <3>2, <3>4
      <3> QED
        BY <3>1, <3>3, <3>5 DEF RowAt
    <2> QED
      BY <2>1, <2>2
  <1> QED
    BY <1>5, <1>8, <1>9

\* Of every identity in a scrape there is one first row.
LEMMA FirstOfIdentity ==
  ASSUME NEW site \in Sites, NEW p \in FetchAll(site)
  PROVE  \E f \in FetchAll(site) :
           /\ Identity(RowAt(site, f)) = Identity(RowAt(site, p))
           /\ \A q \in FetchAll(site) :
                Earlier(q, f) => Identity(RowAt(site, q)) # Identity(RowAt(site, f))
  <1> DEFINE Same == {q \in FetchAll(site) :
                        Identity(RowAt(site, q)) = Identity(RowAt(site, p))}
             OnPages == {q[1] : q \in Same}
  <1>1. \A q \in FetchAll(site) : q = <<q[1], q[2]>> /\ q[1] \in Nat /\ q[2] \in Nat
    BY ScrapePlaces
  <1>2. OnPages \in SUBSET Nat /\ OnPages # {}
    BY <1>1
  <1> HIDE DEF OnPages
  <1>3. PICK k \in OnPages : \A j \in OnPages : k <= j
    BY <1>2, LeastNumber
  <1> DEFINE Places == {q[2] : q \in {q \in Same : q[1] = k}}
  <1>4. Places \in SUBSET Nat /\ Places # {}
    BY <1>1 DEF OnPages
  <1> HIDE DEF Places
  <1>5. PICK i \in Places : \A j \in Places : i <= j
    BY <1>4, LeastNumber
  <1>6. PICK f \in Same : f[1] = k /\ f[2] = i
    BY DEF Places
  <1>7. ASSUME NEW q \in Same PROVE ~Earlier(q, f)
    <2>1. q[1] \in OnPages /\ (q[1] = k => q[2] \in Places)
      BY DEF OnPages, Places
    <2>2. k <= q[1] /\ (q[1] = k => i <= q[2])
      BY <1>3, <1>5, <2>1
    <2>3. {q[1], q[2], f[1], f[2]} \subseteq Nat
      BY <1>1
    <2> QED
      BY <1>6, <2>2, <2>3 DEF Earlier
  <1> QED
    BY <1>6, <1>7

\* A scrape without its duplicates: one row of every identity offered, no other.
LEMMA DistinctRows ==
  ASSUME NEW site \in Sites
  PROVE  /\ Distinct(site) \subseteq Offered(site) /\ Distinct(site) \subseteq Rows
         /\ IsFiniteSet(Distinct(site))
         /\ Identities(Distinct(site)) = Identities(Offered(site))
         /\ \A a, b \in Distinct(site) : Identity(a) = Identity(b) => a = b
  <1> DEFINE First(p) == \A q \in FetchAll(site) :
                Earlier(q, p) => Identity(RowAt(site, q)) # Identity(RowAt(site, p))
             Firsts == {p \in FetchAll(site) : First(p)}
  <1>1. Distinct(site) = {RowAt(site, p) : p \in Firsts}
    BY DEF Distinct
  <1>2. /\ IsFiniteSet(FetchAll(site))
        /\ \A p \in FetchAll(site) :
             p = <<p[1], p[2]>> /\ p[1] \in Nat /\ p[2] \in Nat /\ RowAt(site, p) \in Rows
        /\ Offered(site) = {RowAt(site, p) : p \in FetchAll(site)}
    BY ScrapePlaces
  <1>3. Distinct(site) \subseteq Offered(site) /\ Distinct(site) \subseteq Rows
    BY <1>1, <1>2
  <1>4. IsFiniteSet(Distinct(site))
    <2> DEFINE f == [p \in Firsts |-> RowAt(site, p)]
    <2>1. IsFiniteSet(Firsts)
      <3>1. Firsts \in SUBSET FetchAll(site)
        OBVIOUS
      <3> QED
        BY <1>2, <3>1, FS_Subset
    <2>2. f \in Surjection(Firsts, Distinct(site))
      BY <1>1 DEF Surjection
    <2> QED
      BY <2>1, <2>2, FS_Surjection
  <1>5. Identities(Distinct(site)) = Identities(Offered(site))
    <2>1. ASSUME NEW r \in Offered(site)
          PROVE  \E d \in Distinct(site) : Identity(d) = Identity(r)
      <3>1. PICK p \in FetchAll(site) : r = RowAt(site, p)
        BY <1>2
      <3>2. PICK f \in FetchAll(site) :
              /\ Identity(RowAt(site, f)) = Identity(RowAt(site, p))
              /\ \A q \in FetchAll(site) :
                   Earlier(q, f) => Identity(RowAt(site, q)) # Identity(RowAt(site, f))
        BY FirstOfIdentity
      <3>3. RowAt(site, f) \in Distinct(site)
        BY <3>2 DEF Distinct
      <3> QED
        BY <3>1, <3>2, <3>3
    <2> QED
      BY <1>3, <2>1 DEF Identities
  <1>6. ASSUME NEW a \in Distinct(site), NEW b \in Distinct(site), Identity(a) = Identity(b)
        PROVE  a = b
    <2>1. PICK p \in Firsts, q \in Firsts : a = RowAt(site, p) /\ b = RowAt(site, q)
      BY <1>1
    <2>2. ~Earlier(p, q) /\ ~Earlier(q, p)
      BY <1>6, <2>1
    <2>3. /\ p = <<p[1], p[2]>> /\ p[1] \in Nat /\ p[2] \in Nat
          /\ q = <<q[1], q[2]>> /\ q[1] \in Nat /\ q[2] \in Nat
      BY <1>2
    <2>4. p[1] = q[1] /\ p[2] = q[2]
      BY <2>2, <2>3 DEF Earlier
    <2> QED
      BY <2>1, <2>3, <2>4
  <1> QED
    BY <1>3, <1>4, <1>5, <1>6

-----------------------------------------------------------------------------
(* The steps of the rounds.                                                 *)

Rounds == [pc : Pcs, run : 0..MaxRuns, site : Sites \cup {<<>>},
           seen : SUBSET Courses, over : BOOLEAN]

Locks == [owner : Runners \cup {NoRunner}, ttl : 0..Forever]

LEMMA IngestInit == Init => IngestInv
  <1> SUFFICES ASSUME Init PROVE IngestInv
    OBVIOUS
  <1> USE DEF Init
  <1>1. TypeOK
    <2>1. lock \in Locks
      BY IngestAssumption DEF Locks, Free, Forever
    <2>2. Asleep \in Rounds
      BY IngestAssumption DEF Rounds, Asleep, Pcs
    <2>3. ledger \in Seq([ok : BOOLEAN, closed : BOOLEAN, rows : Nat])
      OBVIOUS
    <2>4. run \in [Runners -> Rounds]
      BY <2>2
    <2>5. committed \subseteq 1..Len(ledger) /\ mixed \in BOOLEAN /\ last \in Sites \cup {<<>>}
      OBVIOUS
    <2>6. courses = {} /\ Ids(courses) = {} /\ issued = {}
      BY DEF Ids
    <2> QED
      BY <2>1, <2>3, <2>4, <2>5, <2>6 DEF TypeOK, Locks, Rounds
  <1>2. RunsKnown
    <2>1. {u \in Runners : run[u].pc = "open"} = {}
      BY DEF Asleep
    <2>2. Started = 0 /\ IsFiniteSet({u \in Runners : run[u].pc = "open"})
      <3>1. Len(ledger) = 0
        OBVIOUS
      <3>2. IsFiniteSet({}) /\ Cardinality({}) = 0
        BY FS_EmptySet
      <3>3. /\ IsFiniteSet({u \in Runners : run[u].pc = "open"})
            /\ Cardinality({u \in Runners : run[u].pc = "open"}) = 0
        BY ONLY <2>1, <3>2, Zenon
      <3> QED
        BY <3>1, <3>3 DEF Started
    <2> QED
      BY <2>2, IngestAssumption DEF RunsKnown, Writing, WritingPcs, Asleep
  <1>3. SeenKnown
    BY DEF SeenKnown, Asleep
  <1>4. TableKnown
    BY DEF TableKnown, InProgress, Writing, WritingPcs, Asleep
  <1> QED
    BY <1>1, <1>2, <1>3, <1>4 DEF IngestInv

\* How many rounds are about to write their ledger row, when one runner moves.
LEMMA OpenRounds ==
  ASSUME IsFiniteSet({v \in Runners : run[v].pc = "open"}), NEW u \in Runners, NEW r,
         DOMAIN run = Runners, run' = [run EXCEPT ![u] = r]
  PROVE  /\ IsFiniteSet({v \in Runners : run'[v].pc = "open"})
         /\ Cardinality({v \in Runners : run[v].pc = "open"}) \in Nat
         /\ Cardinality({v \in Runners : run'[v].pc = "open"})
              = Cardinality({v \in Runners : run[v].pc = "open"})
                  - (IF run[u].pc = "open" THEN 1 ELSE 0) + (IF r.pc = "open" THEN 1 ELSE 0)
  <1> DEFINE S == {v \in Runners : run[v].pc = "open"}
             T == {v \in Runners : run'[v].pc = "open"}
  <1>1. \A v \in Runners : run'[v] = IF v = u THEN r ELSE run[v]
    OBVIOUS
  <1>2. T = IF r.pc = "open" THEN S \cup {u} ELSE S \ {u}
    BY <1>1
  <1>3. u \in S <=> run[u].pc = "open"
    OBVIOUS
  <1>4. Cardinality(S) \in Nat
    BY FS_CardinalityType
  <1> HIDE DEF S, T
  <1>5. IsFiniteSet(S)
    BY DEF S
  <1>6. /\ IsFiniteSet(S \cup {u})
        /\ Cardinality(S \cup {u}) = IF u \in S THEN Cardinality(S) ELSE Cardinality(S) + 1
    BY <1>5, FS_AddElement
  <1>7. /\ IsFiniteSet(S \ {u})
        /\ Cardinality(S \ {u}) = IF u \in S THEN Cardinality(S) - 1 ELSE Cardinality(S)
    BY <1>5, FS_RemoveElement
  <1>8. /\ IsFiniteSet(T)
        /\ Cardinality(T) = Cardinality(S)
             - (IF run[u].pc = "open" THEN 1 ELSE 0) + (IF r.pc = "open" THEN 1 ELSE 0)
    BY <1>2, <1>3, <1>4, <1>6, <1>7
  <1> QED
    BY <1>4, <1>8 DEF S, T

\* A runner moves on, and nothing is written: it enters the loop under a free lock,
\* or goes on with the round it is in, or leaves it.
LEMMA RunnerMoves ==
  ASSUME IngestInv, NEW u \in Runners, NEW r \in Rounds,
         run' = [run EXCEPT ![u] = r], lock' \in Locks,
         UNCHANGED <<courses, issued, ledger, committed, last>>,
         mixed' \in BOOLEAN, mixed => mixed',
         r.pc \in {"sleep", "dead"} \/ InProgress(u) \/ mixed' \/ \A v \in Runners : ~InProgress(v),
         r.pc = "open" => run[u].pc = "open" \/ Started < MaxRuns,
         r.pc \in WritingPcs =>
           run[u].pc \in WritingPcs /\ r.run = run[u].run /\ (r.pc = "close_ok" <=> run[u].pc = "close_ok"),
         r.pc \in {"read", "replace", "close_ok"} => r.site \in Sites,
         r.pc = "close_ok" => r.site = run[u].site,
         r.seen \in {{}, run[u].seen, courses},
         r.pc = "replace" => r.seen = courses \/ (run[u].pc = "replace" /\ r.seen = run[u].seen)
  PROVE  IngestInv'
  <1>1. \A v \in Runners : run'[v] = IF v = u THEN r ELSE run[v]
    BY DEF IngestInv, TypeOK
  <1>2. TypeOK'
    <2>1. run' \in [Runners -> Rounds]
      BY DEF IngestInv, TypeOK, Rounds
    <2> QED
      BY <2>1 DEF IngestInv, TypeOK, Rounds, Locks
  <1>3. RunsKnown'
    <2>1. IsFiniteSet({v \in Runners : run'[v].pc = "open"}) /\ Started' <= MaxRuns
      <3>1. /\ IsFiniteSet({v \in Runners : run'[v].pc = "open"})
            /\ Cardinality({v \in Runners : run[v].pc = "open"}) \in Nat
            /\ Cardinality({v \in Runners : run'[v].pc = "open"})
                 = Cardinality({v \in Runners : run[v].pc = "open"})
                     - (IF run[u].pc = "open" THEN 1 ELSE 0) + (IF r.pc = "open" THEN 1 ELSE 0)
        BY OpenRounds DEF IngestInv, TypeOK, RunsKnown
      <3>2. /\ Started = Len(ledger) + Cardinality({v \in Runners : run[v].pc = "open"})
            /\ Started' = Len(ledger) + Cardinality({v \in Runners : run'[v].pc = "open"})
            /\ Started <= MaxRuns
        BY DEF Started, IngestInv, RunsKnown
      <3>3. Len(ledger) \in Nat
        BY DEF IngestInv, TypeOK
      <3> QED
        BY <3>1, <3>2, <3>3, IngestAssumption
    <2>2. \A v \in Runners : Writing(v)' =>
            /\ run'[v].run \in 1..Len(ledger) /\ ~ledger[run'[v].run].closed
            /\ run'[v].pc = "close_ok" <=> run'[v].run \in committed
            /\ Writing(v) /\ run'[v].run = run[v].run
      BY <1>1 DEF IngestInv, RunsKnown, Writing
    <2>3. \A v \in Runners : run'[v].pc \in {"read", "replace", "close_ok"} => run'[v].site \in Sites
      BY <1>1 DEF IngestInv, RunsKnown
    <2> QED
      BY <2>1, <2>2, <2>3 DEF IngestInv, RunsKnown
  <1>4. SeenKnown'
    <2>1. \A c \in courses : c.id \in issued /\ \A d \in courses : c.id = d.id => c = d
      BY DEF IngestInv, TypeOK, Ids
    <2>2. \A v \in Runners : run'[v].seen \in {{}, run[v].seen, courses}
      BY <1>1
    <2> QED
      BY <2>1, <2>2 DEF IngestInv, SeenKnown
  <1>5. TableKnown'
    <2> SUFFICES ASSUME ~mixed' PROVE TableKnown'
      BY DEF TableKnown
    <2>1. TableKnown /\ ~mixed
      BY DEF IngestInv
    <2>2. \A v, w \in Runners : InProgress(v)' /\ InProgress(w)' => v = w
      BY <1>1, <2>1 DEF TableKnown, InProgress
    <2>3. \A v \in Runners : Writing(v)' => run'[v].run = Len(ledger)
      BY <1>1, <2>1 DEF TableKnown, Writing
    <2>4. \A v \in Runners : run'[v].pc = "replace" => run'[v].seen = courses
      BY <1>1, <2>1 DEF TableKnown
    <2>5. \A v \in Runners : run'[v].pc = "close_ok" => run'[v].site = last
      BY <1>1, <2>1 DEF TableKnown, WritingPcs
    <2> QED
      BY <2>1, <2>2, <2>3, <2>4, <2>5 DEF TableKnown, LatestCatalogMeta
  <1> QED
    BY <1>2, <1>3, <1>4, <1>5 DEF IngestInv

\* The steps of a runner that write nothing, and the clock.
LEMMA QuietSteps ==
  ASSUME IngestInv, NEW u \in Runners,
         \/ Acquire(u) \/ Release(u) \/ Crash(u) \/ Restart(u)
         \/ FetchPages(u) \/ ReadExisting(u)
  PROVE  IngestInv'
  <1>1. /\ run \in [Runners -> Rounds] /\ run[u] \in Rounds /\ lock \in Locks
        /\ mixed \in BOOLEAN /\ courses \subseteq Courses
    BY DEF IngestInv, TypeOK, Rounds, Locks
  <1>2. Free \in Locks /\ Asleep \in Rounds
    BY IngestAssumption DEF Free, Locks, Forever, Asleep, Rounds, Pcs
  <1>3. CASE Acquire(u)
    <2> DEFINE r == [Asleep EXCEPT !.pc = "open"]
    <2>1. /\ run' = [run EXCEPT ![u] = r] /\ Started < MaxRuns
          /\ lock' = [owner |-> u, ttl |-> LockTtl]
          /\ mixed' = (mixed \/ \E v \in Runners : InProgress(v))
          /\ UNCHANGED <<courses, issued, ledger, committed, last>>
      BY <1>3 DEF Acquire, TakeLock
    <2>2. r \in Rounds /\ r.pc = "open" /\ r.seen = {}
      BY <1>2 DEF Rounds, Asleep, Pcs
    <2>3. lock' \in Locks
      BY <2>1, IngestAssumption DEF Locks, Forever
    <2> HIDE DEF r
    <2> QED
      BY <1>1, <2>1, <2>2, <2>3, RunnerMoves DEF WritingPcs
  <1>4. CASE Release(u) \/ Crash(u) \/ Restart(u)
    <2>1. PICK pc \in {"sleep", "dead"} : run' = [run EXCEPT ![u] = [Asleep EXCEPT !.pc = pc]]
      <3>1. CASE Release(u)
        BY <3>1 DEF Release, Leave
      <3>2. CASE Crash(u)
        BY <3>2 DEF Crash, Leave
      <3>3. CASE Restart(u)
        BY <3>3 DEF Restart, Asleep
      <3> QED
        BY <1>4, <3>1, <3>2, <3>3
    <2>2. lock' \in {lock, Free} /\ mixed' = mixed
          /\ UNCHANGED <<courses, issued, ledger, committed, last>>
      BY <1>4 DEF Release, Crash, Restart
    <2> DEFINE r == [Asleep EXCEPT !.pc = pc]
    <2>3. r \in Rounds /\ r.pc \in {"sleep", "dead"} /\ r.seen = {}
      BY <1>2, <2>1 DEF Rounds, Asleep, Pcs
    <2>4. lock' \in Locks /\ mixed' \in BOOLEAN /\ (mixed => mixed')
      BY <1>1, <1>2, <2>2
    <2> HIDE DEF r
    <2>5. run' = [run EXCEPT ![u] = r]
      BY <2>1 DEF r
    <2> QED
      BY <2>2, <2>3, <2>4, <2>5, RunnerMoves DEF WritingPcs
  <1>5. CASE FetchPages(u) \/ ReadExisting(u)
    <2>1. /\ run[u].pc \in {"fetch", "read"} /\ mixed' = mixed /\ lock' = lock
          /\ UNCHANGED <<courses, issued, ledger, committed, last>>
      BY <1>5 DEF FetchPages, ReadExisting
    <2>2. PICK r \in Rounds :
            /\ run' = [run EXCEPT ![u] = r] /\ r.run = run[u].run
            /\ \/ r.pc = "read" /\ r.site \in Sites /\ r.seen = run[u].seen
               \/ r.pc = "replace" /\ r.seen = courses /\ r.site = run[u].site /\ run[u].pc = "read"
               \/ r.pc = "close_failed" /\ r.seen = {}
      <3>1. CASE Fail(u)
        <4> DEFINE r == [run[u] EXCEPT !.pc = "close_failed", !.site = <<>>, !.seen = {}]
        <4>1. run' = [run EXCEPT ![u] = r]
          BY <1>1, <3>1 DEF Fail
        <4>2. r \in Rounds /\ r.run = run[u].run /\ r.pc = "close_failed" /\ r.seen = {}
          BY <1>1 DEF Rounds, Pcs
        <4> QED
          BY <4>1, <4>2
      <3>2. CASE FetchPages(u) /\ ~Fail(u)
        <4>1. PICK site \in Sites :
                run' = [run EXCEPT ![u].pc = "read", ![u].site = site]
          BY <3>2 DEF FetchPages
        <4> DEFINE r == [run[u] EXCEPT !.pc = "read", !.site = site]
        <4>2. run' = [run EXCEPT ![u] = r]
          BY <1>1, <4>1
        <4>3. /\ r \in Rounds /\ r.run = run[u].run /\ r.pc = "read" /\ r.site \in Sites
              /\ r.seen = run[u].seen
          BY <1>1 DEF Rounds, Pcs
        <4> QED
          BY <4>2, <4>3
      <3>3. CASE ReadExisting(u) /\ ~Fail(u)
        <4>1. run[u].pc = "read" /\ run' = [run EXCEPT ![u].pc = "replace", ![u].seen = courses]
          BY <3>3 DEF ReadExisting
        <4> DEFINE r == [run[u] EXCEPT !.pc = "replace", !.seen = courses]
        <4>2. run' = [run EXCEPT ![u] = r]
          BY <1>1, <4>1
        <4>3. /\ r \in Rounds /\ r.run = run[u].run /\ r.pc = "replace" /\ r.seen = courses
              /\ r.site = run[u].site
          BY <1>1 DEF Rounds, Pcs
        <4> QED
          BY <4>1, <4>2, <4>3
      <3> QED
        BY <1>5, <3>1, <3>2, <3>3
    <2>3. InProgress(u) /\ run[u].pc \in WritingPcs /\ run[u].pc \notin {"open", "close_ok"}
      BY <2>1 DEF InProgress, WritingPcs
    <2>4. run[u].pc = "read" => run[u].site \in Sites
      BY DEF IngestInv, RunsKnown
    <2>5. /\ r.pc \notin {"sleep", "dead", "open", "close_ok"}
          /\ r.pc \in {"read", "replace", "close_ok"} => r.site \in Sites
          /\ r.seen \in {{}, run[u].seen, courses}
          /\ r.pc = "replace" => r.seen = courses
      BY <2>2, <2>4
    <2>6. lock' \in Locks /\ mixed' \in BOOLEAN /\ (mixed => mixed')
      BY <1>1, <2>1
    <2> QED
      BY <2>1, <2>2, <2>3, <2>5, <2>6, RunnerMoves
  <1> QED
    BY <1>3, <1>4, <1>5

LEMMA ClockSteps == IngestInv /\ (Tick \/ UNCHANGED vars) => IngestInv'
  <1> SUFFICES ASSUME IngestInv, Tick \/ UNCHANGED vars PROVE IngestInv'
    OBVIOUS
  <1>1. /\ run \in [Runners -> Rounds] /\ lock \in Locks /\ mixed \in BOOLEAN
        /\ \A v \in Runners : run[v] \in Rounds
    BY DEF IngestInv, TypeOK, Rounds, Locks
  <1>2. UNCHANGED <<courses, issued, ledger, committed, last, mixed>>
    BY DEF Tick, vars
  <1>3. lock' \in Locks
    <2>1. CASE UNCHANGED vars
      BY <1>1, <2>1 DEF vars
    <2>2. CASE Tick
      <3>1. lock' \in {Free, lock} \/ (lock.ttl \notin {0, 1} /\ lock' = [lock EXCEPT !.ttl = @ - 1])
        BY <2>2 DEF Tick
      <3> QED
        BY <1>1, <3>1, IngestAssumption DEF Locks, Free, Forever
    <2> QED
      BY <2>1, <2>2
  <1>4. CASE run' = run
    <2>1. TypeOK'
      BY <1>2, <1>3, <1>4 DEF IngestInv, TypeOK, Locks
    <2>2. RunsKnown' /\ SeenKnown' /\ TableKnown'
      BY <1>2, <1>4 DEF IngestInv, RunsKnown, SeenKnown, TableKnown, Started, Writing, InProgress,
                        LatestCatalogMeta
    <2> QED
      BY <2>1, <2>2 DEF IngestInv
  <1>5. CASE run' # run
    \* The lock runs out under its owner.
    <2>1. PICK u \in Runners : InProgress(u) /\ run' = [run EXCEPT ![u] = [run[u] EXCEPT !.over = TRUE]]
      <3>1. Tick
        BY <1>5 DEF vars
      <3>2. run' = [v \in Runners |->
               IF lock.ttl = 1 /\ lock.owner = v /\ InProgress(v)
                 THEN [run[v] EXCEPT !.over = TRUE] ELSE run[v]]
        BY <3>1 DEF Tick
      <3>3. PICK u \in Runners : lock.ttl = 1 /\ lock.owner = u /\ InProgress(u)
        <4> SUFFICES ASSUME \A v \in Runners : ~(lock.ttl = 1 /\ lock.owner = v /\ InProgress(v))
                     PROVE  run' = run
          BY <1>5
        <4> QED
          BY <1>1, <3>2
      <3>4. run' = [run EXCEPT ![u] = [run[u] EXCEPT !.over = TRUE]]
        BY <1>1, <3>2, <3>3
      <3> QED
        BY <3>3, <3>4
    <2> DEFINE r == [run[u] EXCEPT !.over = TRUE]
    <2>2. /\ r \in Rounds /\ r.pc = run[u].pc /\ r.run = run[u].run /\ r.seen = run[u].seen
          /\ r.site = run[u].site
      BY <1>1 DEF Rounds
    <2>3. run[u].pc \in {"read", "replace", "close_ok"} => run[u].site \in Sites
      BY DEF IngestInv, RunsKnown
    <2> HIDE DEF r
    <2>4. run' = [run EXCEPT ![u] = r]
      BY <2>1 DEF r
    <2> QED
      BY <1>1, <1>2, <1>3, <2>1, <2>2, <2>3, <2>4, RunnerMoves
  <1> QED
    BY <1>4, <1>5

\* A round goes on to its end without writing: the transaction, or what was to be
\* written to the ledger, failed.
LEMMA FailedSteps ==
  ASSUME IngestInv, NEW u \in Runners,
         \/ run[u].pc = "replace" /\ Fail(u)
         \/ run[u].pc \in {"open", "close_ok", "close_failed"} /\ Goto(u, "raise"),
         UNCHANGED <<lock, courses, issued, ledger, committed, last, mixed>>
  PROVE  IngestInv'
  <1>1. /\ run \in [Runners -> Rounds] /\ run[u] \in Rounds /\ lock \in Locks
        /\ mixed \in BOOLEAN
    BY DEF IngestInv, TypeOK, Rounds, Locks
  <1>3. CASE Goto(u, "raise") /\ run[u].pc \in {"open", "close_ok", "close_failed"}
    <2> DEFINE r == [run[u] EXCEPT !.pc = "raise"]
    <2>1. run' = [run EXCEPT ![u] = r]
      BY <1>1, <1>3 DEF Goto
    <2>2. r \in Rounds /\ r.pc = "raise" /\ r.seen = run[u].seen
      BY <1>1 DEF Rounds, Pcs
    <2>3. InProgress(u)
      BY DEF InProgress
    <2> HIDE DEF r
    <2> QED
      BY <1>1, <2>1, <2>2, <2>3, RunnerMoves DEF WritingPcs
  <1>4. CASE Fail(u) /\ run[u].pc = "replace"
    <2> DEFINE r == [run[u] EXCEPT !.pc = "close_failed", !.site = <<>>, !.seen = {}]
    <2>1. run' = [run EXCEPT ![u] = r]
      BY <1>1, <1>4 DEF Fail
    <2>2. r \in Rounds /\ r.pc = "close_failed" /\ r.seen = {} /\ r.run = run[u].run
      BY <1>1 DEF Rounds, Pcs
    <2>3. InProgress(u)
      BY DEF InProgress
    <2> HIDE DEF r
    <2> QED
      BY <1>1, <1>4, <2>1, <2>2, <2>3, RunnerMoves DEF WritingPcs
  <1> QED
    BY <1>3, <1>4

LEMMA OpenStep == ASSUME IngestInv, NEW u \in Runners, OpenIngestRun(u) PROVE IngestInv'
  <1>1. CASE Goto(u, "raise") /\ UNCHANGED ledger
    BY <1>1, FailedSteps DEF OpenIngestRun
  <1> DEFINE R == [ok : BOOLEAN, closed : BOOLEAN, rows : Nat]
             new == [ok |-> FALSE, closed |-> FALSE, rows |-> 0]
             r == [run[u] EXCEPT !.pc = "fetch", !.run = Len(ledger) + 1]
             Opening == {v \in Runners : run[v].pc = "open"}
  <1>2. CASE ledger' = Append(ledger, new) /\ run' = [run EXCEPT ![u] = r]
    <2>1. /\ run[u].pc = "open"
          /\ UNCHANGED <<lock, courses, issued, committed, last, mixed>>
      BY DEF OpenIngestRun
    <2>2. /\ run \in [Runners -> Rounds] /\ run[u] \in Rounds /\ ledger \in Seq(R)
          /\ committed \subseteq 1..Len(ledger)
      BY DEF IngestInv, TypeOK, Rounds
    <2>3. /\ Len(ledger) \in Nat /\ Len(ledger') = Len(ledger) + 1 /\ ledger' \in Seq(R)
          /\ ledger' # <<>> /\ ledger'[Len(ledger')] = new
          /\ \A i \in 1..Len(ledger) : ledger'[i] = ledger[i]
      BY <1>2, <2>2
    <2>4. /\ IsFiniteSet({v \in Runners : run'[v].pc = "open"})
          /\ Started' = Started /\ Started <= MaxRuns /\ Len(ledger) + 1 <= MaxRuns
      <3>1. IsFiniteSet(Opening) /\ Started <= MaxRuns /\ Started = Len(ledger) + Cardinality(Opening)
        BY DEF IngestInv, RunsKnown, Started
      <3>2. /\ IsFiniteSet({v \in Runners : run'[v].pc = "open"})
            /\ Cardinality(Opening) \in Nat
            /\ Cardinality({v \in Runners : run'[v].pc = "open"})
                 = Cardinality(Opening)
                     - (IF run[u].pc = "open" THEN 1 ELSE 0) + (IF r.pc = "open" THEN 1 ELSE 0)
        <4> HIDE DEF r
        <4>1. DOMAIN run = Runners /\ run' = [run EXCEPT ![u] = r]
          BY <1>2, <2>2
        <4>2. IsFiniteSet({v \in Runners : run[v].pc = "open"})
          BY <3>1
        <4> QED
          BY <4>1, <4>2, OpenRounds
      <3>3. r.pc = "fetch"
        BY <2>2 DEF Rounds
      <3>4. Cardinality({v \in Runners : run'[v].pc = "open"}) = Cardinality(Opening) - 1
        BY <2>1, <3>2, <3>3
      <3>5. Cardinality({v \in Runners : run'[v].pc = "open"}) \in Nat
        BY <3>2, FS_CardinalityType
      <3>6. Started' = Len(ledger') + Cardinality({v \in Runners : run'[v].pc = "open"})
        BY DEF Started
      <3> HIDE DEF r, Opening
      <3> QED
        BY <2>3, <3>1, <3>2, <3>4, <3>5, <3>6, IngestAssumption
    <2>5. /\ r \in Rounds /\ r.pc = "fetch" /\ r.run = Len(ledger) + 1 /\ r.seen = run[u].seen
      <3>1. Len(ledger) + 1 \in 0..MaxRuns
        BY <2>3, <2>4, IngestAssumption
      <3> QED
        BY <2>2, <3>1 DEF Rounds, Pcs
    <2> HIDE DEF r
    <2>6. \A v \in Runners : run'[v] = IF v = u THEN r ELSE run[v]
      BY <1>2, <2>2
    <2>7. run' \in [Runners -> Rounds]
      BY <1>2, <2>2, <2>5
    <2>8. TypeOK'
      <3>1. committed' \subseteq 1..Len(ledger')
        BY <2>1, <2>2, <2>3
      <3> QED
        BY <2>1, <2>3, <2>7, <3>1 DEF IngestInv, TypeOK, Rounds
    <2>9. RunsKnown'
      <3>1. \A v \in Runners : Writing(v) =>
              /\ run[v].run \in 1..Len(ledger) /\ ~ledger[run[v].run].closed
              /\ run[v].pc = "close_ok" <=> run[v].run \in committed
        BY DEF IngestInv, RunsKnown
      <3>2. \A v \in Runners : Writing(v)' /\ v # u => Writing(v) /\ run'[v] = run[v]
        BY <2>6 DEF Writing
      <3>3. \A v \in Runners : Writing(v)' =>
              /\ run'[v].run \in 1..Len(ledger') /\ ~ledger'[run'[v].run].closed
              /\ run'[v].pc = "close_ok" <=> run'[v].run \in committed'
        <4> SUFFICES ASSUME NEW v \in Runners, Writing(v)'
                     PROVE  /\ run'[v].run \in 1..Len(ledger') /\ ~ledger'[run'[v].run].closed
                            /\ run'[v].pc = "close_ok" <=> run'[v].run \in committed'
          OBVIOUS
        <4>1. CASE v = u
          BY <2>1, <2>2, <2>3, <2>5, <2>6, <4>1
        <4>2. CASE v # u
          BY <2>1, <2>3, <3>1, <3>2, <4>2
        <4> QED
          BY <4>1, <4>2
      <3>4. \A v, w \in Runners : v # w /\ Writing(v)' /\ Writing(w)' => run'[v].run # run'[w].run
        BY <2>3, <2>5, <2>6, <3>1, <3>2 DEF IngestInv, RunsKnown
      <3>5. \A v \in Runners : run'[v].pc \in {"read", "replace", "close_ok"} => run'[v].site \in Sites
        BY <2>5, <2>6 DEF IngestInv, RunsKnown
      <3>6. \A i \in 1..Len(ledger') :
              /\ ledger'[i].ok => ledger'[i].closed
              /\ ledger'[i].closed => (ledger'[i].ok <=> i \in committed')
        BY <2>1, <2>3 DEF IngestInv, RunsKnown
      <3> QED
        BY <2>4, <3>3, <3>4, <3>5, <3>6 DEF RunsKnown
    <2>10. SeenKnown'
      BY <2>1, <2>5, <2>6 DEF IngestInv, SeenKnown
    <2>11. TableKnown'
      <3> SUFFICES ASSUME ~mixed' PROVE TableKnown'
        BY DEF TableKnown
      <3>1. TableKnown /\ ~mixed
        BY <2>1 DEF IngestInv
      <3>2. InProgress(u) /\ \A v \in Runners : InProgress(v)' => InProgress(v)
        BY <2>1, <2>6 DEF InProgress
      <3>3. \A v \in Runners : InProgress(v) => v = u
        BY <3>1, <3>2 DEF TableKnown
      <3>4. \A v \in Runners : Writing(v)' => v = u
        BY <3>2, <3>3 DEF Writing, WritingPcs, InProgress
      <3>5. /\ \A v, w \in Runners : InProgress(v)' /\ InProgress(w)' => v = w
            /\ \A v \in Runners : Writing(v)' => run'[v].run = Len(ledger')
            /\ \A v \in Runners : run'[v].pc \notin {"replace", "close_ok"}
        BY <2>3, <2>5, <2>6, <3>2, <3>3, <3>4 DEF InProgress
      <3>6. ~LatestCatalogMeta'.ok
        BY <2>3 DEF LatestCatalogMeta
      <3> QED
        BY <2>1, <3>1, <3>5, <3>6 DEF TableKnown
    <2> QED
      BY <2>8, <2>9, <2>10, <2>11 DEF IngestInv
  <1>3. \/ Goto(u, "raise") /\ UNCHANGED ledger
        \/ ledger' = Append(ledger, new) /\ run' = [run EXCEPT ![u] = r]
    <2>1. run \in [Runners -> Rounds]
      BY DEF IngestInv, TypeOK, Rounds
    <2> QED
      BY <2>1 DEF OpenIngestRun
  <1> QED
    BY <1>1, <1>2, <1>3

\* A row with a code is told apart by its code.
LEMMA SameCode ==
  ASSUME NEW r, NEW s, CodeOf[r] # NoCode
  PROVE  Identity(r) = Identity(s) <=> CodeOf[r] = CodeOf[s]
  BY DEF Identity

\* What the transaction of a round writes over the table.
Table(seen, rows, hit, novel, fresh) ==
  {c \in courses : c.id \notin Ids(hit) \cup Ids(Vanished(seen, rows))}
  \cup {[id |-> c.id, row |-> CHOOSE r \in rows : Identity(r) = Identity(c.row)] : c \in hit}
  \cup {[id |-> fresh[r], row |-> r] : r \in novel}

Novel(seen, rows) == {r \in rows : Identity(r) \notin Identities({c.row : c \in seen})}

\* A round may write: it found its hits, and nothing in the table is in their way.
MayWrite(u, rows, hit, fresh) ==
  /\ rows \subseteq Rows
  /\ \A a, b \in rows : Identity(a) = Identity(b) => a = b
  /\ hit \in Hits(run[u].seen, rows)
  /\ ~Conflict(hit, Novel(run[u].seen, rows))
  /\ fresh \in Injection(Novel(run[u].seen, rows), CourseIds \ issued)

\* The new table has no primary key and no code twice, what rounds read before
\* stands for the same identities, and if nothing changed meanwhile it is the scrape.
WellWritten(u, rows, fresh, table) ==
  /\ table \subseteq Courses
  /\ \A c, d \in table :
       c.id = d.id \/ (CodeOf[c.row] # NoCode /\ CodeOf[c.row] = CodeOf[d.row]) => c = d
  /\ Ids(table) \subseteq issued \cup Range(fresh) /\ Range(fresh) \subseteq CourseIds
  /\ \A v \in Runners : \A c \in run[v].seen : \A d \in table :
       c.id = d.id => Identity(c.row) = Identity(d.row)
  /\ run[u].seen = courses /\ (\A c, d \in courses : Identity(c.row) = Identity(d.row) => c = d)
       => /\ {c.row : c \in table} = rows
          /\ \A c, d \in table : Identity(c.row) = Identity(d.row) => c = d

LEMMA TableWritten ==
  ASSUME IngestInv, NEW u \in Runners, NEW rows, NEW hit, NEW fresh,
         MayWrite(u, rows, hit, fresh)
  PROVE  WellWritten(u, rows, fresh,
           Table(run[u].seen, rows, hit, Novel(run[u].seen, rows), fresh))
  <1> SUFFICES ASSUME NEW seen, seen = run[u].seen, NEW novel, novel = Novel(seen, rows),
                      NEW table, table = Table(seen, rows, hit, novel, fresh)
               PROVE  WellWritten(u, rows, fresh, table)
    OBVIOUS
  <1>0. /\ rows \subseteq Rows
        /\ \A a, b \in rows : Identity(a) = Identity(b) => a = b
        /\ hit \in Hits(seen, rows) /\ ~Conflict(hit, novel)
        /\ fresh \in Injection(novel, CourseIds \ issued)
    BY DEF MayWrite
  <1> USE <1>0
  <1> DEFINE Now(h) == CHOOSE r \in rows : Identity(r) = Identity(h.row)
             Kept(c) == c \in courses /\ c.id \notin Ids(hit) /\ c.id \notin Ids(Vanished(seen, rows))
             Hit(c) == \E h \in hit : c = [id |-> h.id, row |-> Now(h)]
             Old(c) == Kept(c) \/ Hit(c)
             New(c) == \E r \in novel : c = [id |-> fresh[r], row |-> r]
  <1>1. \A c : c \in table <=> Old(c) \/ New(c)
    BY DEF Table
  <1>2. /\ courses \subseteq Courses /\ seen \subseteq Courses /\ issued \subseteq CourseIds
        /\ \A c \in courses : c.id \in issued
        /\ \A c, d \in courses : c.id = d.id => c = d
        /\ \A c, d \in courses : CodeOf[c.row] # NoCode /\ CodeOf[c.row] = CodeOf[d.row] => c = d
    BY DEF IngestInv, TypeOK, Ids
  <1>3. \A v \in Runners : \A c \in run[v].seen :
          /\ c.id \in issued
          /\ \A d \in run[v].seen : c.id = d.id => c = d
          /\ \A d \in courses : c.id = d.id => Identity(c.row) = Identity(d.row)
    BY DEF IngestInv, SeenKnown
  <1>4. \A h \in hit : h \in seen /\ Now(h) \in rows /\ Identity(Now(h)) = Identity(h.row)
    BY DEF Hits, Identities
  <1>5. \A h, g \in hit : Identity(h.row) = Identity(g.row) => h = g
    BY DEF Hits
  <1>6. /\ \A h \in hit : \E d \in courses : d.id = h.id
        /\ \A r \in novel, c \in courses : ~(CodeOf[r] # NoCode /\ CodeOf[c.row] = CodeOf[r])
    BY DEF Conflict, Ids
  <1>7. \A r \in novel : r \in rows /\ \A c \in seen : Identity(c.row) # Identity(r)
    BY DEF Novel, Identities
  <1>8. /\ \A r \in novel : fresh[r] \in CourseIds /\ fresh[r] \notin issued
        /\ \A r, s \in novel : fresh[r] = fresh[s] => r = s
        /\ DOMAIN fresh = novel
    BY DEF Injection, IsInjective
  <1> HIDE DEF Now, Kept
  <1>9. ASSUME NEW c, Old(c)
        PROVE  /\ c \in Courses /\ c.id \in issued
               /\ \E d \in courses : d.id = c.id /\ Identity(d.row) = Identity(c.row)
    <2>1. CASE Kept(c)
      BY <1>2, <2>1 DEF Kept
    <2>2. CASE Hit(c)
      <3>1. PICK h \in hit : c = [id |-> h.id, row |-> Now(h)]
        BY <2>2
      <3>2. h \in seen /\ Now(h) \in Rows /\ Identity(c.row) = Identity(h.row) /\ c.id = h.id
        BY <1>4, <3>1
      <3>3. h.id \in issued /\ \E d \in courses : d.id = h.id /\ Identity(d.row) = Identity(h.row)
        BY <1>3, <1>6, <3>2
      <3>4. c \in Courses
        BY <1>2, <3>1, <3>2 DEF Courses
      <3> QED
        BY <3>2, <3>3, <3>4
    <2> QED
      BY <1>9, <2>1, <2>2
  <1>10. ASSUME NEW c, New(c)
         PROVE  /\ c \in Courses /\ c.row \in novel /\ c.row \in rows
                /\ c.id = fresh[c.row] /\ c.id \notin issued /\ c = [id |-> c.id, row |-> c.row]
    BY <1>7, <1>8, <1>10 DEF Courses
  <1>11. ASSUME NEW c, NEW d, Old(c), Old(d), c.id = d.id PROVE c = d
    <2>1. \A h \in hit : h.id \in Ids(hit)
      BY DEF Ids
    <2>2. CASE Kept(c) /\ Kept(d)
      BY <1>2, <1>11, <2>2 DEF Kept
    <2>3. CASE Hit(c) /\ Hit(d)
      <3>1. PICK h \in hit : c = [id |-> h.id, row |-> Now(h)]
        BY <2>3
      <3>2. PICK g \in hit : d = [id |-> g.id, row |-> Now(g)]
        BY <2>3
      <3>3. h = g
        BY <1>3, <1>4, <1>11, <3>1, <3>2
      <3> QED
        BY <3>1, <3>2, <3>3
    <2>4. ASSUME NEW x, NEW y, Kept(x), Hit(y) PROVE x.id # y.id
      BY <2>1, <2>4 DEF Kept
    <2> QED
      BY <1>11, <2>2, <2>3, <2>4
  <1>12. ASSUME NEW c, NEW d, New(c), New(d), Identity(c.row) = Identity(d.row) \/ c.id = d.id
         PROVE  c = d
    BY <1>8, <1>10, <1>12
  <1>13. ASSUME NEW c, NEW d, Old(c), New(d), CodeOf[d.row] # NoCode
         PROVE  CodeOf[c.row] # CodeOf[d.row]
    <2>1. CASE Kept(c)
      BY <1>6, <1>10, <1>13, <2>1 DEF Kept
    <2>2. CASE Hit(c)
      <3>1. PICK h \in hit : c = [id |-> h.id, row |-> Now(h)]
        BY <2>2
      <3>2. Identity(c.row) = Identity(h.row) /\ h \in seen
        BY <1>4, <3>1
      <3>3. Identity(c.row) # Identity(d.row)
        BY <1>7, <1>10, <1>13, <3>2
      <3> QED
        BY <1>13, <3>3, SameCode
    <2> QED
      BY <1>13, <2>1, <2>2
  <1>14. ASSUME NEW c, NEW d, Old(c), Old(d), CodeOf[c.row] # NoCode, CodeOf[c.row] = CodeOf[d.row]
         PROVE  c = d
    <2>1. PICK b \in courses : b.id = c.id /\ Identity(b.row) = Identity(c.row)
      BY <1>9, <1>14
    <2>2. PICK a \in courses : a.id = d.id /\ Identity(a.row) = Identity(d.row)
      BY <1>9, <1>14
    <2>3. CodeOf[b.row] = CodeOf[c.row] /\ CodeOf[a.row] = CodeOf[d.row]
      BY <1>14, <2>1, <2>2, SameCode
    <2>4. b = a
      BY <1>2, <1>14, <2>3
    <2> QED
      BY <1>11, <1>14, <2>1, <2>2, <2>4
  <1> HIDE DEF Old, New
  <1>15. table \subseteq Courses
    BY <1>1, <1>9, <1>10
  <1>16. ASSUME NEW c \in table, NEW d \in table,
                c.id = d.id \/ (CodeOf[c.row] # NoCode /\ CodeOf[c.row] = CodeOf[d.row])
         PROVE  c = d
    <2>1. CASE Old(c) /\ Old(d)
      BY <1>11, <1>14, <1>16, <2>1
    <2>2. CASE Old(c) /\ New(d)
      BY <1>9, <1>10, <1>13, <1>16, <2>2
    <2>3. CASE New(c) /\ Old(d)
      BY <1>9, <1>10, <1>13, <1>16, <2>3
    <2>4. CASE New(c) /\ New(d)
      BY <1>12, <1>16, <2>4, SameCode
    <2> QED
      BY <1>1, <2>1, <2>2, <2>3, <2>4
  <1>17. Ids(table) \subseteq issued \cup Range(fresh) /\ Range(fresh) \subseteq CourseIds
    <2>1. \A r \in novel : fresh[r] \in Range(fresh)
      BY <1>8 DEF Range
    <2>2. Range(fresh) \subseteq CourseIds
      BY <1>8 DEF Range
    <2>3. \A c \in table : c.id \in issued \cup Range(fresh)
      BY <1>1, <1>9, <1>10, <2>1
    <2> QED
      BY <2>2, <2>3 DEF Ids
  <1>18. ASSUME NEW v \in Runners, NEW c \in run[v].seen, NEW d \in table, c.id = d.id
         PROVE  Identity(c.row) = Identity(d.row)
    <2>1. Old(d)
      BY <1>1, <1>3, <1>10, <1>18
    <2>2. PICK b \in courses : b.id = d.id /\ Identity(b.row) = Identity(d.row)
      BY <1>9, <2>1
    <2> QED
      BY <1>3, <1>18, <2>2
  <1>19. ASSUME seen = courses, \A c, d \in courses : Identity(c.row) = Identity(d.row) => c = d
         PROVE  /\ {c.row : c \in table} = rows
                /\ \A c, d \in table : Identity(c.row) = Identity(d.row) => c = d
    <2>1. ASSUME NEW c \in seen PROVE c \in hit \/ c.id \in Ids(Vanished(seen, rows))
      <3>1. CASE Identity(c.row) \in Identities(rows)
        <4>1. PICK h \in hit : Identity(h.row) = Identity(c.row)
          BY <3>1 DEF Hits, Identities
        <4> QED
          BY <1>4, <1>19, <4>1
      <3>2. CASE Identity(c.row) \notin Identities(rows)
        BY <3>2 DEF Vanished, Ids
      <3> QED
        BY <3>1, <3>2
    <2>2. \A c : ~Kept(c)
      BY <1>19, <2>1 DEF Kept, Ids
    <2>3. ASSUME NEW c \in table
          PROVE  c.row \in rows /\ (New(c) \/ \E h \in hit : c = [id |-> h.id, row |-> Now(h)])
      BY <1>1, <1>4, <1>10, <2>2 DEF Old
    <2>4. ASSUME NEW r \in rows PROVE \E c \in table : c.row = r
      <3>1. CASE r \in novel
        <4>1. New([id |-> fresh[r], row |-> r])
          BY <3>1 DEF New
        <4> QED
          BY <1>1, <4>1
      <3>2. CASE r \notin novel
        <4>1. PICK c \in seen : Identity(c.row) = Identity(r)
          BY <3>2 DEF Novel, Identities
        <4>2. Identity(c.row) \in Identities(rows)
          BY <4>1 DEF Identities
        <4>3. PICK h \in hit : Identity(h.row) = Identity(c.row)
          BY <4>2 DEF Hits, Identities
        <4>4. Now(h) = r
          BY <1>4, <4>1, <4>3
        <4>5. Old([id |-> h.id, row |-> Now(h)])
          BY DEF Old
        <4>6. [id |-> h.id, row |-> Now(h)] \in table
          BY <1>1, <4>5
        <4> QED
          BY <4>4, <4>6
      <3> QED
        BY <3>1, <3>2
    <2>5. {c.row : c \in table} = rows
      BY <2>3, <2>4
    <2>6. ASSUME NEW c \in table, NEW d \in table, Identity(c.row) = Identity(d.row) PROVE c = d
      <3>1. ASSUME NEW x, NEW h \in hit, x = [id |-> h.id, row |-> Now(h)],
                   NEW y, New(y), Identity(x.row) = Identity(y.row)
            PROVE  FALSE
        BY <1>4, <1>7, <1>10, <3>1
      <3>2. CASE New(c) /\ New(d)
        BY <1>12, <2>6, <3>2
      <3>3. CASE ~New(c) /\ ~New(d)
        <4>1. PICK h \in hit : c = [id |-> h.id, row |-> Now(h)]
          BY <2>3, <3>3
        <4>2. PICK g \in hit : d = [id |-> g.id, row |-> Now(g)]
          BY <2>3, <3>3
        <4>3. Identity(h.row) = Identity(g.row)
          BY <1>4, <2>6, <4>1, <4>2
        <4> QED
          BY <1>5, <4>1, <4>2, <4>3
      <3> QED
        BY <2>3, <2>6, <3>1, <3>2, <3>3
    <2> QED
      BY <2>5, <2>6
  <1> QED
    BY <1>15, <1>16, <1>17, <1>18, <1>19 DEF WellWritten

LEMMA ReplaceStep ==
  ASSUME IngestInv, NEW u \in Runners, ReplaceYearSemSnapshot(u) PROVE IngestInv'
  <1> DEFINE rows == Distinct(run[u].site)
             seen == run[u].seen
             novel == {r \in rows : Identity(r) \notin Identities({c.row : c \in seen})}
             r == [run[u] EXCEPT !.pc = "close_ok", !.seen = {}]
  <1>1. /\ run[u].pc = "replace" /\ UNCHANGED <<lock, ledger, mixed>>
        /\ run \in [Runners -> Rounds] /\ run[u] \in Rounds /\ run[u].site \in Sites
    BY DEF ReplaceYearSemSnapshot, IngestInv, TypeOK, Rounds, RunsKnown
  <1>2. CASE Fail(u) /\ UNCHANGED <<courses, issued, committed, last>>
    BY <1>1, <1>2, FailedSteps
  <1>3. CASE ~(Fail(u) /\ UNCHANGED <<courses, issued, committed, last>>)
    <2>1. PICK hit \in Hits(seen, rows) :
            /\ ~Conflict(hit, novel)
            /\ Injection(novel, CourseIds \ issued) # {}
            /\ LET fresh == CHOOSE f \in Injection(novel, CourseIds \ issued) : TRUE IN
               /\ issued' = issued \cup Range(fresh)
               /\ courses' = Table(seen, rows, hit, novel, fresh)
            /\ committed' = committed \cup {run[u].run}
            /\ last' = run[u].site
            /\ run' = [run EXCEPT ![u].pc = "close_ok", ![u].seen = {}]
      BY <1>3 DEF ReplaceYearSemSnapshot, Table
    <2> DEFINE fresh == CHOOSE f \in Injection(novel, CourseIds \ issued) : TRUE
    <2>2. /\ fresh \in Injection(novel, CourseIds \ issued)
          /\ issued' = issued \cup Range(fresh)
          /\ courses' = Table(seen, rows, hit, novel, fresh)
      BY <2>1
    <2>3. /\ rows \subseteq Rows
          /\ \A a, b \in rows : Identity(a) = Identity(b) => a = b
      BY <1>1, DistinctRows
    <2> HIDE DEF fresh
    <2>4. novel = Novel(seen, rows) /\ seen = run[u].seen
      BY DEF Novel
    <2>5. MayWrite(u, rows, hit, fresh)
      BY <2>1, <2>2, <2>3, <2>4 DEF MayWrite
    <2> HIDE DEF novel, rows, seen
    <2>6. WellWritten(u, rows, fresh, courses')
      <3>1. WellWritten(u, rows, fresh,
              Table(run[u].seen, rows, hit, Novel(run[u].seen, rows), fresh))
        BY <2>5, TableWritten
      <3> QED
        BY <2>2, <2>4, <3>1
    <2>7. /\ run' = [run EXCEPT ![u] = r] /\ r \in Rounds /\ r.pc = "close_ok" /\ r.seen = {}
          /\ r.run = run[u].run /\ r.site = run[u].site
      BY <1>1, <2>1 DEF Rounds, Pcs
    <2> HIDE DEF r
    <2>8. /\ \A v \in Runners : run'[v] = IF v = u THEN r ELSE run[v]
          /\ run' \in [Runners -> Rounds]
      BY <1>1, <2>7
    <2>9. /\ run[u].run \in 1..Len(ledger) /\ ~ledger[run[u].run].closed
          /\ run[u].run \notin committed
      BY <1>1 DEF IngestInv, RunsKnown, Writing, WritingPcs
    <2>10. TypeOK'
      <3>1. Ids(courses)' \subseteq issued' /\ issued' \subseteq CourseIds
        BY <2>2, <2>6 DEF WellWritten, IngestInv, TypeOK, Ids
      <3>2. committed' \subseteq 1..Len(ledger')
        BY <1>1, <2>1, <2>9 DEF IngestInv, TypeOK
      <3> QED
        BY <1>1, <2>1, <2>6, <2>8, <3>1, <3>2 DEF WellWritten, IngestInv, TypeOK, Rounds
    <2>11. RunsKnown'
      <3>1. {v \in Runners : run'[v].pc = "open"} = {v \in Runners : run[v].pc = "open"}
        BY <1>1, <2>7, <2>8
      <3>2. IsFiniteSet({v \in Runners : run'[v].pc = "open"}) /\ Started' <= MaxRuns
        BY <1>1, <3>1 DEF IngestInv, RunsKnown, Started
      <3>3. \A v \in Runners : Writing(v)' =>
              Writing(v) /\ run'[v].run = run[v].run /\ (v # u => run'[v] = run[v])
        BY <1>1, <2>7, <2>8 DEF Writing, WritingPcs
      <3>4. \A v, w \in Runners : v # w /\ Writing(v) /\ Writing(w) => run[v].run # run[w].run
        BY DEF IngestInv, RunsKnown
      <3>5. Writing(u)
        BY <1>1 DEF Writing, WritingPcs
      <3>6. \A v \in Runners : Writing(v)' =>
              /\ run'[v].run \in 1..Len(ledger') /\ ~ledger'[run'[v].run].closed
              /\ run'[v].pc = "close_ok" <=> run'[v].run \in committed'
        <4> SUFFICES ASSUME NEW v \in Runners, Writing(v)'
                     PROVE  /\ run'[v].run \in 1..Len(ledger') /\ ~ledger'[run'[v].run].closed
                            /\ run'[v].pc = "close_ok" <=> run'[v].run \in committed'
          OBVIOUS
        <4>1. CASE v = u
          BY <1>1, <2>1, <2>7, <2>8, <2>9, <4>1
        <4>2. CASE v # u
          <5>1. /\ run[v].run \in 1..Len(ledger) /\ ~ledger[run[v].run].closed
                /\ run[v].pc = "close_ok" <=> run[v].run \in committed
            BY <3>3 DEF IngestInv, RunsKnown
          <5> QED
            BY <1>1, <2>1, <3>3, <3>4, <3>5, <4>2, <5>1
        <4> QED
          BY <4>1, <4>2
      <3>7. \A v, w \in Runners : v # w /\ Writing(v)' /\ Writing(w)' => run'[v].run # run'[w].run
        BY <3>3, <3>4
      <3>8. \A v \in Runners : run'[v].pc \in {"read", "replace", "close_ok"} => run'[v].site \in Sites
        BY <1>1, <2>7, <2>8 DEF IngestInv, RunsKnown
      <3>9. \A i \in 1..Len(ledger') :
              /\ ledger'[i].ok => ledger'[i].closed
              /\ ledger'[i].closed => (ledger'[i].ok <=> i \in committed')
        BY <1>1, <2>1, <2>9 DEF IngestInv, RunsKnown
      <3> QED
        BY <3>2, <3>6, <3>7, <3>8, <3>9 DEF RunsKnown
    <2>12. SeenKnown'
      <3>1. \A v \in Runners : run'[v].seen \in {{}, run[v].seen}
        BY <2>7, <2>8
      <3> QED
        BY <2>2, <2>6, <3>1 DEF WellWritten, IngestInv, SeenKnown
    <2>13. TableKnown'
      <3> SUFFICES ASSUME ~mixed' PROVE TableKnown'
        BY DEF TableKnown
      <3>1. TableKnown /\ ~mixed
        BY <1>1 DEF IngestInv
      <3>2. /\ seen = courses
            /\ \A c, d \in courses : Identity(c.row) = Identity(d.row) => c = d
        BY <1>1, <2>4, <3>1 DEF TableKnown
      <3>3. /\ {c.row : c \in courses'} = Distinct(last')
            /\ \A c, d \in courses' : Identity(c.row) = Identity(d.row) => c = d
        BY <2>1, <2>4, <2>6, <3>2 DEF WellWritten, rows
      <3>4. InProgress(u) /\ \A v \in Runners : InProgress(v)' => InProgress(v)
        BY <1>1, <2>8 DEF InProgress
      <3>5. \A v \in Runners : InProgress(v) => v = u
        BY <3>1, <3>4 DEF TableKnown
      <3>6. \A v \in Runners : Writing(v)' => run'[v].run = Len(ledger')
        <4>1. run[u].run = Len(ledger)
          BY <1>1, <3>1 DEF TableKnown, Writing, WritingPcs
        <4>2. \A v \in Runners : Writing(v)' => v = u
          BY <3>4, <3>5 DEF Writing, WritingPcs, InProgress
        <4> QED
          BY <1>1, <2>7, <2>8, <4>1, <4>2
      <3>7. \A v \in Runners : /\ run'[v].pc # "replace"
                               /\ run'[v].pc = "close_ok" => run'[v].site = last'
        BY <2>1, <2>7, <2>8, <3>4, <3>5 DEF InProgress
      <3>8. last' # <<>>
        BY <1>1, <2>1, SitesAssumption
      <3>9. ~LatestCatalogMeta'.ok
        <4>1. run[u].run = Len(ledger)
          BY <1>1, <3>1 DEF TableKnown, Writing, WritingPcs
        <4> QED
          BY <1>1, <2>9, <4>1 DEF LatestCatalogMeta, IngestInv, RunsKnown
      <3> QED
        BY <3>3, <3>4, <3>5, <3>6, <3>7, <3>8, <3>9 DEF TableKnown
    <2> QED
      BY <2>10, <2>11, <2>12, <2>13 DEF IngestInv
  <1> QED
    BY <1>2, <1>3

LEMMA CloseStep == ASSUME IngestInv, NEW u \in Runners, CloseIngestRun(u) PROVE IngestInv'
  <1> DEFINE R == [ok : BOOLEAN, closed : BOOLEAN, rows : Nat]
             ok == run[u].pc = "close_ok"
             n == run[u].run
             new == [ok |-> ok, closed |-> TRUE,
                     rows |-> IF ok THEN Cardinality(Distinct(run[u].site)) ELSE 0]
             r == [run[u] EXCEPT !.pc = "release", !.site = <<>>]
  <1>1. /\ run[u].pc \in {"close_ok", "close_failed"}
        /\ UNCHANGED <<lock, courses, issued, committed, last, mixed>>
        /\ run \in [Runners -> Rounds] /\ run[u] \in Rounds /\ ledger \in Seq(R)
    BY DEF CloseIngestRun, IngestInv, TypeOK, Rounds
  <1>2. CASE Goto(u, "raise") /\ UNCHANGED ledger
    BY <1>1, <1>2, FailedSteps
  <1>3. CASE ~(Goto(u, "raise") /\ UNCHANGED ledger)
    <2>1. ledger' = [ledger EXCEPT ![n] = new] /\ run' = [run EXCEPT ![u] = r]
      BY <1>1, <1>3 DEF CloseIngestRun
    <2>2. Writing(u) /\ InProgress(u) /\ n \in 1..Len(ledger) /\ (ok <=> n \in committed)
      BY <1>1 DEF IngestInv, RunsKnown, Writing, WritingPcs, InProgress
    <2>3. /\ new \in R /\ new.closed /\ (new.ok <=> ok)
          /\ ok => new.rows = Cardinality(Distinct(run[u].site))
      <3>1. ok => run[u].site \in Sites
        BY DEF IngestInv, RunsKnown
      <3>2. ok => Cardinality(Distinct(run[u].site)) \in Nat
        BY <3>1, DistinctRows, FS_CardinalityType
      <3> QED
        BY <3>2
    <2>4. r \in Rounds /\ r.pc = "release" /\ r.run = run[u].run /\ r.seen = run[u].seen
      BY <1>1 DEF Rounds, Pcs
    <2> HIDE DEF r, new, ok
    <2>5. /\ Len(ledger) \in Nat /\ Len(ledger') = Len(ledger) /\ ledger' \in Seq(R)
          /\ \A i \in 1..Len(ledger) : ledger'[i] = IF i = n THEN new ELSE ledger[i]
      <3> HIDE DEF R
      <3> QED
        BY <1>1, <2>1, <2>2, <2>3
    <2>6. /\ \A v \in Runners : run'[v] = IF v = u THEN r ELSE run[v]
          /\ run' \in [Runners -> Rounds]
      BY <1>1, <2>1, <2>4
    <2>7. \A v \in Runners : Writing(v)' => v # u /\ Writing(v) /\ run'[v] = run[v]
      BY <2>4, <2>6 DEF Writing, WritingPcs
    <2>8. TypeOK'
      <3>1. committed' \subseteq 1..Len(ledger')
        BY <1>1, <2>5 DEF IngestInv, TypeOK
      <3> QED
        BY <1>1, <2>5, <2>6, <3>1 DEF IngestInv, TypeOK, Rounds
    <2>9. RunsKnown'
      <3>1. {v \in Runners : run'[v].pc = "open"} = {v \in Runners : run[v].pc = "open"}
        BY <1>1, <2>4, <2>6
      <3>2. IsFiniteSet({v \in Runners : run'[v].pc = "open"}) /\ Started' <= MaxRuns
        BY <1>1, <2>5, <3>1 DEF IngestInv, RunsKnown, Started
      <3>3. \A v \in Runners : Writing(v)' => n # run[v].run
        BY <2>2, <2>7 DEF IngestInv, RunsKnown
      <3>4. \A v \in Runners : Writing(v)' =>
              /\ run'[v].run \in 1..Len(ledger') /\ ~ledger'[run'[v].run].closed
              /\ run'[v].pc = "close_ok" <=> run'[v].run \in committed'
        <4> HIDE DEF n
        <4> QED
          BY <1>1, <2>5, <2>7, <3>3 DEF IngestInv, RunsKnown
      <3>5. \A v, w \in Runners : v # w /\ Writing(v)' /\ Writing(w)' => run'[v].run # run'[w].run
        BY <2>7 DEF IngestInv, RunsKnown
      <3>6. \A v \in Runners : run'[v].pc \in {"read", "replace", "close_ok"} => run'[v].site \in Sites
        BY <2>4, <2>6 DEF WellWritten, IngestInv, RunsKnown
      <3>7. \A i \in 1..Len(ledger') :
              /\ ledger'[i].ok => ledger'[i].closed
              /\ ledger'[i].closed => (ledger'[i].ok <=> i \in committed')
        BY <1>1, <2>2, <2>3, <2>5 DEF IngestInv, RunsKnown
      <3> QED
        BY <3>2, <3>4, <3>5, <3>6, <3>7 DEF RunsKnown
    <2>10. SeenKnown'
      BY <1>1, <2>4, <2>6 DEF WellWritten, IngestInv, SeenKnown
    <2>11. TableKnown'
      <3> SUFFICES ASSUME ~mixed' PROVE TableKnown'
        BY DEF TableKnown
      <3>1. TableKnown /\ ~mixed
        BY <1>1 DEF IngestInv
      <3>2. \A v \in Runners : InProgress(v)' => InProgress(v)
        BY <2>2, <2>6 DEF InProgress
      <3>3. \A v, w \in Runners : InProgress(v)' /\ InProgress(w)' => v = w
        BY <3>1, <3>2 DEF TableKnown
      <3>4. \A v \in Runners : Writing(v)' => run'[v].run = Len(ledger')
        BY <2>5, <2>7, <3>1 DEF TableKnown
      <3>5. \A v \in Runners : /\ run'[v].pc = "replace" => run'[v].seen = courses'
                               /\ run'[v].pc = "close_ok" => run'[v].site = last'
        BY <1>1, <2>4, <2>6, <3>1 DEF TableKnown
      <3>6. n = Len(ledger)
        BY <2>2, <3>1 DEF TableKnown
      <3>7. LatestCatalogMeta' = new
        BY <2>2, <2>5, <3>6 DEF LatestCatalogMeta
      <3>8. ok => run[u].site = last /\ last \in Sites
        BY <3>1 DEF TableKnown, ok, IngestInv, RunsKnown
      <3>9. LatestCatalogMeta'.ok =>
              last' # <<>> /\ LatestCatalogMeta'.rows = Cardinality(Distinct(last'))
        BY <1>1, <2>3, <3>7, <3>8, SitesAssumption
      <3> QED
        BY <1>1, <3>1, <3>3, <3>4, <3>5, <3>9 DEF TableKnown
    <2> QED
      BY <2>8, <2>9, <2>10, <2>11 DEF IngestInv
  <1> QED
    BY <1>2, <1>3

LEMMA IngestStep == IngestInv /\ [Next]_vars => IngestInv'
  BY QuietSteps, ClockSteps, OpenStep, ReplaceStep, CloseStep DEF Next, RunIngest

LEMMA RoundsInvariant == Spec => []IngestInv
  BY IngestInit, IngestStep, PTL DEF Spec

\* The values the rounds work with; above all, whatever rounds overlap, no primary
\* key and no school code is in the table twice (the unique constraints of courses).
THEOREM IngestTypes == Spec => []TypeOK
  <1>1. IngestInv => TypeOK
    BY DEF IngestInv
  <1> QED
    BY <1>1, RoundsInvariant, PTL

\* While no two rounds were mixed, the table holds one course of every identity on
\* the pages that were committed last, and no other.
THEOREM TableFollowsScrape == Spec => []TableIsLastScrape
  <1>1. IngestInv => TableIsLastScrape
    <2> SUFFICES ASSUME IngestInv, ~mixed PROVE TableIsLastScrape
      BY DEF TableIsLastScrape
    <2> DEFINE rows == IF last = <<>> THEN {} ELSE Distinct(last)
               offered == IF last = <<>> THEN {} ELSE Offered(last)
    <2>1. /\ {c.row : c \in courses} = rows
          /\ \A c, d \in courses : Identity(c.row) = Identity(d.row) => c = d
      BY DEF IngestInv, TableKnown
    <2>2. last = <<>> \/ last \in Sites
      BY DEF IngestInv, TypeOK
    <2>3. /\ rows \subseteq offered /\ Identities(rows) = Identities(offered) /\ IsFiniteSet(rows)
          /\ \A a, b \in rows : Identity(a) = Identity(b) => a = b
      <3>1. CASE last = <<>>
        BY <3>1, FS_EmptySet
      <3>2. CASE last # <<>>
        BY <2>2, <3>2, DistinctRows
      <3> QED
        BY <3>1, <3>2
    <2> HIDE DEF rows, offered
    <2>4. Cardinality(courses) = Cardinality(Identities(offered))
      <3> DEFINE f == [i \in Identities(rows) |-> CHOOSE c \in courses : Identity(c.row) = i]
                 g == [r \in rows |-> Identity(r)]
      <3>1. g \in Surjection(rows, Identities(rows))
        BY DEF Surjection, Identities
      <3>2. IsFiniteSet(Identities(rows))
        BY <2>3, <3>1, FS_Surjection
      <3>3. \A i \in Identities(rows) : \E c \in courses : Identity(c.row) = i
        BY <2>1 DEF Identities
      <3>4. \A c \in courses : Identity(c.row) \in Identities(rows)
        BY <2>1 DEF Identities
      <3>5. f \in Bijection(Identities(rows), courses)
        BY <2>1, <3>3, <3>4 DEF Bijection, Injection, IsInjective, Surjection
      <3>6. Cardinality(courses) = Cardinality(Identities(rows))
        BY <3>2, <3>5, FS_Bijection DEF ExistsBijection
      <3> QED
        BY <2>3, <3>6
    <2> QED
      BY <2>1, <2>3, <2>4 DEF TableIsLastScrape, offered
  <1> QED
    BY <1>1, RoundsInvariant, PTL

\* The ledger never claims a transaction that did not commit, nor disowns one that
\* did, and while no rounds were mixed the newest run, when ok, counts what is served.
THEOREM LedgerTellsTruth == Spec => []LedgerIsTrue
  <1>1. IngestInv => LedgerIsTrue
    <2> SUFFICES ASSUME IngestInv PROVE LedgerIsTrue
      OBVIOUS
    <2>1. ASSUME ~mixed, ledger # <<>>, LatestCatalogMeta.ok
          PROVE  LatestCatalogMeta.rows = Cardinality(courses)
      <3>1. /\ last # <<>> /\ LatestCatalogMeta.rows = Cardinality(Distinct(last))
            /\ {c.row : c \in courses} = Distinct(last)
            /\ \A c, d \in courses : Identity(c.row) = Identity(d.row) => c = d
        BY <2>1 DEF IngestInv, TableKnown
      <3>2. IsFiniteSet(Distinct(last))
        BY <3>1, DistinctRows DEF IngestInv, TypeOK
      <3> DEFINE f == [r \in Distinct(last) |-> CHOOSE c \in courses : c.row = r]
      <3>3. \A r \in Distinct(last) : \E c \in courses : c.row = r
        BY <3>1
      <3>4. \A c \in courses : c.row \in Distinct(last)
        BY <3>1
      <3>5. f \in Bijection(Distinct(last), courses)
        BY <3>1, <3>3, <3>4 DEF Bijection, Injection, IsInjective, Surjection
      <3> QED
        BY <3>1, <3>2, <3>5, FS_Bijection DEF ExistsBijection
    <2>2. \A i \in 1..Len(ledger) : ledger[i].closed => (ledger[i].ok <=> i \in committed)
      BY DEF IngestInv, RunsKnown
    <2> QED
      BY <2>1, <2>2 DEF LedgerIsTrue
  <1> QED
    BY <1>1, RoundsInvariant, PTL

=============================================================================
