---------------------------- MODULE SchoolCaches ----------------------------
(***************************************************************************)
(* The read side's caches in Redis.  The schedule is one blob that never   *)
(* expires: its age decides whether a reader refreshes it, under a mutex   *)
(* that is deleted without a token.  The current semester, the list of     *)
(* departments and an outline are read through a key with a lifetime,      *)
(* without any mutex; they differ in where they read and in what a failing *)
(* cache write costs.                                                      *)
(*                                                                         *)
(* Time is kept as ages in ticks, saturated where nothing tells them apart. *)
(***************************************************************************)
EXTENDS Naturals, FiniteSets

CONSTANTS
  Readers,     \* handlers
  Freshness,   \* FRESHNESS_SECONDS, in ticks
  MutexTtl,    \* REFRESH_LOCK_TTL, in ticks
  KeyTtl,      \* the lifetime of a read-through key, in ticks
  MaxFetch,    \* bound: ticks from a handler's first command to its last
  Never        \* no cached value

ASSUME CacheAssumption ==
  /\ Freshness \in Nat \ {0} /\ MutexTtl \in Nat \ {0} /\ KeyTtl \in Nat \ {0}
  /\ MaxFetch \in Nat /\ Never \notin Nat

VARIABLES
  blob,     \* schedule:selcrs:v1: the ages of its fetched_at and of its page
  mutex,    \* ticks left of schedule:selcrs:refresh, 0 when absent
  key,      \* a read-through key: the age of its source's reading, and ticks left
  reader,   \* the handlers
  over      \* ghost: some refresh outlived its mutex

cacheVars == <<blob, mutex, key, reader, over>>

Oldest == Freshness + KeyTtl + MaxFetch

Aged(a) == IF a \in {Never, Oldest} THEN a ELSE a + 1

NoReader == [pc |-> "idle", asked |-> 0, read |-> 0, since |-> 0]

CacheInit ==
  /\ blob = [fetched |-> Never, read |-> Never]
  /\ mutex = 0
  /\ key = [read |-> Never, ttl |-> 0]
  /\ reader = [r \in Readers |-> NoReader]
  /\ over = FALSE

At(r, pc) == reader[r].pc = pc

Turn(r, pc) == reader' = [reader EXCEPT ![r].pc = pc]

Done(r) == reader' = [reader EXCEPT ![r] = NoReader]

-----------------------------------------------------------------------------
(* get_schedule.                                                            *)

\* The time is taken first; a blob younger than Freshness is served as it is.
LoadCached(r) ==
  /\ At(r, "idle")
  /\ IF blob.fetched # Never /\ blob.fetched < Freshness
       THEN UNCHANGED reader
       ELSE Turn(r, "lock")
  /\ UNCHANGED <<blob, mutex, key, over>>

\* Wrong variant of AcquireRefreshLock: the refused reader passes through the
\* `finally` too.
AcquireRefreshLockInTry(r) ==
  /\ At(r, "lock")
  /\ IF mutex = 0
       THEN mutex' = MutexTtl /\ reader' = [reader EXCEPT ![r].pc = "admit", ![r].since = 0]
       ELSE Turn(r, "release") /\ UNCHANGED mutex
  /\ UNCHANGED <<blob, key, over>>

\* SET NX EX; a reader who loses serves what it holds, as stale.
AcquireRefreshLock(r) ==
  /\ At(r, "lock")
  /\ IF mutex = 0
       THEN mutex' = MutexTtl /\ reader' = [reader EXCEPT ![r].pc = "admit", ![r].since = 0]
       ELSE Done(r) /\ UNCHANGED mutex
  /\ UNCHANGED <<blob, key, over>>

\* Breaker open, or a command fails: what was held is served, or an error.
GiveUpRefresh(r) ==
  /\ reader[r].pc \in {"admit", "fetch", "save"}
  /\ Turn(r, "release")
  /\ UNCHANGED <<blob, mutex, key, over>>

AdmitRefresh(r) ==
  /\ At(r, "admit")
  /\ Turn(r, "fetch")
  /\ UNCHANGED <<blob, mutex, key, over>>

FetchFrontPage(r) ==
  /\ At(r, "fetch")
  /\ reader' = [reader EXCEPT ![r].pc = "save", ![r].read = 0]
  /\ UNCHANGED <<blob, mutex, key, over>>

\* fetched_at is the time the request began, before the page was read.
SaveCached(r) ==
  /\ At(r, "save")
  /\ blob' = [fetched |-> reader[r].asked, read |-> reader[r].read]
  /\ Turn(r, "release")
  /\ UNCHANGED <<mutex, key, over>>

\* DEL, whoever's mutex it is by now.
ReleaseRefreshLock(r) ==
  /\ At(r, "release")
  /\ mutex' = 0
  /\ Done(r)
  /\ UNCHANGED <<blob, key, over>>

GetSchedule(r) ==
  \/ LoadCached(r) \/ AcquireRefreshLock(r) \/ GiveUpRefresh(r) \/ AdmitRefresh(r)
  \/ FetchFrontPage(r) \/ SaveCached(r) \/ ReleaseRefreshLock(r)

-----------------------------------------------------------------------------
(* resolve_year_sem, list_catalog_depts, get_course_outline.                *)

LookUp(r) ==
  /\ At(r, "idle")
  /\ IF key.read # Never
       THEN UNCHANGED reader
       ELSE Turn(r, "source")
  /\ UNCHANGED <<blob, mutex, key, over>>

\* The school or the courses table; without an answer nothing is cached.
ReadSource(r) ==
  /\ At(r, "source")
  /\ \/ reader' = [reader EXCEPT ![r].pc = "put", ![r].read = 0]
     \/ Done(r)
  /\ UNCHANGED <<blob, mutex, key, over>>

\* SET EX over whatever another reader put there meanwhile; a failing write is
\* logged, or fails the request of the semester: in both cases nothing is cached.
PutKey(r) ==
  /\ At(r, "put")
  /\ \/ key' = [read |-> reader[r].read, ttl |-> KeyTtl]
     \/ UNCHANGED key
  /\ Done(r)
  /\ UNCHANGED <<blob, mutex, over>>

ReadThrough(r) == LookUp(r) \/ ReadSource(r) \/ PutKey(r)

-----------------------------------------------------------------------------
ReaderDies(r) ==
  /\ ~At(r, "idle")
  /\ Done(r)
  /\ UNCHANGED <<blob, mutex, key, over>>

Refreshing == {r \in Readers : reader[r].pc \in {"admit", "fetch", "save", "release"}}

\* Bound: no handler is longer under way than MaxFetch.
CacheTick ==
  /\ \A r \in Readers : reader[r].asked < MaxFetch
  /\ mutex' = IF mutex = 0 THEN 0 ELSE mutex - 1
  /\ key' = IF key.ttl > 1 THEN [read |-> Aged(key.read), ttl |-> key.ttl - 1]
                           ELSE [read |-> Never, ttl |-> 0]
  /\ blob' = [fetched |-> Aged(blob.fetched), read |-> Aged(blob.read)]
  /\ reader' = [r \in Readers |->
       IF At(r, "idle") THEN reader[r]
       ELSE [reader[r] EXCEPT !.asked = @ + 1,
                              !.read = IF reader[r].pc \in {"save", "put"} THEN @ + 1 ELSE 0,
                              !.since = IF r \in Refreshing THEN @ + 1 ELSE 0]]
  /\ over' = (over \/ \E r \in Refreshing : reader'[r].since >= MutexTtl)

CacheNext ==
  \/ \E r \in Readers : GetSchedule(r) \/ ReadThrough(r) \/ ReaderDies(r)
  \/ CacheTick

CacheSpec == CacheInit /\ [][CacheNext]_cacheVars

-----------------------------------------------------------------------------
(* Properties.                                                              *)

Ages == 0..Oldest \cup {Never}

CacheTypeOK ==
  /\ mutex \in 0..MutexTtl
  /\ blob \in [fetched : Ages, read : Ages]
  /\ key \in [read : Ages, ttl : 0..KeyTtl]
  /\ key.read = Never <=> key.ttl = 0
  /\ reader \in [Readers -> [pc : {"idle", "lock", "admit", "fetch", "save", "release",
                                   "source", "put"},
                             asked : 0..MaxFetch, read : 0..MaxFetch, since : 0..MaxFetch]]
  /\ over \in BOOLEAN

\* What a reader may be served: a schedule that passes as fresh was read from the
\* school less than Freshness ago, and a read-through value is never older than its
\* lifetime and the time a slow reader took to put it there.
ServedIsRecent ==
  /\ blob.fetched # Never /\ blob.fetched < Freshness => blob.read < Freshness
  /\ key.read # Never => key.read < KeyTtl + MaxFetch

\* However readers overlap, what is served is recent; and as long as no refresh has
\* outlived the mutex, which the code deletes without a token, the front page is
\* fetched by one reader at a time and never replaced by one that was read before
\* it, although its fetched_at may go back.
CachesHold ==
  /\ []ServedIsRecent
  /\ [][~over' => Cardinality(Refreshing') <= 1]_cacheVars
  /\ [][~over /\ blob.fetched # Never => blob'.read <= blob.read + 1]_cacheVars

=============================================================================
