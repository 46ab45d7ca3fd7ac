\* Deadlock is not checked: the days of IngestCadence and the deaths of
\* LoginThrottle are bounded, and a behaviour ends with them.
SPECIFICATION ComponentsSpec
CONSTANTS
  Callers = {h1, h2}
  FailureThreshold = 2
  RecoveryAfter = 2
  ProbeGate = 1
  Attempts = {a1, a2}
  FailLimit = 3
  Window = 2
  HourlyLimit = 2
  MaxDeaths = 1
  Readers = {r1, r2}
  Freshness = 2
  MutexTtl = 1
  KeyTtl = 1
  MaxFetch = 2
  Never = never
  Syncers = {s1, s2}
  Pages <- MCPages
  Offered = {a}
  Absent = Absent
  a = a
  b = b
  ca = ca
  cb = cb
  Rows = {w1, w2}
  Files = {f1, f2}
  Runs = {p1, p2}
  HotWindow = 1
  KeepWindow = 1
  NoFile = NoFile
  Tables <- MCTables
  Queries <- MCQueries
  PerPage = 2
  Resolved = {1151, Null}
  Semesters = {1142, 1151}
  Null = Null
  DayLength = 24
  Days = 2
  PeakDays = {1}
  OffPeak = {1, 7, 13, 19}
  Peak <- EvenTicks
  Lateness = 1
  MaxRound = 7
  Jobs = {1, 2}
  Payloads = {px, py}
  Students = {"s"}
  OwnerOf <- MCOwner
  OpsOf <- MCOps
  Verdicts = {"settled"}
  Limit = 2
  LastMoment = 1
  px = px
  py = py
  o1 = o1
  o2 = o2
  CalendarIds = {"fri", "wed", "none", "bad", "gone"}
  ClassRow <- MCClassRow
  Periods <- MCPeriods
  SemesterStart = 2
  SemesterEnd = 25
  MaxPlan = 3
  A = A
  B = B
  C = C
  X = X
  CourseCodes = {c1, c11, d}
  Within <- MCWithin
  Pieces <- MCPieces
  MaxPieces = 3
  c1 = c1
  c11 = c11
  d = d
INVARIANTS
  ComponentsTypeOK
  StreakIsConsecutive
  LockoutHolds
  ToldIsStored
  ArchiveHolds
  ListingIsWhole
  SkipsAreFew
  ViewIsConsistent
  CalendarIsExact
  ReplyIsOwn
PROPERTIES
  Recovers
  CachesHold
CHECK_DEADLOCK FALSE
