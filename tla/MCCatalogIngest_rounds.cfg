SPECIFICATION FairSpec
CONSTANTS
  coded = coded  changed = changed  uncoded = uncoded  code = code
  Runners = {worker, script}
  Rows = {coded, changed, uncoded}
  CodeOf <- MCCodeOf
  KeyOf <- MCKeyOf
  NoCode = NoCode
  Sites <- MCSites
  CourseIds = {1, 2, 3, 4}
  MaxRuns = 3
  LockTtl = 1
  NoRunner = NoRunner
INVARIANTS
  TypeOK
  OneRoundAtATime
  TableIsLastScrape
  LedgerIsTrue
PROPERTY LockFrees
