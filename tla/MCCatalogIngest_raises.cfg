SPECIFICATION Spec
CONSTANTS
  coded = coded  changed = changed  uncoded = uncoded  code = code
  Runners = {worker, script}
  Rows = {coded, changed, uncoded}
  CodeOf <- MCCodeOf
  KeyOf <- MCKeyOf
  NoCode = NoCode
  Sites <- MCSites
  CourseIds = {1, 2, 3}
  MaxRuns = 1
  LockTtl = 2
  NoRunner = NoRunner
INVARIANT RunIngestNeverRaises
