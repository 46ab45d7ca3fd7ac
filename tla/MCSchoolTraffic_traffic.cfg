SPECIFICATION TrafficFairSpec
CONSTANTS
  Regweb = regweb
  Sco = sco
  Catalog = catalog
  page = page
  Tasks <- AllTasks
  Others <- OneOther
  Capacity = 1
  MaxSends = 2
  LoginAttempts = 2
  Fetches = 2
  Hops = 1
  Redirects = 1
  SolveAttempts = 2
INVARIANTS
  TrafficTypeOK
  GateHolds
  CodeIsFresh
  FinishedLegKept
PROPERTY EveryRequestEnds
