SPECIFICATION Spec
CONSTANTS
  Courses <- MCCourses
  Coded <- MCCoded
  Times <- MCTimes
  Legible <- MCLegible
  Requests <- MCRequests
  MaxOps = 3
  Pages <- MCPages
  Catalogs <- MCCatalogs
  Selections <- MCSelections
  Limit <- MCLimit
  MaxPriority = 3
  FirstRound = FALSE
INVARIANTS
  PassesWhenItFits
  OneNamePerBatch
  RowsSayTheBatch
  PostedAsPreviewed
