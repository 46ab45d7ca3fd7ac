SPECIFICATION FairSpec
CONSTANTS
  Handlers = {c1, c2}
  Families = {"selcrs", "stusco"}
  Sliding = 2
  Hard = 2
INVARIANTS
  LogoutIsFinal
PROPERTIES
  SlidingCannotOutliveHard
  ResidueExpires
