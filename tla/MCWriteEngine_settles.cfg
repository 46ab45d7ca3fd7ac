SPECIFICATION FairSpec
CONSTANTS
  j1 = j1  j2 = j2  s1 = s1  s2 = s2  alice = alice  bob = bob
  p1 = p1  p2 = p2  o1 = o1  o2 = o2  NoJob = NoJob
  Jobs = {j1, j2}
  Requests = {r1}
  Sessions = {s1}
  Students = {alice}
  Payloads = {p1}
  Ops = {o1}
  Adds = {o1}
  OwnerOf <- SameOwner
  BatchOwner <- OneBatchOwner
  OpsOf <- AllOps
  Codes <- MCCodes
  NoOf <- MCNoOf
  CodeOf <- MCCodeOf
  TransportRetries = 0
  AdapterAttempts = 1
PROPERTY EveryJobSettles
CHECK_DEADLOCK FALSE
