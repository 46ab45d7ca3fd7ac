SPECIFICATION Spec
CONSTANTS
  j1 = j1  j2 = j2  s1 = s1  s2 = s2  alice = alice  bob = bob
  p1 = p1  p2 = p2  o1 = o1  o2 = o2  NoJob = NoJob
  Jobs = {j1}
  Requests = {r1}
  Sessions = {s1, s2}
  Students = {alice}
  Payloads = {p1}
  Ops = {o1, o2}
  Adds = {o1}
  OwnerOf <- SameOwner
  BatchOwner <- OneBatchOwner
  OpsOf <- AllOps
  Codes <- MCCodes
  NoOf <- MCNoOf
  CodeOf <- MCCodeOf
  TransportRetries = 2
  AdapterAttempts = 2
INVARIANT RetriedDuplicateNeverFailed
CHECK_DEADLOCK FALSE
