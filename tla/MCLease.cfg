CONSTANTS
  Scopes = {main}
  Works = {w1}
  Actors = {alice, bob}
  Clients = {cli}
  SessionIds = {s1, s2, s3}
  ClaimIds = {c1, c2, c3}
  WaitIds = {q1}
  RequestIds = {r1, r2}
  TTLs = {1}
  HandoffTTL = 1
  MaxTime = 2
  MaxRevision = 5
SYMMETRY IdSymmetry
SPECIFICATION LeaseSpec
INVARIANTS
  LeaseTypeOK
  OneActiveClaim
  FencesOrdered
  HolderSessionBound
  ReceiptsAccountForLeases
  FeedTellsClaims
PROPERTIES
  PromiseKept
