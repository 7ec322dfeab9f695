CONSTANTS
  Scopes = {main}
  Works = {w1}
  Actors = {bot}
  SystemActors = {bot}
  Clients = {cli}
  SessionIds = {s1}
  ClaimIds = {c1, c2}
  WaitIds = {}
  RequestIds = {r1, r2, r3}
  TTLs = {1}
  HandoffTTL = 1
  MaxTime = 1
  MaxRevision = 5
  ExecutionIds = {e1, e2}
  ReportKinds = {"trusted_executor"}
  PathReports = {"inside", "outside"}
  Digests = {}
  Resources = {x1, x2}
  Conflicts <- OverlappingBounds
  MaxAttempts = 2
SYMMETRY ExecSymmetry
SPECIFICATION ExecSpec
INVARIANT ReservationsExclusive
PROPERTIES
  AdmissionsFollowFences
  CancelsAreFinal
  UnknownKeepsResources
  SettledFactsStand
