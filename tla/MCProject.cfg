CONSTANTS
  Scopes = {main}
  Works = {w1}
  Actors = {bot}
  SystemActors = {bot}
  Clients = {cli}
  SessionIds = {s1, s2}
  ClaimIds = {c1, c2}
  WaitIds = {}
  RequestIds = {r1, r2}
  TTLs = {1}
  HandoffTTL = 1
  MaxTime = 1
  MaxRevision = 6
  ExecutionIds = {e1}
  ReportKinds = {"trusted_executor"}
  PathReports = {"inside"}
  Digests = {}
  Resources = {}
  Conflicts <- NoConflicts
  MaxAttempts = 1
  Jobs = {j1}
  CompleteJobs = {j1}
  Backups = {b1}
  MaxEpoch = 2
  NoJob = NoJob
SYMMETRY ProjectSymmetry
SPECIFICATION ProjectSpec
INVARIANTS
  AuthorityIsCurrent
PROPERTY TokensNeverReissued
CHECK_DEADLOCK FALSE
