SPECIFICATION Spec
SYMMETRY MCSymmetry
CONSTANTS
  p1 = p1
  p2 = p2
  v0 = v0
  v1 = v1
  h1 = h1
  h2 = h2
  none = none
  Hosts = {h1, h2}
  Paths = {p1, p2}
  Contents = {v0, v1}
  None = none
  Shared <- MCShared
  CasModes = {TRUE, FALSE}
  MaxAttempts = 2
  MaxEdits = 2
  MaxRevision = 2
  MaxRare = 1
INVARIANTS
  NamedIsStored
PROPERTIES
  CommitsAreInformed
  EditsSurvivePulls
