SPECIFICATION Spec
SYMMETRY MCSymmetry
CONSTANTS
  p1 = p1
  p2 = p2
  h1 = h1
  h2 = h2
  none = none
  original = original
  Proposals = {p1, p2}
  Completions = {p2}
  Contents <- MCContents
  Original = original
  Edit <- MCEdit
  Writers = {h1, h2}
  None = none
  MaxRevision = 8
INVARIANTS
  OpenAttemptsResolvable
  BaseUsedOnce
PROPERTIES
  WritesAreInformed
  AppliedIsInPlace
