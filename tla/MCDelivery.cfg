SPECIFICATION Spec
SYMMETRY MCSymmetry
CONSTANTS
  w1 = w1
  w2 = w2
  c1 = c1
  c2 = c2
  k1 = k1
  k2 = k2
  e1 = e1
  e2 = e2
  none = none
  Works = {w1}
  Connectors = {c1}
  WorkOf <- MCWorkOf
  Events = {e1, e2}
  Kinds = {"source"}
  Workers = {k1, k2}
  None = none
  MaxChanges = 3
  MaxGeneration = 2
  MaxOperated = 1
  MaxFence = 2
  MaxFaults = 2
CHECK_DEADLOCK FALSE
INVARIANTS
  RevisionsChain
  RecordedLandingsHeld
  PendingFactsStand
PROPERTIES
  ConfirmsAreCurrent
  EffectsByHolder
