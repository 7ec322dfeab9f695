CONSTANTS
  Handlers = {h1, h2, h3}
  e1 = e1
  e2 = e2
  e3 = e3
  work = work
  old = old
  new = new
  Executions = {e1, e2}
  Works = {work}
  Epochs = {old, new}
  Delivery <- RestoredDeliveries
  Barriers = {}
  PlannedWrites = 2
  None = None
SYMMETRY HandlerSymmetry
INIT Init
NEXT Next
INVARIANTS
  EffectsOnce
  EffectsFollowFences
  JournalTellsEffects
PROPERTY
  JournaledOutcomeStands
