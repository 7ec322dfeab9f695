CONSTANTS
  Handlers = {h1, h2}
  e1 = e1
  e2 = e2
  e3 = e3
  work = work
  old = old
  new = new
  Executions = {e2}
  Works = {work}
  Epochs = {old, new}
  Delivery <- RestoredDeliveries
  Barriers <- RestoreBarriers
  PlannedWrites = 1
  None = None
SPECIFICATION Spec
INVARIANT EpochsStayRetired
PROPERTY HandlersReturn
