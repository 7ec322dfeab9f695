CONSTANTS
  base = base
  mid = mid
  top = top
  odd = odd
  ci = ci
  ann = ann
  bot = bot
  Works = {base, mid, top, odd}
  Actors = {ci, ann, bot}
  Kind <- Kinds
  Person <- Persons
  Team <- Teams
  Reviewers <- ReviewersOf
  Proposals <- InstanceProposals
  Limit <- InstanceLimit
  MaxExports = 1
  MaxActivations = 2
  None = None
SPECIFICATION Spec
INVARIANT RunsOnCurrentInputs
PROPERTIES
  ReopensExactly
  FixedInputsStand
  VerdictsAreNewest
CHECK_DEADLOCK FALSE
