CONSTANTS
  Executions = {e1, e2}
  RawKeys <- Spellings
  Kinds = {"file", "dir", "workspace", "named"}
  Worktrees = {"", "wt"}
  MaxDeclared = 2
  MaxReservations = 3
SYMMETRY ExecutionSymmetry
SPECIFICATION Spec
INVARIANTS
  WritersDisjoint
  ReservationsDisjoint
