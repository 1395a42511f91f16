SPECIFICATION Spec
CONSTANTS
  Inputs = {i1}
  Options = {o1, o2}
  Processes = {p, q}
  None = None
  MaxCommands = 2
  MaxEdits = 0
  MaxReplaced = 0
  MaxCrashes = 0
SYMMETRY Symmetric
CHECK_DEADLOCK FALSE
INVARIANTS
  RacingRebuildsRejected
