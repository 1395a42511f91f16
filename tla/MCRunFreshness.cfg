SPECIFICATION Spec
CONSTANTS
  Inputs = {i1, i2}
  Options = {o1, o2}
  Processes = {p, q}
  None = None
  MaxCommands = 3
  MaxEdits = 2
  MaxReplaced = 1
  MaxCrashes = 1
SYMMETRY Symmetric
CHECK_DEADLOCK FALSE
INVARIANTS
  TypeOK
  RecordIsTrue
  LaunchesItsOwn
