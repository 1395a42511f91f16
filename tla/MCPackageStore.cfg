SPECIFICATION Spec
CONSTANTS
  Packages = {a, b}
  Processes = {p, q}
  MaxCommands = 4
  MaxCrashes = 1
SYMMETRY Symmetric
CHECK_DEADLOCK FALSE
INVARIANTS
  TypeOK
  AddedIsUsable
  RecordedIsWhole
PROPERTY
  AppearsWholeGoesEmpty
