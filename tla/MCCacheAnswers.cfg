SPECIFICATION Spec
CONSTANTS
  Paths = {p1}
  Texts = {t1, t2}
  None = None
  Depth = 6
  Requested = {2, 6}
  MaxRequests = 3
  MaxChanges = 1
  MaxSaves = 1
  MaxRestores = 2
  MaxProbes = 1
  MaxFailures = 1
  MaxRestarts = 1
  RollbackFails = FALSE
SYMMETRY Symmetry
CHECK_DEADLOCK FALSE
INVARIANT ValidIsFaithful
PROPERTY ValidationIsPure
