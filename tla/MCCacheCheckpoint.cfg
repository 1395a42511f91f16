SPECIFICATION Spec
CONSTANTS
  Paths = {p1, p2}
  Texts = {t1}
  None = None
  Depth = 6
  Requested = {4, 6}
  MaxRequests = 3
  MaxChanges = 1
  MaxSaves = 1
  MaxRestores = 2
  MaxProbes = 0
  MaxFailures = 1
  MaxRestarts = 1
  RollbackFails = TRUE
SYMMETRY Symmetry
CHECK_DEADLOCK FALSE
INVARIANT ValidIsFaithful
PROPERTY RestoreIsWarm
PROPERTY RefusalIsHarmless
INVARIANT TypeOK
PROPERTY ChangeReachesEveryStage
