CONSTANTS
  Leader = leader
  Others = {p1, p2}
  OutputLimit = 1
  MaxOutput = 2
  MaxFaults = 2
  Supervisors = {"check", "job", "campaign", "lab"}

SPECIFICATION Spec
CHECK_DEADLOCK FALSE

INVARIANTS
  TypeOK
  NoSurvivor
  TreeClosedIsTrue
  SignalsOnlyItsOwn
  ResultIsComplete
PROPERTY
  RunEnds
