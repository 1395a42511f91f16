SPECIFICATION Spec
CONSTANTS
  Texts = {x1, x2}
  Tools = {a, b}
  Builders = {p, q}
  None = None
  N = 2
  MaxBuilds = 2
  MaxChanges = 2
  MaxDecayed = 1
  MaxCrashes = 1
SYMMETRY Symmetric
CHECK_DEADLOCK FALSE
INVARIANTS
  TypeOK
  EntryIsTrue
  LinkedIsCurrent
  FailsOnlyByItsLooks
PROPERTY PublicationStands
