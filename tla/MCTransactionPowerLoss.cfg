SPECIFICATION Spec
CONSTANTS
  GraphBytes = {b1, b2}
  EditorBytes = {}
  Empty = Empty
  Absent = Absent
  HistoryQuota = 2
  EntryQuota = 6
  OrderedMetadata = TRUE
  MaxFaults = 2
  MaxReadFaults = 0
  MaxCrashes = 1
  MaxPowerLosses = 1
  MaxEdits = 0
  EditorDeletes = {}
  EditorReverts = {}
SYMMETRY Symmetry
INVARIANT TypeOK
INVARIANT JournalRecoverable
INVARIANT RollbackReady
PROPERTY AcknowledgedIsDurable
PROPERTY AbortedKeepsGeneration
PROPERTY ReplacedAtomically
