SPECIFICATION Spec
CONSTANTS
  GraphBytes = {b1, b2}
  EditorBytes = {b1, b2, e1}
  Empty = Empty
  Absent = Absent
  HistoryQuota = 1
  EntryQuota = 8
  OrderedMetadata = TRUE
  MaxFaults = 1
  MaxReadFaults = 0
  MaxCrashes = 1
  MaxPowerLosses = 0
  MaxEdits = 2
  EditorDeletes = {"lock"}
  EditorReverts = {"lock"}
SYMMETRY Symmetry
INVARIANT ManifestPresent
INVARIANT ReplacesWhatWasAdmitted
PROPERTY NothingDiscarded
