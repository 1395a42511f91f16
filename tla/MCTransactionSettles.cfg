SPECIFICATION FairSpec
CONSTANTS
  GraphBytes = {b1, b2}
  EditorBytes = {}
  Empty = Empty
  Absent = Absent
  HistoryQuota = 1
  EntryQuota = 8
  OrderedMetadata = TRUE
  MaxFaults = 1
  MaxReadFaults = 1
  MaxCrashes = 1
  MaxPowerLosses = 0
  MaxEdits = 0
  EditorDeletes = {}
  EditorReverts = {}
PROPERTY JournalSettles
