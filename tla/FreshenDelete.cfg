SPECIFICATION FairSpec
CONSTANTS
  Calls = {c1, c2}
  Archivists = {}
  Markings = {restricted}
  CallExpiries = {1}
  Never = Never
  Absent = Absent
  Archived = FALSE
  ArchiveVer = 1
  MaxResends = 1
  MaxDeletes = 1
INVARIANTS CountIsSightings
PROPERTIES FreshenMonotone EveryCallReturns
