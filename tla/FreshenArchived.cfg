SPECIFICATION FairSpec
CONSTANTS
  Calls = {c1, c2}
  Archivists = {c1, c2}
  Markings = {restricted}
  CallExpiries = {1}
  Never = Never
  Absent = Absent
  Archived = TRUE
  ArchiveVer = 7
  MaxResends = 0
  MaxDeletes = 0
PROPERTY EveryCallReturns
