SPECIFICATION Spec
CONSTANTS
  Calls = {c1, c2}
  Archivists = {}
  Markings = {level, token}
  CallExpiries = {1, 2}
  Never = Never
  Absent = Absent
  Archived = FALSE
  ArchiveVer = 1
  MaxResends = 1
  MaxDeletes = 0
SYMMETRY Symmetry
INVARIANTS NoLostSighting ClassificationIsLeast
PROPERTY LedgerSpec
