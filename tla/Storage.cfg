SPECIFICATION StorageSpec
CONSTANTS
  Indexes <- HotAndArchive
  Docs = {"old", "new"}
  Preloaded = {"old"}
  ShardCounts <- SomeShards
  TargetShards <- WantedShards
  Replicas = 1
  Absent = Absent
  MaxCommands = 3
  MaxCrashes = 1
  ArcDocs = {a, b}
  ArcAsked = a
  ArcMatching = {1, 2}
  MaxArcSaves = 2
  MaxArcJobs = 2
  FsCount = 2
  FsLocal = {1}
  FsClients = {u, v}
  MaxFsCalls = 3
  MaxFsFaults = 1
  PgDocs = {1, 2, 3, 4, 5}
  PgKey <- PageKeys
  PgRows = {1, 2, 3}
  MaxPgChanges = 2
  FtFiles = {1, 2, 3}
  FtRoots <- Roots
  FtLists <- Lists
  FtScore <- Scores
  FtDepths = {1, 3}
  RtBase = 4
  RtBytes = 2
  RtEnds = {0, 1, 3, 6, 11, 15}
  RtValues = {"x", "y"}
  RtNone = RtNone
  RtDict = RtDict
  MaxRtAdds = 2
  CmLevels = {1, 2}
  CmRequired = {"CMR"}
  CmGroups = {"CSE", "G"}
  CmSubgroups = {"IR", "CCCS"}
  CmRequireLevel <- TokenLevel
  CmAutoGroups = {"CSE"}
  CmAutoSubgroups = {}
  CmRequireGroup <- GroupOf
  CmAsked <- OnlySubgroup
INVARIANTS
  StorageTypeOK
  SavedKept
  FixRestores
  ReadersFind
  PutsStay
  PagesWhole
  TreeWhole
  RangesAgree
  ReadersAgree
PROPERTIES
  NothingLate
  WritesComeBack
