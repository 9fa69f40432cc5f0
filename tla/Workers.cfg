SPECIFICATION Spec
CONSTANTS
  LockClients = {c1, c2, c3}
  LockNobody = Nobody
  MaxLockEntries = 4
  MaxLockLosses = 1
  QuotaMax = 2
  MaxQuotaBegins = 6
  MaxQuotaLosses = 2
  PqProducers = {p1, p2}
  PqPriorities = {1, 2}
  MaxPqPushes = 3
  MaxPqLosses = 1
  MaxRuleSaves = 4
  MaxRuleFaults = 2
  CtrSteps = {1, 2}
  CtrExportZero = FALSE
  MaxCtrTotal = 4
  MaxCtrRepeats = 1
  PpActions <- Actions
  PpSelections <- Selections
  PpCategories <- Categories
  PpMinimum <- Minimum
  PpArchiveOn = TRUE
INVARIANTS
  LockExclusive
  QuotaHolds
  PqAccounted
  PqInOrder
  RulesCurrent
  CountsConserved
  ArchiveKept
PROPERTIES
  LockServes
  ResubmissionsEnd
CHECK_DEADLOCK FALSE
