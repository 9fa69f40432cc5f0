SPECIFICATION FairSpec
CONSTANTS
  Names = {"a", "c", "d"}
  FileRecs = {"a"}
  CacheRecs = {}
  Orphans = {"c"}
  Saved = {"d"}
  Filters = {w1, w2}
  Erasers = {e1, e2}
  ListedMax = 1
  FilteredMax = 1
  MaxFailures = 1
INVARIANTS RecordedKept NewFilesKept NamesAddUp
PROPERTIES CleanupReturns
