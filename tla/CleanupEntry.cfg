SPECIFICATION Spec
CONSTANTS
  Names = {"a", "b", "c", "d"}
  FileRecs = {"a"}
  CacheRecs = {"b"}
  Orphans = {"c"}
  Saved = {"c"}
  Filters = {w1}
  Erasers = {e1}
  ListedMax = 1
  FilteredMax = 1
  MaxFailures = 0
INVARIANTS EntriesKept
