SPECIFICATION FairSpec
CONSTANTS
  Docs = {"s", "t", "r", "e"}
  BucketOf <- Buckets
  Refs <- Names
  Missing = {"e"}
  Found <- InOrder
  Workers = {w1, w2}
  Threads = FALSE
  MaxErrors = 0
  MaxBucketErrors = 1
PROPERTY BackupReturns
CHECK_DEADLOCK FALSE
