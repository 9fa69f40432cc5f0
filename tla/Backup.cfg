SPECIFICATION FairSpec
CONSTANTS
  Docs = {"s", "t", "r", "e"}
  BucketOf <- Buckets
  Refs <- Names
  Missing = {"e"}
  Found <- InOrder
  Workers = {w1, w2}
  Threads = TRUE
  MaxErrors = 1
  MaxBucketErrors = 1
INVARIANTS BackupComplete TokensConserved
PROPERTIES BackupReturns
