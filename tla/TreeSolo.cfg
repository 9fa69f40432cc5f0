SPECIFICATION FairSpec
CONSTANTS
  Sids = {"A", "B", "C"}
  Files = {"f", "g", "h", "k"}
  Markings = {"x", "y", "z"}
  Absent = Absent
  SubFiles <- SharedFiles
  SubClass <- CrossClass
  Supp <- NoSupp
  Deleters = {"p"}
  Target <- DeleteA
  Bulk = {}
  Imported = {"C"}
  Viewed = {}
  MaxCrashes = 1
INVARIANTS NothingOrphaned ExactlyReclassified
PROPERTIES DeletionCompletes
