SPECIFICATION Spec
CONSTANTS
  Sids = {"A", "B", "C"}
  Files = {"f", "g", "h", "k"}
  Markings = {"x", "y"}
  Absent = Absent
  SubFiles <- SharedFiles
  SubClass <- BetweenClass
  Supp <- PrivateSupp
  Deleters = {"p", "q"}
  Target <- DeleteATwice
  Bulk = {}
  Imported = {}
  Viewed = {}
  MaxCrashes = 0
INVARIANTS StayingComplete
